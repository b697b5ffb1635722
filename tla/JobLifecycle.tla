---------------------------- MODULE JobLifecycle ----------------------------
(***************************************************************************)
(* What the encode queue promises of a job, without its workers, requests, *)
(* statements and restarts: it waits, is taken once, may replace its file  *)
(* once while it runs, unless a cancel, an error or a skip has ruled that  *)
(* out before, and is over for good.                                       *)
(***************************************************************************)
CONSTANT Jobs

VARIABLES
    state,     \* "absent", "waiting", "running", "doomed" or "over"
    replaced,  \* the encoded file has taken its final place
    history    \* verdicts written for the job

vars == <<state, replaced, history>>

Present == {j \in Jobs : state[j] \in {"waiting", "running", "doomed"}}

Init ==
    /\ state = [j \in Jobs |-> "absent"]
    /\ replaced = [j \in Jobs |-> FALSE]
    /\ history = [j \in Jobs |-> {}]

Submit(j) ==
    /\ state[j] = "absent"
    /\ state' = [state EXCEPT ![j] = "waiting"]
    /\ UNCHANGED <<replaced, history>>

Take(j) ==
    /\ state[j] = "waiting"
    /\ state' = [state EXCEPT ![j] = "running"]
    /\ UNCHANGED <<replaced, history>>

Replace(j) ==
    /\ state[j] = "running"
    /\ ~replaced[j]
    /\ replaced' = [replaced EXCEPT ![j] = TRUE]
    /\ UNCHANGED <<state, history>>

(* A cancel, or the shutdown, reaches the run before its output is there,  *)
(* or the run fails: there will be none.                                   *)
Doom(j) ==
    /\ state[j] = "running"
    /\ ~replaced[j]
    /\ state' = [state EXCEPT ![j] = "doomed"]
    /\ UNCHANGED <<replaced, history>>

(* The history never claims a success that did not happen, *)
Record(j) ==
    /\ state[j] \in {"running", "doomed"}
    /\ \E verdict \in {"success", "failed"} :
          /\ verdict = "success" => replaced[j]
          /\ history' = [history EXCEPT ![j] = @ \cup {verdict}]
    /\ UNCHANGED <<state, replaced>>

(* or a skip of a file that was replaced: a run that says its source needs *)
(* no encoding, be it cancelled meanwhile, will put nothing in its place.  *)
Skip(j) ==
    /\ state[j] \in {"running", "doomed"}
    /\ ~replaced[j]
    /\ history' = [history EXCEPT ![j] = @ \cup {"skipped"}]
    /\ state' = [state EXCEPT ![j] = "doomed"]
    /\ UNCHANGED replaced

(* Jobs end, are cancelled or purged, or the process dies. *)
Retire(S) ==
    /\ state' = [j \in Jobs |-> IF j \in S THEN "over" ELSE state[j]]
    /\ UNCHANGED <<replaced, history>>

Next ==
    \/ \E S \in SUBSET Present : Retire(S)
    \/ \E j \in Jobs : \/ Submit(j) \/ Take(j) \/ Replace(j)
                      \/ Doom(j) \/ Record(j) \/ Skip(j)

Spec == Init /\ [][Next]_vars

-----------------------------------------------------------------------------
(* What a user may rely on: a success in the history is one,               *)
Truthful == \A j \in Jobs : "success" \in history[j] => replaced[j]

(* a job that is over is never taken up, told of or published again,       *)
OverForGood ==
    [][\A j \in Jobs : state[j] = "over" =>
          /\ state'[j] = "over"
          /\ replaced'[j] = replaced[j] /\ history'[j] = history[j]]_vars

(* and one that is doomed leaves its file alone until it is over.          *)
DoomedUntouched ==
    [][\A j \in Jobs : state[j] = "doomed" =>
          /\ state'[j] \in {"doomed", "over"}
          /\ replaced'[j] = replaced[j]]_vars
=============================================================================
