--------------------------- MODULE FetchLifecycle ---------------------------
(***************************************************************************)
(* What the downloader promises of a download, without its workers,        *)
(* requests, statements and restarts: it waits, is taken once, fetched     *)
(* once, unless a cancel has reached it before, and over for good; what is *)
(* shown of it is "completed" only for a file that has arrived, and final  *)
(* once it is "completed" or "failed".                                     *)
(***************************************************************************)
CONSTANT Downloads

VARIABLES
    phase,    \* "absent", "waiting", "taken", "doomed", "fetching", "fetched",
              \* "broken" or "over"
    verdict,  \* "none", "completed", "failed" or "cancelled"
    asked,    \* the file is to be encoded
    handed    \* downloads whose file the encode queue knows

vars == <<phase, verdict, asked, handed>>

InHand == {"taken", "doomed", "fetching", "fetched", "broken"}

Open(d) == verdict[d] \in {"none", "cancelled"}

Init ==
    /\ phase = [d \in Downloads |-> "absent"]
    /\ verdict = [d \in Downloads |-> "none"]
    /\ asked = [d \in Downloads |-> FALSE]
    /\ handed = {}

Move(d, next) == phase' = [phase EXCEPT ![d] = next]

Submit(d) ==
    /\ phase[d] = "absent"
    /\ Move(d, "waiting")
    /\ \E toEncode \in BOOLEAN : asked' = [asked EXCEPT ![d] = toEncode]
    /\ UNCHANGED <<verdict, handed>>

(* The run goes from phase to phase; a doomed one fetches nothing. *)
Advance(d) ==
    /\ \/ phase[d] = "waiting" /\ Move(d, "taken")
       \/ phase[d] = "taken" /\ (Move(d, "fetching") \/ Move(d, "doomed"))
       \/ phase[d] \in {"taken", "doomed", "fetching"} /\ Move(d, "broken")
       \/ phase[d] = "fetching" /\ Move(d, "fetched")
       \/ phase[d] \in {"fetched", "broken"} /\ Move(d, "over")
    /\ UNCHANGED <<verdict, asked, handed>>

(* A cancel withdraws what has no verdict yet: a waiting download for good, *)
(* one in hand unless the run comes to a verdict of its own.               *)
Withdraw(d) ==
    /\ phase[d] # "absent" /\ verdict[d] = "none"
    /\ verdict' = [verdict EXCEPT ![d] = "cancelled"]
    /\ IF phase[d] = "waiting" THEN Move(d, "over") ELSE UNCHANGED phase
    /\ UNCHANGED <<asked, handed>>

Complete(d) ==
    /\ phase[d] = "fetched" /\ Open(d)
    /\ verdict' = [verdict EXCEPT ![d] = "completed"]
    /\ Move(d, "over") \/ (asked[d] /\ UNCHANGED phase)
    /\ UNCHANGED <<asked, handed>>

Fail(d) ==
    /\ phase[d] = "broken" /\ Open(d)
    /\ \E v \in {"failed", "cancelled"} : verdict' = [verdict EXCEPT ![d] = v]
    /\ Move(d, "over")
    /\ UNCHANGED <<asked, handed>>

(* The run itself hands over what was asked for, and is over. *)
HandOver(d) ==
    /\ asked[d] /\ d \notin handed /\ phase[d] = "fetched"
    /\ handed' = handed \cup {d}
    /\ Move(d, "over")
    /\ UNCHANGED <<verdict, asked>>

(* The watcher takes what it comes upon in its folders, asked for or not. *)
Notice(d) ==
    /\ d \notin handed /\ phase[d] \notin {"absent", "waiting"}
    /\ handed' = handed \cup {d}
    /\ UNCHANGED <<phase, verdict, asked>>

(* The process dies; the next one marks what has no verdict. *)
Abandon ==
    /\ phase' = [d \in Downloads |-> IF phase[d] \in InHand THEN "over" ELSE phase[d]]
    /\ UNCHANGED <<verdict, asked, handed>>

Sweep ==
    /\ \A d \in Downloads : phase[d] \notin InHand
    /\ verdict' = [d \in Downloads |-> IF phase[d] = "over" /\ verdict[d] = "none"
                                         THEN "failed" ELSE verdict[d]]
    /\ UNCHANGED <<phase, asked, handed>>

Next ==
    \/ \E d \in Downloads : \/ Submit(d) \/ Advance(d) \/ Withdraw(d)
                            \/ Complete(d) \/ Fail(d) \/ HandOver(d) \/ Notice(d)
    \/ Abandon
    \/ Sweep

Spec == Init /\ [][Next]_vars

-----------------------------------------------------------------------------
(* What a user may rely on: the encode queue gets nothing that was not     *)
(* taken first;                                                            *)
OnlyTaken == \A d \in handed : phase[d] \notin {"absent", "waiting"}

(* a run that ends by handing its file over was asked to, and only its own *)
(* file goes with that step;                                               *)
RunsHandAsked ==
    [][\A d \in Downloads :
         phase[d] = "fetched" /\ phase'[d] = "over" /\ handed' # handed
             => asked[d] /\ handed' = handed \cup {d}]_vars

(* a download that is over is not taken up again.                          *)
OverForGood ==
    [][\A d \in Downloads : phase[d] = "over" => phase'[d] = "over"]_vars
=============================================================================
