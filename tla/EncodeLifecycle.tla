-------------------------- MODULE EncodeLifecycle --------------------------
(***************************************************************************)
(* EncodeQueue as an implementation of JobLifecycle: a job runs while a    *)
(* worker owns it, whatever has become of its row meanwhile; otherwise its *)
(* row tells.  The run is doomed when its context is cancelled before      *)
(* ffmpeg has been reaped with success, and when it is over without an     *)
(* output, because it failed or because its source was skipped.            *)
(***************************************************************************)
EXTENDS EncodeQueue

Owned(j) == \E w \in Workers : Owns(w, j)

BeforeOutput == {"prepare", "probe", "copy", "copying", "check", "start"}
                  \cup FFmpegRunning

DoomedAt(w) ==
    \/ pc[w] \in BeforeOutput /\ cancelled[job[w]]
    \/ pc[w] \in {"return"} \cup Settling /\ ~published[job[w]]

Doomed(j) == \E w \in Workers : Owns(w, j) /\ DoomedAt(w)

Shown == [new |-> "absent", pending |-> "waiting",
          processing |-> "over", failed |-> "over", gone |-> "over"]

StateOf(j) ==
    IF Owned(j) THEN IF Doomed(j) THEN "doomed" ELSE "running"
                ELSE Shown[row[j]]

states == [j \in Jobs |-> StateOf(j)]

Life == INSTANCE JobLifecycle WITH
            state <- states,
            replaced <- published,
            history <- reports

(* Whatever requests, faults and restarts do, a job is taken once, its     *)
(* file is replaced at most once, by a run that owns it and that no cancel *)
(* reached before its encoder had ended well; only such an owner writes    *)
(* the history, truthfully; and nothing brings a job back that has ended:  *)
(* a restart, a late UPDATE or a failed DELETE least of all.               *)
ImplementsLifecycle == Life!Spec
=============================================================================
