-------------------------- MODULE OutputLifecycle --------------------------
(***************************************************************************)
(* OutputFile as another implementation of JobLifecycle, the abstraction   *)
(* of EncodeQueue: what the one knows of workers and rows and the other of *)
(* paths and copies comes down to the same life of a job.                  *)
(***************************************************************************)
EXTENDS OutputFile

(* The cancel came before ffmpeg had ended well or before a failure, or    *)
(* the run has told that its source is skipped.                            *)
Doomed(j) ==
    \/ pc[j] \in {"prepare", "probe", "copyIn", "encode"} /\ cancelled[j]
    \/ /\ pc[j] = "cleanup" /\ ~published[j]
       /\ cancelled[j] \/ outcome[j] = "skipped"

StateOf(j) == IF pc[j] = "queued" THEN "waiting"
              ELSE IF pc[j] = "ended" THEN "over"
              ELSE IF Doomed(j) THEN "doomed" ELSE "running"

(* A "failed" may be the report of the run or the row that the next start  *)
(* finds, so only the other two verdicts are told.                         *)
VerdictsOf(j) == {outcome[j]} \cap {"success", "skipped"}

states == [j \in Jobs |-> StateOf(j)]
verdicts == [j \in Jobs |-> VerdictsOf(j)]

Life == INSTANCE JobLifecycle WITH
            state <- states,
            replaced <- published,
            history <- verdicts

(* A job whose cancel came before its encoder had ended well never         *)
(* replaces anything, whatever copies and cancels meet in the library; a   *)
(* success is told of nobody whose output is not in place, and nothing is  *)
(* told or replaced for a job that is over.  All jobs wait at first, which *)
(* is where JobLifecycle is when all are submitted.                        *)
ImplementsLifecycle == [][Life!Next]_(Life!vars)
=============================================================================
