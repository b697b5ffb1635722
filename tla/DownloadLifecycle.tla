------------------------- MODULE DownloadLifecycle -------------------------
(***************************************************************************)
(* DownloadQueue as an implementation of FetchLifecycle: the worker that   *)
(* owns a download tells its phase, and its row does when nobody owns it.  *)
(* A run is doomed when its context is cancelled before yt-dlp is started. *)
(***************************************************************************)
EXTENDS DownloadQueue

(* The phase of a run whose worker is at the label.  What a worker does at *)
(* "deregister" touches the registry alone.                                *)
PhaseAt(label, stopped) ==
    [register |-> "taken", start |-> IF stopped THEN "doomed" ELSE "taken",
     wait |-> "fetching",
     complete |-> "fetched", findFolder |-> "fetched", checkKnown |-> "fetched",
     enqueue |-> "fetched",
     error |-> "broken", markCancelled |-> "broken", markFailed |-> "broken",
     deregister |-> "over"][label]

Shown(status) == IF status = "new" THEN "absent"
                 ELSE IF status = "pending" THEN "waiting" ELSE "over"

Runner(d) == CHOOSE w \in Workers : Owns(w, d)

PhaseOf(d) == IF \E w \in Workers : Owns(w, d)
                THEN PhaseAt(pc[Runner(d)], cancelled[d])
                ELSE Shown(row[d])

VerdictOf(d) == IF row[d] \in {"completed", "failed", "cancelled"} THEN row[d] ELSE "none"

phases == [d \in Downloads |-> PhaseOf(d)]
verdicts == [d \in Downloads |-> VerdictOf(d)]

Life == INSTANCE FetchLifecycle WITH
            phase <- phases,
            verdict <- verdicts,
            asked <- encodes,
            handed <- known

(* Whatever requests, faults and restarts do, a download is taken once and *)
(* its yt-dlp started once, not at all after a cancel that found the run   *)
(* in time; a verdict is written by the run it is about, truthfully, by a  *)
(* cancel of what has none, or by the start that finds it left behind; and *)
(* a run hands over only what was asked for, nothing goes to the encode    *)
(* queue before it was taken.                                              *)
ImplementsLifecycle == Life!Spec
=============================================================================
