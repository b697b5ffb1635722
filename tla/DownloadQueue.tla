--------------------------- MODULE DownloadQueue ---------------------------
(***************************************************************************)
(* The downloader of internal/downloader: workers that claim rows of the   *)
(* table download_jobs, run yt-dlp and hand the file over to the encode    *)
(* queue, while requests add and cancel downloads, Manager.Stop runs and   *)
(* the process may die and be started again.                               *)
(*                                                                         *)
(* Grain, as in EncodeQueue: one access to state another goroutine can see *)
(* per action.  URLs, formats, progress and cookies are abstracted away.   *)
(* yt-dlp prints the path of the file it has finished, which is what the   *)
(* code relies on; findNewestFile, its last resort, is left out.  The      *)
(* order by created_at, which has a resolution of one second, is not kept. *)
(***************************************************************************)
EXTENDS Naturals, FiniteSets

CONSTANTS
    Downloads,   \* ids the table may hand out
    Workers,     \* goroutines of the downloader: at least one
    Cancellers,  \* concurrent POST /api/download/cancel requests
    NoDownload,
    MaxDbErrors, \* bound: statements that fail
    MaxCrashes,  \* bound: abrupt deaths of the process
    Shutdowns,   \* whether SIGTERM may arrive
    FolderGoes   \* whether the watch folder of the downloads may be removed

ASSUME DownloadAssumption ==
    /\ Workers # {}
    /\ NoDownload \notin Downloads
    /\ MaxDbErrors \in Nat
    /\ MaxCrashes \in Nat
    /\ Shutdowns \in BOOLEAN
    /\ FolderGoes \in BOOLEAN

VARIABLES
    \* tables
    row,        \* status column, or "new"
    encodes,    \* mode = "encode", chosen by the request
    folder,     \* the row of the watch folder exists
    known,      \* downloads whose file is in jobs or job_reports
    dbErrs,
    \* operating system
    ytdlp,      \* "none", "running", or how it ended: "ok", "bad"
    \* Manager
    trigger, stopClosed, shuttingDown,
    active,     \* keys of Manager.active
    cancelled,  \* the context of the run is cancelled
    \* workers
    pc, job,
    \* requests and Stop
    adding,     \* AddDownloadJob has returned, Trigger has not been called
    cancelling, \* cancelling[c]: the id that was not in active, or NoDownload
    stage, todo,
    crashes

tableVars == <<row, encodes, folder, known, dbErrs>>
chanVars == <<trigger, stopClosed>>
runVars == <<active, cancelled>>
workerVars == <<pc, job>>
requestVars == <<adding, cancelling>>
stopVars == <<stage, todo, shuttingDown>>

vars == <<tableVars, ytdlp, chanVars, runVars, workerVars, requestVars, stopVars,
          crashes>>

Statuses == {"pending", "downloading", "completed", "failed", "cancelled"}
Registered == {"start", "wait", "error", "markCancelled", "markFailed", "complete",
               "findFolder", "checkKnown", "enqueue", "deregister"}
Owning == {"register"} \cup Registered
Labels == {"idle", "stopCheck", "load", "claim", "yield", "again", "stopped", "down"}
            \cup Owning

Serving == stage \notin {"down", "marked"}
Owns(w, d) == pc[w] \in Owning /\ job[w] = d
Pending == {d \in Downloads : row[d] = "pending"}

TypeOK ==
    /\ row \in [Downloads -> Statuses \cup {"new"}]
    /\ encodes \in [Downloads -> BOOLEAN]
    /\ folder \in BOOLEAN
    /\ known \in SUBSET Downloads
    /\ dbErrs \in 0 .. MaxDbErrors
    /\ ytdlp \in [Downloads -> {"none", "running", "ok", "bad"}]
    /\ trigger \in BOOLEAN
    /\ stopClosed \in BOOLEAN
    /\ shuttingDown \in BOOLEAN
    /\ active \in SUBSET Downloads
    /\ cancelled \in [Downloads -> BOOLEAN]
    /\ pc \in [Workers -> Labels]
    /\ job \in [Workers -> Downloads \cup {NoDownload}]
    /\ \A w \in Workers : pc[w] \in Owning \cup {"claim"} => job[w] \in Downloads
    /\ adding \in SUBSET Downloads
    /\ cancelling \in [Cancellers -> Downloads \cup {NoDownload}]
    /\ stage \in {"up", "signalling", "waiting", "stopped", "down", "marked"}
    /\ todo \in SUBSET Downloads
    /\ crashes \in 0 .. MaxCrashes

Init ==
    /\ row = [d \in Downloads |-> "new"]
    /\ encodes = [d \in Downloads |-> FALSE]
    /\ folder = TRUE
    /\ known = {}
    /\ dbErrs = 0
    /\ ytdlp = [d \in Downloads |-> "none"]
    /\ trigger = TRUE
    /\ stopClosed = FALSE
    /\ shuttingDown = FALSE
    /\ active = {}
    /\ cancelled = [d \in Downloads |-> FALSE]
    /\ pc = [w \in Workers |-> "idle"]
    /\ job = [w \in Workers |-> NoDownload]
    /\ adding = {}
    /\ cancelling = [c \in Cancellers |-> NoDownload]
    /\ stage = "up"
    /\ todo = {}
    /\ crashes = 0

-----------------------------------------------------------------------------
(* Statements of internal/db on download_jobs. *)
SetRow(d, status) ==
    /\ row' = [row EXCEPT ![d] = status]
    /\ UNCHANGED <<encodes, folder, known, dbErrs>>

DbFails ==
    /\ dbErrs < MaxDbErrors
    /\ dbErrs' = dbErrs + 1
    /\ UNCHANGED <<row, encodes, folder, known>>

(* Mutant: without AND status = 'pending'. *)
ClaimAnyStatus(d) == row[d] # "new" /\ SetRow(d, "downloading")

ClaimDownloadJob(d) == row[d] = "pending" /\ SetRow(d, "downloading")

(* Mutant: the cancel does not look at the status. *)
CancelAnyStatus(d) == SetRow(d, "cancelled")

(* ... AND status IN ('pending', 'downloading'). *)
CancelDownloadJob(d) ==
    SetRow(d, IF row[d] \in {"pending", "downloading"} THEN "cancelled" ELSE row[d])

(* Mutant: a status the page does not know. *)
FailWithError(d) == SetRow(d, "error")

FailDownloadJob(d) == SetRow(d, "failed")
CompleteDownloadJob(d) == SetRow(d, "completed")

(* Mutant: what the process before left behind is queued again. *)
MarkDownloadingAsPending ==
    /\ row' = [d \in Downloads |-> IF row[d] = "downloading" THEN "pending" ELSE row[d]]
    /\ UNCHANGED <<encodes, folder, known, dbErrs>>

MarkDownloadingAsFailed ==
    /\ row' = [d \in Downloads |-> IF row[d] = "downloading" THEN "failed" ELSE row[d]]
    /\ UNCHANGED <<encodes, folder, known, dbErrs>>

AddEncodeJob(d) ==
    /\ known' = known \cup {d}
    /\ UNCHANGED <<row, encodes, folder, dbErrs>>

-----------------------------------------------------------------------------
Goto(w, label) == pc' = [pc EXCEPT ![w] = label] /\ UNCHANGED job

Idle(w) ==
    /\ pc' = [pc EXCEPT ![w] = "idle"]
    /\ job' = [job EXCEPT ![w] = NoDownload]

OnlyWorker == UNCHANGED <<ytdlp, chanVars, runVars, requestVars, stopVars, crashes>>

Wake(w) ==
    /\ pc[w] = "idle"
    /\ trigger
    /\ trigger' = FALSE
    /\ Goto(w, "stopCheck")
    /\ UNCHANGED <<tableVars, ytdlp, stopClosed, runVars, requestVars, stopVars, crashes>>

WorkerStops(w) ==
    /\ pc[w] = "idle"
    /\ stopClosed
    /\ Goto(w, "stopped")
    /\ OnlyWorker
    /\ UNCHANGED tableVars

CheckStop(w) ==
    /\ pc[w] = "stopCheck"
    /\ IF shuttingDown THEN Idle(w) ELSE Goto(w, "load")
    /\ OnlyWorker
    /\ UNCHANGED tableVars

(* GetPendingDownloadJobs: without a row, or with an error, the token is spent. *)
LoadPending(w) ==
    /\ pc[w] = "load"
    /\ \/ \E d \in Pending :
            /\ pc' = [pc EXCEPT ![w] = "claim"]
            /\ job' = [job EXCEPT ![w] = d]
            /\ UNCHANGED tableVars
       \/ Pending = {} /\ Idle(w) /\ UNCHANGED tableVars
       \/ DbFails /\ Idle(w)
    /\ OnlyWorker

(* An error of the statement ends processNext without a trigger. *)
Claim(w) ==
    /\ pc[w] = "claim"
    /\ \/ ClaimDownloadJob(job[w]) /\ Goto(w, "register")
       \/ row[job[w]] # "pending" /\ Goto(w, "yield") /\ UNCHANGED tableVars
       \/ DbFails /\ Idle(w)
    /\ OnlyWorker

(* Mutant: a lost claim ends the turn. *)
YieldSilently(w) ==
    /\ pc[w] = "yield"
    /\ Idle(w)
    /\ OnlyWorker
    /\ UNCHANGED tableVars

(* Another worker, or a cancel, was faster: Trigger. *)
Yield(w) ==
    /\ pc[w] = "yield"
    /\ Idle(w)
    /\ trigger' = TRUE
    /\ UNCHANGED <<tableVars, ytdlp, stopClosed, runVars, requestVars, stopVars, crashes>>

(* Unlike beginJob of the encode queue, runJob does not look at            *)
(* shuttingDown: a run that Stop has not seen goes on.                     *)
Register(w) ==
    /\ pc[w] = "register"
    /\ active' = active \cup {job[w]}
    /\ Goto(w, "start")
    /\ UNCHANGED <<tableVars, ytdlp, chanVars, cancelled, requestVars, stopVars, crashes>>

(* CommandContext refuses to start under a cancelled context; making the   *)
(* directory or the cookie arguments may fail as well.                     *)
StartYtdlp(w) ==
    LET d == job[w] IN
    /\ pc[w] = "start"
    /\ \/ /\ ~cancelled[d]
          /\ ytdlp' = [ytdlp EXCEPT ![d] = "running"]
          /\ Goto(w, "wait")
       \/ Goto(w, "error") /\ UNCHANGED ytdlp
    /\ UNCHANGED <<tableVars, chanVars, runVars, requestVars, stopVars, crashes>>

(* yt-dlp ends by itself: with a complete file whose path it has printed,  *)
(* which counts as a success whatever the exit code, or without.           *)
YtdlpEnds(d) ==
    /\ ytdlp[d] = "running"
    /\ ytdlp' \in {[ytdlp EXCEPT ![d] = how] : how \in {"ok", "bad"}}
    /\ UNCHANGED <<tableVars, chanVars, runVars, workerVars, requestVars, stopVars, crashes>>

(* Mutant: exec.Command, which knows no context. *)
YtdlpUnkilled(d) == cancelled[d] /\ FALSE /\ YtdlpEnds(d)

(* os/exec kills yt-dlp when the context is cancelled; it may have printed *)
(* the path by then.                                                       *)
YtdlpKilled(d) ==
    /\ cancelled[d] /\ d \in active
    /\ YtdlpEnds(d)

(* Wait and the search for the file. *)
Reap(w) ==
    LET d == job[w] IN
    /\ pc[w] = "wait"
    /\ ytdlp[d] # "running"
    /\ Goto(w, IF ytdlp[d] = "ok" THEN "complete" ELSE "error")
    /\ ytdlp' = [ytdlp EXCEPT ![d] = "none"]
    /\ UNCHANGED <<tableVars, chanVars, runVars, requestVars, stopVars, crashes>>

(* The context tells a cancel from a failure. *)
TellError(w) ==
    /\ pc[w] = "error"
    /\ Goto(w, IF cancelled[job[w]] THEN "markCancelled" ELSE "markFailed")
    /\ OnlyWorker
    /\ UNCHANGED tableVars

MarkCancelled(w) ==
    /\ pc[w] = "markCancelled"
    /\ CancelDownloadJob(job[w]) \/ DbFails
    /\ Goto(w, "deregister")
    /\ OnlyWorker

MarkFailed(w) ==
    /\ pc[w] = "markFailed"
    /\ FailDownloadJob(job[w]) \/ DbFails
    /\ Goto(w, "deregister")
    /\ OnlyWorker

Complete(w) ==
    /\ pc[w] = "complete"
    /\ CompleteDownloadJob(job[w]) \/ DbFails
    /\ Goto(w, IF encodes[job[w]] THEN "findFolder" ELSE "deregister")
    /\ OnlyWorker

-----------------------------------------------------------------------------
(* enqueueEncode; its error is logged and nothing more. *)
FindFolder(w) ==
    /\ pc[w] = "findFolder"
    /\ \/ folder /\ Goto(w, "checkKnown") /\ UNCHANGED tableVars
       \/ ~folder /\ Goto(w, "deregister") /\ UNCHANGED tableVars
       \/ DbFails /\ Goto(w, "deregister")
    /\ OnlyWorker

(* Mutant: a file already known ends the whole download. *)
CheckKnownWrongly(w) ==
    /\ pc[w] = "checkKnown"
    /\ Goto(w, IF job[w] \in known THEN "enqueue" ELSE "deregister")
    /\ OnlyWorker
    /\ UNCHANGED tableVars

(* IsFileAlreadyProcessedOrQueued: the watcher may have been faster. *)
CheckKnown(w) ==
    /\ pc[w] = "checkKnown"
    /\ \/ /\ Goto(w, IF job[w] \in known THEN "deregister" ELSE "enqueue")
          /\ UNCHANGED tableVars
       \/ DbFails /\ Goto(w, "deregister")
    /\ OnlyWorker

(* AddJob, then Trigger of the encode queue (AddJob and adding of EncodeQueue). *)
Enqueue(w) ==
    /\ pc[w] = "enqueue"
    /\ AddEncodeJob(job[w]) \/ DbFails
    /\ Goto(w, "deregister")
    /\ OnlyWorker

(* Mutant: the entry of the run stays in the map. *)
DeregisterNothing(w) ==
    /\ pc[w] = "deregister"
    /\ Goto(w, "again")
    /\ OnlyWorker
    /\ UNCHANGED tableVars

(* The deferred function of runJob. *)
Deregister(w) ==
    /\ pc[w] = "deregister"
    /\ active' = active \ {job[w]}
    /\ Goto(w, "again")
    /\ UNCHANGED <<tableVars, ytdlp, chanVars, cancelled, requestVars, stopVars, crashes>>

Again(w) ==
    /\ pc[w] = "again"
    /\ Idle(w)
    /\ trigger' = (trigger \/ ~shuttingDown)
    /\ UNCHANGED <<tableVars, ytdlp, stopClosed, runVars, requestVars, stopVars, crashes>>

WorkerStep(w) ==
    \/ Wake(w) \/ CheckStop(w) \/ LoadPending(w) \/ Claim(w) \/ Yield(w)
    \/ Register(w) \/ StartYtdlp(w) \/ Reap(w) \/ TellError(w)
    \/ MarkCancelled(w) \/ MarkFailed(w) \/ Complete(w)
    \/ FindFolder(w) \/ CheckKnown(w) \/ Enqueue(w)
    \/ Deregister(w) \/ Again(w)

-----------------------------------------------------------------------------
(* POST /api/download/start: the row ... *)
AddDownload(d, toEncode) ==
    /\ Serving
    /\ row[d] = "new"
    /\ toEncode => folder
    /\ row' = [row EXCEPT ![d] = "pending"]
    /\ encodes' = [encodes EXCEPT ![d] = toEncode]
    /\ adding' = adding \cup {d}
    /\ UNCHANGED <<folder, known, dbErrs, ytdlp, chanVars, runVars, workerVars,
                   cancelling, stopVars, crashes>>

(* Mutant: a new row wakes nobody. *)
AddedSilently(d) ==
    /\ d \in adding
    /\ adding' = adding \ {d}
    /\ UNCHANGED <<tableVars, ytdlp, chanVars, runVars, workerVars, cancelling,
                   stopVars, crashes>>

(* ... then Trigger. *)
TriggerAdded(d) ==
    /\ d \in adding
    /\ adding' = adding \ {d}
    /\ trigger' = TRUE
    /\ UNCHANGED <<tableVars, ytdlp, stopClosed, runVars, workerVars, cancelling,
                   stopVars, crashes>>

(* POST /api/download/cancel: a run that is registered has its context     *)
(* cancelled; otherwise the row is marked in a later step.                 *)
CancelLookup(c, d) ==
    /\ Serving
    /\ row[d] # "new"
    /\ cancelling[c] = NoDownload
    /\ IF d \in active
         THEN cancelled' = [cancelled EXCEPT ![d] = TRUE] /\ UNCHANGED cancelling
         ELSE cancelling' = [cancelling EXCEPT ![c] = d] /\ UNCHANGED cancelled
    /\ UNCHANGED <<tableVars, ytdlp, chanVars, active, workerVars, adding, stopVars, crashes>>

CancelRow(c) ==
    /\ cancelling[c] # NoDownload
    /\ CancelDownloadJob(cancelling[c]) \/ DbFails
    /\ cancelling' = [cancelling EXCEPT ![c] = NoDownload]
    /\ UNCHANGED <<ytdlp, chanVars, runVars, workerVars, adding, stopVars, crashes>>

(* The watcher queues every media file it comes upon in an enabled folder  *)
(* (Watcher says when), whatever the download was asked for: a request may *)
(* send a file that is only to be downloaded into a watched folder too,    *)
(* and a folder that is gone may lie inside another one.                   *)
WatcherQueues(d) ==
    /\ Serving
    /\ row[d] \notin {"new", "pending"} /\ d \notin known
    /\ AddEncodeJob(d)
    /\ UNCHANGED <<ytdlp, chanVars, runVars, workerVars, requestVars, stopVars, crashes>>

(* A request removes the watch folder. *)
RemoveFolder ==
    /\ FolderGoes /\ Serving /\ folder
    /\ folder' = FALSE
    /\ UNCHANGED <<row, encodes, known, dbErrs, ytdlp, chanVars, runVars, workerVars,
                   requestVars, stopVars, crashes>>

-----------------------------------------------------------------------------
(* Manager.Stop, which main defers. *)
StopBegins ==
    /\ Shutdowns
    /\ stage = "up"
    /\ stage' = "signalling"
    /\ shuttingDown' = TRUE
    /\ todo' = active
    /\ UNCHANGED <<tableVars, ytdlp, chanVars, runVars, workerVars, requestVars, crashes>>

StopCancels(d) ==
    /\ stage = "signalling"
    /\ d \in todo
    /\ todo' = todo \ {d}
    /\ cancelled' = [cancelled EXCEPT ![d] = @ \/ d \in active]
    /\ UNCHANGED <<tableVars, ytdlp, chanVars, active, workerVars, requestVars, stage,
                   shuttingDown, crashes>>

(* Mutant: nobody closes stopChan. *)
StopWaitsOnly ==
    /\ stage = "signalling"
    /\ todo = {}
    /\ stage' = "waiting"
    /\ UNCHANGED <<tableVars, ytdlp, chanVars, runVars, workerVars, requestVars, todo,
                   shuttingDown, crashes>>

StopCloses ==
    /\ stage = "signalling"
    /\ todo = {}
    /\ stopClosed' = TRUE
    /\ stage' = "waiting"
    /\ UNCHANGED <<tableVars, ytdlp, trigger, runVars, workerVars, requestVars, todo,
                   shuttingDown, crashes>>

(* doneChan is closed when every worker has returned; *)
StopDrained ==
    /\ stage = "waiting"
    /\ \A w \in Workers : pc[w] = "stopped"
    /\ stage' = "stopped"
    /\ UNCHANGED <<tableVars, ytdlp, chanVars, runVars, workerVars, requestVars, todo,
                   shuttingDown, crashes>>

(* after 15 s Stop does not wait any longer. *)
StopGivesUp ==
    /\ stage = "waiting"
    /\ stage' = "stopped"
    /\ UNCHANGED <<tableVars, ytdlp, chanVars, runVars, workerVars, requestVars, todo,
                   shuttingDown, crashes>>

(* The tables and the files survive the process; a yt-dlp that does is     *)
(* nobody's any more.                                                      *)
ProcessDies ==
    /\ stage' = "down"
    /\ trigger' = FALSE
    /\ stopClosed' = FALSE
    /\ shuttingDown' = FALSE
    /\ active' = {}
    /\ cancelled' = [d \in Downloads |-> FALSE]
    /\ pc' = [w \in Workers |-> "down"]
    /\ job' = [w \in Workers |-> NoDownload]
    /\ adding' = {}
    /\ cancelling' = [c \in Cancellers |-> NoDownload]
    /\ todo' = {}
    /\ ytdlp' = [d \in Downloads |-> "none"]
    /\ UNCHANGED tableVars

Crash ==
    /\ stage # "down"
    /\ crashes < MaxCrashes
    /\ crashes' = crashes + 1
    /\ ProcessDies

Exit == stage = "stopped" /\ ProcessDies /\ UNCHANGED crashes

(* Start, with yt-dlp installed. *)
StartMarks ==
    /\ stage = "down"
    /\ stage' = "marked"
    /\ MarkDownloadingAsFailed \/ DbFails
    /\ UNCHANGED <<ytdlp, chanVars, runVars, workerVars, requestVars, todo,
                   shuttingDown, crashes>>

StartWorkers ==
    /\ stage = "marked"
    /\ stage' = "up"
    /\ pc' = [w \in Workers |-> "idle"]
    /\ trigger' = TRUE
    /\ UNCHANGED <<tableVars, ytdlp, stopClosed, runVars, job, requestVars, todo,
                   shuttingDown, crashes>>

-----------------------------------------------------------------------------
Environment ==
    \/ \E d \in Downloads, b \in BOOLEAN : AddDownload(d, b)
    \/ \E d \in Downloads : TriggerAdded(d)
    \/ \E c \in Cancellers, d \in Downloads : CancelLookup(c, d)
    \/ \E c \in Cancellers : CancelRow(c)
    \/ \E d \in Downloads : YtdlpEnds(d)
    \/ \E d \in Downloads : WatcherQueues(d)
    \/ RemoveFolder

Lifetime ==
    \/ StopBegins
    \/ \E d \in Downloads : StopCancels(d)
    \/ StopCloses
    \/ StopDrained
    \/ StopGivesUp
    \/ Crash
    \/ Exit
    \/ StartMarks
    \/ StartWorkers

Next ==
    \/ \E w \in Workers : WorkerStep(w) \/ WorkerStops(w)
    \/ Environment
    \/ Lifetime

Spec == Init /\ [][Next]_vars

(* Goroutines run, statements end, a killed yt-dlp ends and closes its     *)
(* pipes.  A yt-dlp nobody kills may hang.  select is fair to stopChan.    *)
Fairness ==
    /\ \A w \in Workers : WF_vars(WorkerStep(w)) /\ SF_vars(WorkerStops(w))
    /\ \A d \in Downloads : /\ WF_vars(YtdlpKilled(d))
                            /\ WF_vars(TriggerAdded(d))
                            /\ WF_vars(StopCancels(d))
    /\ \A c \in Cancellers : WF_vars(CancelRow(c))
    /\ WF_vars(StopCloses)
    /\ WF_vars(StopDrained)

FairSpec == Spec /\ Fairness

-----------------------------------------------------------------------------
(* Two yt-dlp never write one file: a download has one worker. *)
OneRunner ==
    \A v, w \in Workers, d \in Downloads : Owns(v, d) /\ Owns(w, d) => v = w

(* A cancel finds exactly the runs it can stop in Manager.active; yt-dlp   *)
(* works for such a run only; and as long as no statement failed, a row    *)
(* shown as "downloading" is one.                                          *)
RegistryMatchesRuns ==
    /\ active = {job[w] : w \in {v \in Workers : pc[v] \in Registered}}
    /\ \A d \in Downloads : ytdlp[d] # "none" =>
          \E w \in Workers : pc[w] = "wait" /\ job[w] = d
    /\ Serving /\ dbErrs = 0 =>
        \A d \in Downloads : row[d] = "downloading" => \E w \in Workers : Owns(w, d)

(* No pending download is forgotten: there is a token in the channel, or a *)
(* caller about to put one, or a worker that leaves one behind.            *)
NoForgottenDownload ==
    Serving /\ ~shuttingDown /\ dbErrs = 0 /\ Pending \ adding # {} =>
        trigger \/ \E w \in Workers : pc[w] # "idle"

(* A worker that leaves a completed download which was to be encoded leaves *)
(* it known to the encode queue, through the watcher's hands or its own,   *)
(* unless the folder is gone or a statement failed.                        *)
HandoverComplete ==
    \A w \in Workers : \A d \in Downloads :
        /\ pc[w] = "deregister" /\ job[w] = d
        /\ row[d] = "completed" /\ encodes[d]
        /\ folder /\ dbErrs = 0
        => d \in known

(* What the page shows is final: a completed or failed download never      *)
(* changes, and a cancelled one changes only while a run that the cancel   *)
(* missed is still at work on it.                                          *)
FinalRows ==
    [][\A d \in Downloads :
         /\ row[d] \in {"completed", "failed"} => row'[d] = row[d]
         /\ row[d] = "cancelled" /\ ~(\E w \in Workers : Owns(w, d)) =>
                row'[d] = "cancelled"]_vars

(* A cancel that found the run ends it. *)
CancelEnds ==
    \A d \in Downloads : (d \in active /\ cancelled[d]) ~> (d \notin active)

(* Stop ends without the help of its timeout, for the runs it has seen.    *)
(* (a run registered after the snapshot is not cancelled).                 *)
StopEnds ==
    (\A d \in Downloads : []<>(ytdlp[d] # "running"))
        => ((stage = "signalling") ~> (stage \in {"stopped", "down"}))

(* A pending download is taken, as long as every yt-dlp ends some day, no  *)
(* statement fails and the downloader is not shut down for good.           *)
PendingServed ==
    /\ <>[](Serving /\ ~shuttingDown)
    /\ [](dbErrs = 0)
    /\ \A d \in Downloads : []<>(ytdlp[d] # "running")
    => \A d \in Downloads : (row[d] = "pending") ~> (row[d] # "pending")
=============================================================================
