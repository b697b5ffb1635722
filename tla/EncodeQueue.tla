---------------------------- MODULE EncodeQueue ----------------------------
(***************************************************************************)
(* The encode queue of internal/queue: a pool of workers that claim rows   *)
(* of the jobs table, copy the source, run ffmpeg and publish the result,  *)
(* while API requests cancel, bump, add, pause and purge, the shutdown     *)
(* sequence of Manager.Stop runs, and the process may die and be started   *)
(* again.                                                                  *)
(*                                                                         *)
(* Grain.  One action is one access to state another goroutine can see: a  *)
(* critical section of Manager.mu, one SQL statement, one channel          *)
(* operation, one test of the job's context, one signal.  The file system  *)
(* detail of a publication is one action here.  The encode window is       *)
(* always open here: what remains of the schedule is the pause switch.     *)
(***************************************************************************)
EXTENDS JobStore

CONSTANTS
    Workers,     \* the goroutines of the pool (clampWorkers: at least one)
    Cancellers,  \* concurrent POST /api/jobs/cancel requests
    Stopper,     \* the goroutine that runs Manager.Stop
    NoJob,       \* a worker, or a canceller, that has no job
    MaxCrashes,  \* bound: abrupt deaths of the process
    MaxPauses,   \* bound: POST /api/queue/pause requests
    Shutdowns,   \* whether SIGTERM may arrive, so that Stop runs
    FolderEdits  \* whether requests delete the jobs under a folder

ASSUME QueueAssumption ==
    /\ Workers # {}
    /\ Stopper \notin Cancellers
    /\ NoJob \notin Jobs
    /\ MaxCrashes \in Nat
    /\ MaxPauses \in Nat
    /\ Shutdowns \in BOOLEAN
    /\ FolderEdits \in BOOLEAN

VARIABLES
    \* the operating system: survives a crash of the server
    temps,      \* temps[j]: "none", "live", or "stray" (left by a dead server)
    published,  \* published[j]: the encoded file has taken its final place
    proc,       \* proc[j]: the ffmpeg of job j
    termed,     \* termed[j]: SIGTERM was sent to it
    \* Manager
    trigger,       \* TriggerChan, a channel of capacity 1, holds a token
    stopClosed,    \* StopChan is closed
    shuttingDown,
    paused,
    active,        \* the keys of Manager.active
    cancelled,     \* cancelled[j]: the context of job j's run is cancelled
    hasCmd,        \* hasCmd[j]: activeJob.cmd is set
    tracked,       \* tracked[j]: activeJob.temps holds the temp paths
    escalating,    \* escalating[j]: an escalateKill timer for j's ffmpeg runs
    \* worker goroutines
    pc, job, erred,
    \* requests in flight
    adding,        \* AddJob has returned, the caller has not yet called Trigger
    ppc, pauses,   \* the pause request in flight, and how many there were
    sigAt, sigJob, \* a goroutine that cancels a job: where it is, which job
    stage, todo,   \* Manager.Stop: where it is, its snapshot of active
    crashes

osVars == <<temps, published, proc, termed>>
chanVars == <<trigger, stopClosed>>
runVars == <<active, cancelled, hasCmd, tracked, escalating>>
workerVars == <<pc, job, erred>>
pauseVars == <<ppc, pauses>>
sigVars == <<sigAt, sigJob>>
stopVars == <<stage, todo>>
gateVars == <<shuttingDown, paused>>
requestVars == <<adding, pauseVars, sigVars, stopVars>>

vars == <<storeVars, osVars, chanVars, gateVars, runVars, workerVars,
          requestVars, crashes>>

Signallers == Cancellers \cup {Stopper}

-----------------------------------------------------------------------------
(* Where a worker is.  The labels from "wakeNext" to "end" lie between a   *)
(* successful ClaimJob and endJob: the worker owns job[w] there.           *)
Searching == {"stopCheck", "pauseCheck", "load", "claim"}
FFmpegRunning == {"setCmd", "checkCmd", "reap", "wait"}
Running == {"prepare", "probe", "copy", "copying", "check", "start"}
             \cup FFmpegRunning \cup {"finish", "report", "return"}
Settling == {"settle", "interrupted", "reportInterrupted", "failed",
             "reportFailed", "delete", "end"}
Unregistered == {"wakeNext", "begin"}
Owning == Unregistered \cup Running \cup Settling
Labels == {"idle", "retrigger", "stopped", "down"} \cup Searching \cup Owning

Serving == stage \notin {"down", "marked"}

Owns(w, j) == pc[w] \in Owning /\ job[w] = j

SystemTypeOK ==
    /\ temps \in [Jobs -> {"none", "live", "stray"}]
    /\ published \in [Jobs -> BOOLEAN]
    /\ proc \in [Jobs -> {"none", "running", "ok", "bad"}]
    /\ termed \in [Jobs -> BOOLEAN]

ManagerTypeOK ==
    /\ trigger \in BOOLEAN
    /\ stopClosed \in BOOLEAN
    /\ shuttingDown \in BOOLEAN
    /\ paused \in BOOLEAN
    /\ active \in SUBSET Jobs
    /\ cancelled \in [Jobs -> BOOLEAN]
    /\ hasCmd \in [Jobs -> BOOLEAN]
    /\ tracked \in [Jobs -> BOOLEAN]
    /\ escalating \in [Jobs -> BOOLEAN]

WorkerTypeOK ==
    /\ pc \in [Workers -> Labels]
    /\ job \in [Workers -> Jobs \cup {NoJob}]
    /\ erred \in [Workers -> BOOLEAN]
    /\ \A w \in Workers : pc[w] \in Owning \cup {"claim"} => job[w] \in Jobs

RequestTypeOK ==
    /\ adding \in SUBSET Jobs
    /\ ppc \in {"none", "pausing", "resuming", "resumed"}
    /\ pauses \in 0 .. MaxPauses
    /\ sigAt \in [Signallers -> {"none", "cancel", "interrupt", "escalate", "delete"}]
    /\ sigJob \in [Signallers -> Jobs \cup {NoJob}]
    /\ stage \in {"up", "signalling", "waiting", "grace", "drained", "gaveUp",
                  "down", "marked"}
    /\ todo \in SUBSET Jobs
    /\ crashes \in 0 .. MaxCrashes

TypeOK ==
    /\ StoreTypeOK
    /\ SystemTypeOK
    /\ ManagerTypeOK
    /\ WorkerTypeOK
    /\ RequestTypeOK

(* NewManager, then Start on an empty database: MarkProcessingAsFailed and *)
(* loadSchedule find nothing, the workers wait, and Start calls Trigger.   *)
Init ==
    /\ StoreInit
    /\ temps = [j \in Jobs |-> "none"]
    /\ published = [j \in Jobs |-> FALSE]
    /\ proc = [j \in Jobs |-> "none"]
    /\ termed = [j \in Jobs |-> FALSE]
    /\ trigger = TRUE
    /\ stopClosed = FALSE
    /\ shuttingDown = FALSE
    /\ paused = FALSE
    /\ active = {}
    /\ cancelled = [j \in Jobs |-> FALSE]
    /\ hasCmd = [j \in Jobs |-> FALSE]
    /\ tracked = [j \in Jobs |-> FALSE]
    /\ escalating = [j \in Jobs |-> FALSE]
    /\ pc = [w \in Workers |-> "idle"]
    /\ job = [w \in Workers |-> NoJob]
    /\ erred = [w \in Workers |-> FALSE]
    /\ adding = {}
    /\ ppc = "none"
    /\ pauses = 0
    /\ sigAt = [s \in Signallers |-> "none"]
    /\ sigJob = [s \in Signallers |-> NoJob]
    /\ stage = "up"
    /\ todo = {}
    /\ crashes = 0

-----------------------------------------------------------------------------
(* Worker steps.  Goto leaves job and erred alone; Finish ends runEncoder. *)
Goto(w, label) ==
    /\ pc' = [pc EXCEPT ![w] = label]
    /\ UNCHANGED <<job, erred>>

Finish(w, err) ==
    /\ pc' = [pc EXCEPT ![w] = "return"]
    /\ erred' = [erred EXCEPT ![w] = err]
    /\ UNCHANGED job

(* The goroutine leaves processNextJob with no job. *)
Idle(w) ==
    /\ pc' = [pc EXCEPT ![w] = "idle"]
    /\ job' = [job EXCEPT ![w] = NoJob]
    /\ erred' = [erred EXCEPT ![w] = FALSE]

(* What one step of a worker leaves alone besides its subject. *)
OnlyWorker == UNCHANGED <<osVars, chanVars, gateVars, runVars, requestVars, crashes>>

(* workerLoop: the select takes either ready channel. *)
Wake(w) ==
    /\ pc[w] = "idle"
    /\ trigger
    /\ trigger' = FALSE
    /\ Goto(w, "stopCheck")
    /\ UNCHANGED <<storeVars, osVars, stopClosed, gateVars, runVars, requestVars, crashes>>

WorkerStops(w) ==
    /\ pc[w] = "idle"
    /\ stopClosed
    /\ Goto(w, "stopped")
    /\ OnlyWorker
    /\ UNCHANGED storeVars

CheckStop(w) ==
    /\ pc[w] = "stopCheck"
    /\ IF shuttingDown THEN Idle(w) ELSE Goto(w, "pauseCheck")
    /\ OnlyWorker
    /\ UNCHANGED storeVars

CheckAllowed(w) ==
    /\ pc[w] = "pauseCheck"
    /\ IF paused THEN Idle(w) ELSE Goto(w, "load")
    /\ OnlyWorker
    /\ UNCHANGED storeVars

(* GetPendingJobs and the search for the first pending row.  Without one,  *)
(* or when the query fails, hasJobs stays false: the token is spent.       *)
LoadPending(w) ==
    /\ pc[w] = "load"
    /\ OnlyWorker
    /\ \/ \E j \in FirstPending :
            /\ pc' = [pc EXCEPT ![w] = "claim"]
            /\ job' = [job EXCEPT ![w] = j]
            /\ UNCHANGED <<erred, storeVars>>
       \/ Pending = {} /\ Idle(w) /\ UNCHANGED storeVars
       \/ DbFails /\ Idle(w)

(* ClaimJob: the row may have been claimed or deleted since it was read. *)
Claim(w) ==
    /\ pc[w] = "claim"
    /\ OnlyWorker
    /\ \/ ClaimJob(job[w]) /\ Goto(w, "wakeNext")
       \/ row[job[w]] # "pending" /\ Goto(w, "retrigger") /\ UNCHANGED storeVars
       \/ DbFails /\ Goto(w, "retrigger")

(* Mutant: the claim does not wake the next worker. *)
ClaimSilently(w) ==
    /\ pc[w] = "wakeNext"
    /\ Goto(w, "begin")
    /\ OnlyWorker
    /\ UNCHANGED storeVars

(* A claim wakes the next worker before it runs its job. *)
WakeNext(w) ==
    /\ pc[w] = "wakeNext"
    /\ trigger' = TRUE
    /\ Goto(w, "begin")
    /\ UNCHANGED <<storeVars, osVars, stopClosed, gateVars, runVars, requestVars, crashes>>

(* Mutant: during a shutdown the context comes back live. *)
BeginJobLive(j) ==
    /\ active' = IF shuttingDown THEN active ELSE active \cup {j}
    /\ UNCHANGED cancelled

(* beginJob registers the run, or, during a shutdown, cancels its context  *)
(* at once and does not register it.                                       *)
BeginJob(j) ==
    IF shuttingDown
      THEN cancelled' = [cancelled EXCEPT ![j] = TRUE] /\ UNCHANGED active
      ELSE active' = active \cup {j} /\ UNCHANGED cancelled

Begin(w) ==
    /\ pc[w] = "begin"
    /\ BeginJob(job[w])
    /\ Goto(w, "prepare")
    /\ UNCHANGED <<storeVars, osVars, chanVars, gateVars, hasCmd, tracked,
                   escalating, requestVars, crashes>>

-----------------------------------------------------------------------------
(* Mutant: the temp paths are not recorded. *)
AddNoTemps(j) == UNCHANGED tracked

(* addTemps has an effect on a registered run only. *)
AddTemps(j) == tracked' = [tracked EXCEPT ![j] = j \in active]

(* runEncoder up to the first test of the context: the source exists, the  *)
(* temp directory can be made, addTemps.                                   *)
Prepare(w) ==
    LET j == job[w] IN
    /\ pc[w] = "prepare"
    /\ \/ Finish(w, TRUE) /\ UNCHANGED tracked
       \/ /\ AddTemps(j)
          /\ IF cancelled[j] THEN Finish(w, TRUE) ELSE Goto(w, "probe")
    /\ UNCHANGED <<storeVars, osVars, chanVars, gateVars, active, cancelled, hasCmd,
                   escalating, requestVars, crashes>>

(* The skip rules, which run ffprobe, the resolution and the disk space.   *)
(* Nothing looks at the context meanwhile: a run cancelled here may still  *)
(* find that its source needs no encoding and report that.                 *)
Probe(w) ==
    /\ pc[w] = "probe"
    /\ \/ AddJobReport(job[w], "skipped") /\ Finish(w, FALSE)
       \/ DbFails /\ Finish(w, TRUE)
       \/ Finish(w, TRUE) /\ UNCHANGED storeVars
       \/ Goto(w, "copy") /\ UNCHANGED storeVars
    /\ OnlyWorker

(* copyFile(source, temp): the context is tested before the file is made, *)
CopyStarts(w) ==
    /\ pc[w] = "copy"
    /\ IF cancelled[job[w]]
         THEN Finish(w, TRUE) /\ UNCHANGED temps
         ELSE Goto(w, "copying") /\ temps' = [temps EXCEPT ![job[w]] = "live"]
    /\ UNCHANGED <<storeVars, published, proc, termed, chanVars, gateVars, runVars,
                   requestVars, crashes>>

(* and before each block: seen there, the copy is removed.  A read or      *)
(* write error leaves a partial copy; so does an unbuildable command.      *)
CopyEnds(w) ==
    /\ pc[w] = "copying"
    /\ \/ /\ cancelled[job[w]]
          /\ temps' = [temps EXCEPT ![job[w]] = "none"]
          /\ Finish(w, TRUE)
       \/ Finish(w, TRUE) /\ UNCHANGED temps
       \/ Goto(w, "check") /\ UNCHANGED temps
    /\ UNCHANGED <<storeVars, published, proc, termed, chanVars, gateVars, runVars,
                   requestVars, crashes>>

CheckBeforeStart(w) ==
    /\ pc[w] = "check"
    /\ IF cancelled[job[w]] THEN Finish(w, TRUE) ELSE Goto(w, "start")
    /\ OnlyWorker
    /\ UNCHANGED storeVars

StartFFmpeg(w) ==
    /\ pc[w] = "start"
    /\ \/ /\ proc' = [proc EXCEPT ![job[w]] = "running"]
          /\ Goto(w, "setCmd")
       \/ Finish(w, TRUE) /\ UNCHANGED proc
    /\ UNCHANGED <<storeVars, temps, published, termed, chanVars, gateVars, runVars,
                   requestVars, crashes>>

SetCurrentCmd(w) ==
    /\ pc[w] = "setCmd"
    /\ hasCmd' = [hasCmd EXCEPT ![job[w]] = @ \/ job[w] \in active]
    /\ Goto(w, "checkCmd")
    /\ UNCHANGED <<storeVars, osVars, chanVars, gateVars, active, cancelled, tracked,
                   escalating, requestVars, crashes>>

(* Mutant: no test of the context between setCurrentCmd and Wait. *)
WaitUnchecked(w) ==
    /\ pc[w] = "checkCmd"
    /\ Goto(w, "wait")
    /\ OnlyWorker
    /\ UNCHANGED storeVars

(* The test that closes the window between cancel() and setCurrentCmd. *)
CheckAfterStart(w) ==
    LET j == job[w] IN
    /\ pc[w] = "checkCmd"
    /\ IF cancelled[j]
         THEN /\ termed' = [termed EXCEPT ![j] = TRUE]
              /\ escalating' = [escalating EXCEPT ![j] = TRUE]
              /\ Goto(w, "reap")
         ELSE Goto(w, "wait") /\ UNCHANGED <<termed, escalating>>
    /\ UNCHANGED <<storeVars, temps, published, proc, chanVars, gateVars, active,
                   cancelled, hasCmd, tracked, requestVars, crashes>>

(* Wait reaps ffmpeg once it is gone; a clean exit is looked at only when   *)
(* the context is still live.                                              *)
FFmpegDone(w) ==
    LET j == job[w] IN
    /\ pc[w] \in {"reap", "wait"}
    /\ proc[j] \in {"ok", "bad"}
    /\ IF pc[w] = "reap" \/ proc[j] = "bad" \/ cancelled[j]
         THEN Finish(w, TRUE)
         ELSE Goto(w, "finish")
    /\ proc' = [proc EXCEPT ![j] = "none"]
    /\ termed' = [termed EXCEPT ![j] = FALSE]
    /\ UNCHANGED <<storeVars, temps, published, chanVars, gateVars, runVars,
                   requestVars, crashes>>

(* Validation, duration and size decide between rejection, keeping the     *)
(* original and publishing; the move itself may fail.                      *)
FinishOutput(w) ==
    LET j == job[w] IN
    /\ pc[w] = "finish"
    /\ \/ Finish(w, TRUE) /\ UNCHANGED <<published, storeVars>>
       \/ /\ AddJobReport(j, "skipped")
          /\ Finish(w, FALSE)
          /\ UNCHANGED published
       \/ DbFails /\ Finish(w, TRUE) /\ UNCHANGED published
       \/ /\ published' = [published EXCEPT ![j] = TRUE]
          /\ Goto(w, "report")
          /\ UNCHANGED storeVars
    /\ UNCHANGED <<temps, proc, termed, chanVars, gateVars, runVars, requestVars, crashes>>

ReportSuccess(w) ==
    /\ pc[w] = "report"
    /\ \/ AddJobReport(job[w], "success") /\ Finish(w, FALSE)
       \/ DbFails /\ Finish(w, TRUE)
    /\ OnlyWorker

(* The deferred cleanupTemps removes the paths the active entry lists. *)
CleanupTemps(w) ==
    LET j == job[w] IN
    /\ pc[w] = "return"
    /\ temps' = [temps EXCEPT ![j] = IF j \in active /\ tracked[j] THEN "none" ELSE @]
    /\ Goto(w, "settle")
    /\ UNCHANGED <<storeVars, published, proc, termed, chanVars, gateVars, runVars,
                   requestVars, crashes>>

-----------------------------------------------------------------------------
(* Mutant: the error of runEncoder is dropped. *)
OutcomeWithoutError(w) == IF cancelled[job[w]] THEN "interrupted" ELSE "delete"

(* processNextJob after runEncoder: the context decides before the error. *)
Outcome(w) ==
    IF cancelled[job[w]] THEN "interrupted"
    ELSE IF erred[w] THEN "failed" ELSE "delete"

Settle(w) ==
    /\ pc[w] = "settle"
    /\ Goto(w, Outcome(w))
    /\ OnlyWorker
    /\ UNCHANGED storeVars

(* Mutant: every interrupted run is reported as a failure. *)
AlwaysReportInterrupted(w) ==
    /\ pc[w] = "interrupted"
    /\ Goto(w, "reportInterrupted")
    /\ OnlyWorker
    /\ UNCHANGED storeVars

(* Only the shutdown, not a cancelled job, is written to the history. *)
CheckInterrupted(w) ==
    /\ pc[w] = "interrupted"
    /\ Goto(w, IF shuttingDown THEN "reportInterrupted" ELSE "delete")
    /\ OnlyWorker
    /\ UNCHANGED storeVars

(* The errors of these statements are ignored: the worker goes on. *)
MarkFailed(w) ==
    /\ pc[w] = "failed"
    /\ UpdateJobStatusFailed(job[w]) \/ DbFails
    /\ Goto(w, "reportFailed")
    /\ OnlyWorker

ReportFailed(w) ==
    /\ pc[w] \in {"reportFailed", "reportInterrupted"}
    /\ AddJobReport(job[w], "failed") \/ DbFails
    /\ Goto(w, "delete")
    /\ OnlyWorker

DeleteOwnJob(w) ==
    /\ pc[w] = "delete"
    /\ DeleteJobs({job[w]}) \/ DbFails
    /\ Goto(w, "end")
    /\ OnlyWorker

(* The entry leaves Manager.active and its fields are forgotten with it: a  *)
(* goroutine that still holds it can only signal a process that is gone,    *)
(* and an escalateKill timer finds the command no longer current.           *)
EndJob(w) ==
    LET j == job[w] IN
    /\ pc[w] = "end"
    /\ active' = active \ {j}
    /\ cancelled' = [cancelled EXCEPT ![j] = FALSE]
    /\ hasCmd' = [hasCmd EXCEPT ![j] = FALSE]
    /\ tracked' = [tracked EXCEPT ![j] = FALSE]
    /\ escalating' = [escalating EXCEPT ![j] = FALSE]
    /\ Goto(w, "retrigger")
    /\ UNCHANGED <<storeVars, osVars, chanVars, gateVars, requestVars, crashes>>

Retrigger(w) ==
    /\ pc[w] = "retrigger"
    /\ trigger' = (trigger \/ ~shuttingDown)
    /\ Idle(w)
    /\ UNCHANGED <<storeVars, osVars, stopClosed, gateVars, runVars, requestVars, crashes>>

WorkerStep(w) ==
    \/ Wake(w) \/ WorkerStops(w) \/ CheckStop(w) \/ CheckAllowed(w)
    \/ LoadPending(w) \/ Claim(w) \/ WakeNext(w) \/ Begin(w)
    \/ Prepare(w) \/ Probe(w) \/ CopyStarts(w) \/ CopyEnds(w) \/ CheckBeforeStart(w)
    \/ StartFFmpeg(w) \/ SetCurrentCmd(w) \/ CheckAfterStart(w) \/ FFmpegDone(w)
    \/ FinishOutput(w) \/ ReportSuccess(w) \/ CleanupTemps(w)
    \/ Settle(w) \/ CheckInterrupted(w) \/ MarkFailed(w) \/ ReportFailed(w)
    \/ DeleteOwnJob(w) \/ EndJob(w) \/ Retrigger(w)

-----------------------------------------------------------------------------
(* ffmpeg ends by itself or because of a signal: its exit code is its own. *)
FFmpegExits(j) ==
    /\ proc[j] = "running"
    /\ \E code \in {"ok", "bad"} : proc' = [proc EXCEPT ![j] = code]
    /\ UNCHANGED <<storeVars, temps, published, termed, chanVars, gateVars, runVars,
                   workerVars, requestVars, crashes>>

KillAll(S) == proc' = [j \in Jobs |-> IF j \in S /\ hasCmd[j] /\ proc[j] = "running"
                                         THEN "bad" ELSE proc[j]]

(* escalateKill, five seconds on: SIGKILL if the command is still current. *)
EscalateKill(j) ==
    /\ escalating[j]
    /\ escalating' = [escalating EXCEPT ![j] = FALSE]
    /\ KillAll({j} \cap active)
    /\ UNCHANGED <<storeVars, temps, published, termed, chanVars, gateVars, active,
                   cancelled, hasCmd, tracked, workerVars, requestVars, crashes>>

-----------------------------------------------------------------------------
(* A goroutine that cancels a job: an API request, or Stop for each entry  *)
(* of its snapshot.  It holds the activeJob, not the lock, so each read of *)
(* j.cmd is a step of its own.                                             *)
SigGoto(s, label, j) ==
    /\ sigAt' = [sigAt EXCEPT ![s] = label]
    /\ sigJob' = [sigJob EXCEPT ![s] = j]

CancelLookup(c, j) ==
    /\ Serving
    /\ sigAt[c] = "none"
    /\ row[j] # "new"
    /\ SigGoto(c, IF j \in active THEN "cancel" ELSE "delete", j)
    /\ UNCHANGED <<storeVars, osVars, chanVars, gateVars, runVars, workerVars,
                   adding, pauseVars, stopVars, crashes>>

CancelDelete(c) ==
    /\ sigAt[c] = "delete"
    /\ DeleteJobs({sigJob[c]}) \/ DbFails
    /\ SigGoto(c, "none", NoJob)
    /\ UNCHANGED <<osVars, chanVars, gateVars, runVars, workerVars,
                   adding, pauseVars, stopVars, crashes>>

CancelContext(s) ==
    /\ sigAt[s] = "cancel"
    /\ cancelled' = [cancelled EXCEPT ![sigJob[s]] = @ \/ sigJob[s] \in active]
    /\ SigGoto(s, "interrupt", sigJob[s])
    /\ UNCHANGED <<storeVars, osVars, chanVars, gateVars, active, hasCmd, tracked,
                   escalating, workerVars, adding, pauseVars, stopVars, crashes>>

(* A signal to an ffmpeg that is gone reaches nobody. *)
Interrupt(s) ==
    LET j == sigJob[s] IN
    /\ sigAt[s] = "interrupt"
    /\ termed' = [termed EXCEPT ![j] = @ \/ (hasCmd[j] /\ proc[j] = "running")]
    /\ SigGoto(s, "escalate", j)
    /\ UNCHANGED <<storeVars, temps, published, proc, chanVars, gateVars, runVars,
                   workerVars, adding, pauseVars, stopVars, crashes>>

(* Mutant: SIGTERM is never followed up. *)
EscalateNever(s) ==
    /\ sigAt[s] = "escalate"
    /\ SigGoto(s, "none", NoJob)
    /\ UNCHANGED <<storeVars, osVars, chanVars, gateVars, runVars, workerVars, adding,
                   pauseVars, stopVars, crashes>>

Escalate(s) ==
    /\ sigAt[s] = "escalate"
    /\ escalating' = [escalating EXCEPT ![sigJob[s]] = @ \/ hasCmd[sigJob[s]]]
    /\ SigGoto(s, "none", NoJob)
    /\ UNCHANGED <<storeVars, osVars, chanVars, gateVars, active, cancelled, hasCmd,
                   tracked, workerVars, adding, pauseVars, stopVars, crashes>>

SignalStep(s) == CancelContext(s) \/ Interrupt(s) \/ Escalate(s)

-----------------------------------------------------------------------------
(* Other requests. *)
OnlyStore == UNCHANGED <<osVars, chanVars, gateVars, runVars, workerVars,
                         pauseVars, sigVars, stopVars, crashes>>

(* The watcher, a download or a re-queue inserts a row, then calls Trigger. *)
AddJob(j, p) ==
    /\ Serving
    /\ InsertJob(j, p)
    /\ adding' = adding \cup {j}
    /\ OnlyStore

TriggerAdded(j) ==
    /\ j \in adding
    /\ adding' = adding \ {j}
    /\ trigger' = TRUE
    /\ UNCHANGED <<storeVars, osVars, stopClosed, gateVars, runVars, workerVars,
                   pauseVars, sigVars, stopVars, crashes>>

Bump(j) ==
    /\ Serving
    /\ BumpJobPriority(j)
    /\ OnlyStore
    /\ UNCHANGED adding

(* DeleteJobsUnderPath: a folder is edited, disabled or removed. *)
PurgeFolder(S) ==
    /\ FolderEdits
    /\ Serving
    /\ S # {}
    /\ \A j \in S : row[j] \in Statuses
    /\ DeleteJobs(S)
    /\ OnlyStore
    /\ UNCHANGED adding

(* SetPaused: the row, then the field, then Trigger when it resumes. *)
PauseRow(b) ==
    /\ Serving
    /\ ppc = "none"
    /\ pauses < MaxPauses
    /\ pauses' = pauses + 1
    /\ \/ SetPausedRow(b) /\ ppc' = IF b THEN "pausing" ELSE "resuming"
       \/ DbFails /\ UNCHANGED ppc
    /\ UNCHANGED <<osVars, chanVars, gateVars, runVars, workerVars, adding, sigVars,
                   stopVars, crashes>>

PauseField ==
    /\ ppc \in {"pausing", "resuming"}
    /\ paused' = (ppc = "pausing")
    /\ ppc' = IF ppc = "pausing" THEN "none" ELSE "resumed"
    /\ UNCHANGED <<storeVars, osVars, chanVars, shuttingDown, runVars, workerVars,
                   adding, pauses, sigVars, stopVars, crashes>>

ResumeTrigger ==
    /\ ppc = "resumed"
    /\ ppc' = "none"
    /\ trigger' = TRUE
    /\ UNCHANGED <<storeVars, osVars, stopClosed, gateVars, runVars, workerVars,
                   adding, pauses, sigVars, stopVars, crashes>>

(* SetWindow, and scheduleLoop when the encode window opens. *)
ScheduleTrigger ==
    /\ Serving
    /\ trigger' = TRUE
    /\ UNCHANGED <<storeVars, osVars, stopClosed, gateVars, runVars, workerVars,
                   requestVars, crashes>>

-----------------------------------------------------------------------------
(* Manager.Stop. *)
StopBegins ==
    /\ Shutdowns
    /\ stage = "up"
    /\ stage' = "signalling"
    /\ shuttingDown' = TRUE
    /\ todo' = active
    /\ UNCHANGED <<storeVars, osVars, chanVars, paused, runVars, workerVars, adding,
                   pauseVars, sigVars, crashes>>

StopSignals(j) ==
    /\ stage = "signalling"
    /\ sigAt[Stopper] = "none"
    /\ j \in todo
    /\ todo' = todo \ {j}
    /\ SigGoto(Stopper, "cancel", j)
    /\ UNCHANGED <<storeVars, osVars, chanVars, gateVars, runVars, workerVars, adding,
                   pauseVars, stage, crashes>>

(* Mutant: StopChan stays open. *)
StopWaitsOnly ==
    /\ stage = "signalling"
    /\ sigAt[Stopper] = "none"
    /\ todo = {}
    /\ stage' = "waiting"
    /\ UNCHANGED <<storeVars, osVars, chanVars, gateVars, runVars, workerVars, adding,
                   pauseVars, sigVars, todo, crashes>>

StopCloses ==
    /\ stage = "signalling"
    /\ sigAt[Stopper] = "none"
    /\ todo = {}
    /\ stopClosed' = TRUE
    /\ stage' = "waiting"
    /\ UNCHANGED <<storeVars, osVars, trigger, gateVars, runVars, workerVars, adding,
                   pauseVars, sigVars, todo, crashes>>

(* doneChan is closed when every workerLoop has returned. *)
StopDrained ==
    /\ stage \in {"waiting", "grace"}
    /\ \A w \in Workers : pc[w] = "stopped"
    /\ stage' = "drained"
    /\ UNCHANGED <<storeVars, osVars, chanVars, gateVars, runVars, workerVars, adding,
                   pauseVars, sigVars, todo, crashes>>

(* The 15 s timer: kill what still runs, and wait 2 s more. *)
StopTimesOut ==
    /\ stage = "waiting"
    /\ stage' = "grace"
    /\ KillAll(active)
    /\ UNCHANGED <<storeVars, temps, published, termed, chanVars, gateVars, runVars,
                   workerVars, adding, pauseVars, sigVars, todo, crashes>>

StopGivesUp ==
    /\ stage = "grace"
    /\ stage' = "gaveUp"
    /\ UNCHANGED <<storeVars, osVars, chanVars, gateVars, runVars, workerVars, adding,
                   pauseVars, sigVars, todo, crashes>>

-----------------------------------------------------------------------------
(* The process is gone, with its goroutines and its memory.  The tables,   *)
(* the files and any ffmpeg (in a process group of its own) stay.          *)
ProcessDies ==
    /\ stage' = "down"
    /\ pc' = [w \in Workers |-> "down"]
    /\ job' = [w \in Workers |-> NoJob]
    /\ erred' = [w \in Workers |-> FALSE]
    /\ temps' = [j \in Jobs |-> IF temps[j] = "live" THEN "stray" ELSE temps[j]]
    /\ trigger' = FALSE
    /\ stopClosed' = FALSE
    /\ shuttingDown' = FALSE
    /\ active' = {}
    /\ cancelled' = [j \in Jobs |-> FALSE]
    /\ hasCmd' = [j \in Jobs |-> FALSE]
    /\ tracked' = [j \in Jobs |-> FALSE]
    /\ escalating' = [j \in Jobs |-> FALSE]
    /\ adding' = {}
    /\ ppc' = "none"
    /\ sigAt' = [s \in Signallers |-> "none"]
    /\ sigJob' = [s \in Signallers |-> NoJob]
    /\ todo' = {}
    /\ UNCHANGED <<storeVars, published, proc, termed, paused, pauses>>

Crash ==
    /\ stage # "down"
    /\ crashes < MaxCrashes
    /\ crashes' = crashes + 1
    /\ ProcessDies

(* main returns after Stop. *)
Exit ==
    /\ stage \in {"drained", "gaveUp"}
    /\ ProcessDies
    /\ UNCHANGED crashes

(* Start: no request is served before it returns.  When loadSchedule cannot *)
(* read the row, the queue comes up unpaused.                              *)
StartMarks ==
    /\ stage = "down"
    /\ stage' = "marked"
    /\ MarkProcessingAsFailed \/ DbFails
    /\ UNCHANGED <<osVars, chanVars, gateVars, runVars, workerVars, adding,
                   pauseVars, sigVars, todo, crashes>>

LoadSchedule ==
    \/ paused' = pausedRow /\ UNCHANGED storeVars
    \/ DbFails /\ paused' = FALSE

OnlyStarts ==
    /\ stage = "marked"
    /\ stage' = "up"
    /\ LoadSchedule
    /\ pc' = [w \in Workers |-> "idle"]
    /\ UNCHANGED <<osVars, stopClosed, shuttingDown, runVars, job, erred, adding,
                   pauseVars, sigVars, todo, crashes>>

(* Mutant: the rows left pending by the previous life wake nobody. *)
StartSilently == OnlyStarts /\ UNCHANGED trigger

StartWorkers == OnlyStarts /\ trigger' = TRUE

-----------------------------------------------------------------------------
Environment ==
    \/ \E j \in Jobs, p \in {0, RequeuePriority} : AddJob(j, p)
    \/ \E j \in Jobs : Bump(j)
    \/ \E S \in SUBSET Jobs : PurgeFolder(S)
    \/ \E c \in Cancellers, j \in Jobs : CancelLookup(c, j)
    \/ \E b \in BOOLEAN : PauseRow(b)
    \/ ScheduleTrigger
    \/ StopBegins
    \/ Crash

(* The rest of an operation already begun. *)
Progress ==
    \/ \E j \in Jobs : TriggerAdded(j)
    \/ \E c \in Cancellers : CancelDelete(c)
    \/ \E s \in Signallers : SignalStep(s)
    \/ \E j \in Jobs : EscalateKill(j)
    \/ PauseField
    \/ ResumeTrigger

Stopping ==
    \/ \E j \in Jobs : StopSignals(j)
    \/ StopCloses
    \/ StopDrained
    \/ StopTimesOut
    \/ StopGivesUp
    \/ Exit

Next ==
    \/ \E w \in Workers : WorkerStep(w)
    \/ \E j \in Jobs : FFmpegExits(j)
    \/ Environment
    \/ Progress
    \/ Stopping
    \/ StartMarks
    \/ StartWorkers

Spec == Init /\ [][Next]_vars

(* The Go scheduler runs every goroutine that can run; a statement, a copy *)
(* and a timer take finite time.  select chooses at random among the ready *)
(* channels, so a worker that is offered StopChan again and again takes it *)
(* (SF), however often it is triggered.  ffmpeg may hang, ignoring SIGTERM.*)
Fairness ==
    /\ \A w \in Workers : WF_vars(WorkerStep(w)) /\ SF_vars(WorkerStops(w))
    /\ \A j \in Jobs : /\ WF_vars(TriggerAdded(j))
                       /\ WF_vars(EscalateKill(j))
                       /\ WF_vars(StopSignals(j))
    /\ \A c \in Cancellers : WF_vars(CancelDelete(c))
    /\ \A s \in Signallers : WF_vars(SignalStep(s))
    /\ WF_vars(PauseField)
    /\ WF_vars(ResumeTrigger)
    /\ WF_vars(StopCloses)
    /\ WF_vars(StopDrained)

FairSpec == Spec /\ Fairness

-----------------------------------------------------------------------------
(* One job is never run by two workers: two encoders would write the same  *)
(* temp files and replace the same source.                                 *)
OwnerExclusive ==
    \A v, w \in Workers : \A j \in Jobs : Owns(v, j) /\ Owns(w, j) => v = w

(* As long as no statement failed, a row shown as "processing" is being    *)
(* worked on, also after a crash or a shutdown that was given up.          *)
ProcessingIsOwned ==
    Serving /\ dbErrs = 0 =>
        \A j \in Jobs : row[j] = "processing" => \E w \in Workers : Owns(w, j)

(* Manager.active holds exactly the runs a request can still interrupt: an *)
(* entry belongs to a worker, and a run without an entry was cancelled by  *)
(* the shutdown before it began and starts no encoder.                     *)
RegistryMatchesRuns ==
    /\ \A j \in active : \E w \in Workers : Owns(w, j) /\ pc[w] \notin Unregistered
    /\ \A w \in Workers, j \in Jobs :
          Owns(w, j) /\ pc[w] \notin Unregistered /\ j \notin active =>
              cancelled[j] /\ proc[j] = "none"

(* Cancel and Stop write the context and then read the command; the worker *)
(* publishes the command and then reads the context.  Whatever the order,  *)
(* a worker never waits for a cancelled ffmpeg nobody has signalled or is  *)
(* about to signal.                                                        *)
NoMissedInterrupt ==
    \A w \in Workers, j \in Jobs :
        pc[w] = "wait" /\ Owns(w, j) /\ cancelled[j] /\ proc[j] = "running" =>
            \/ termed[j]
            \/ \E s \in Signallers : sigAt[s] = "interrupt" /\ sigJob[s] = j

(* No wakeup is lost: with the queue running, a pending job does not sit   *)
(* beside an idle worker, be the others busy for hours, unless a token is  *)
(* in the channel or a step that leads to one is under way.                *)
WorkConserving ==
    /\ Serving /\ ~shuttingDown /\ ~paused /\ dbErrs = 0
    /\ Pending \ adding # {}
    /\ \E w \in Workers : pc[w] = "idle"
    =>
    \/ trigger
    \/ ppc = "resumed"
    \/ \E w \in Workers : pc[w] \in Searching \cup {"wakeNext", "retrigger"}

(* When a run ends, its history is true: "success" exactly when the file   *)
(* was replaced, and no verdict at all only for a cancelled job.           *)
RunLeavesVerdict ==
    \A w \in Workers, j \in Jobs :
        Owns(w, j) /\ pc[w] \in {"delete", "end"} /\ dbErrs = 0 =>
            /\ published[j] <=> "success" \in reports[j]
            /\ reports[j] = {} => cancelled[j]

(* Temp files exist only while runEncoder runs: every way out of it, the   *)
(* one through a shutdown included, has their paths and removes them.      *)
NoTempLeft ==
    \A j \in Jobs : temps[j] = "live" =>
        \E w \in Workers : Owns(w, j) /\ pc[w] \in Running

(* Outside a shutdown the verdict on a job is final: a cancel that comes   *)
(* after the report adds no second line to the history.                    *)
VerdictStands ==
    [][~shuttingDown =>
         \A j \in Jobs : reports[j] # {} => reports'[j] = reports[j]]_vars

(* Cancelling a running job ends it, even when ffmpeg ignores SIGTERM.     *)
CancelEnds ==
    \A j \in Jobs : (j \in active /\ cancelled[j]) ~> (j \notin active)

(* A shutdown ends, even when no timeout comes to its help.                *)
StopEnds == (stage = "signalling") ~> (stage \in {"drained", "gaveUp", "down"})

(* As long as the queue is neither paused nor shut down for good and every *)
(* ffmpeg ends some day, a pending job is taken (or deleted).              *)
PendingServed ==
    /\ <>[](Serving /\ ~shuttingDown /\ ~paused)
    /\ \A j \in Jobs : []<>(proc[j] # "running")
    => \A j \in Jobs : (row[j] = "pending") ~> (row[j] # "pending")

-----------------------------------------------------------------------------
(* What the dashboard promises and the code does not keep.                 *)

(* dashboard.html:91: once the pause request is answered, no job starts.   *)
PausedStartsNothing ==
    [][paused /\ ppc = "none" =>
         \A j \in Jobs : row[j] = "pending" => row'[j] # "processing"]_vars

(* dashboard.html:345: a cancelled job does not replace the source later.  *)
CancelledStaysCancelled ==
    [][\A j \in Jobs : row[j] = "gone" => published'[j] = published[j]]_vars
=============================================================================
