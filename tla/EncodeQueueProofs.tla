------------------------- MODULE EncodeQueueProofs -------------------------
(***************************************************************************)
(* Theorems about EncodeQueue for any number of jobs, workers, cancellers, *)
(* crashes, failed statements and pause requests.                          *)
(***************************************************************************)
EXTENDS EncodeQueue, TLAPS

USE DEF storeVars, osVars, chanVars, runVars, workerVars, pauseVars, sigVars,
        stopVars, gateVars, requestVars

-----------------------------------------------------------------------------
(* Type correctness, action by action. *)

(* The columns of the tables. *)
LEMMA StoreTypes ==
    ASSUME TypeOK, [Next]_vars
    PROVE  StoreTypeOK'
  <1> USE StoreAssumption, QueueAssumption DEF TypeOK, StoreTypeOK, SigGoto,
        Goto, Finish, Idle, OnlyWorker, OnlyStore, SetStatus, DbFails, ClaimJob,
        UpdateJobStatusFailed, BumpJobPriority, InsertJob, DeleteJobs,
        MarkProcessingAsFailed, AddJobReport, SetPausedRow, Statuses, Verdicts
  <1>1. ASSUME NEW w \in Workers, LoadPending(w) PROVE StoreTypeOK'
    BY <1>1 DEF LoadPending, FirstPending, Pending
  <1>2. ASSUME NEW w \in Workers, Claim(w) PROVE StoreTypeOK'
    BY <1>2 DEF Claim
  <1>3. ASSUME NEW w \in Workers, Probe(w) PROVE StoreTypeOK'
    BY <1>3 DEF Probe
  <1>4. ASSUME NEW w \in Workers, FinishOutput(w) PROVE StoreTypeOK'
    BY <1>4 DEF FinishOutput
  <1>5. ASSUME NEW w \in Workers, ReportSuccess(w) PROVE StoreTypeOK'
    BY <1>5 DEF ReportSuccess
  <1>6. ASSUME NEW w \in Workers, MarkFailed(w) PROVE StoreTypeOK'
    BY <1>6 DEF MarkFailed
  <1>7. ASSUME NEW w \in Workers, ReportFailed(w) PROVE StoreTypeOK'
    BY <1>7 DEF ReportFailed
  <1>8. ASSUME NEW w \in Workers, DeleteOwnJob(w) PROVE StoreTypeOK'
    BY <1>8 DEF DeleteOwnJob
  <1>9. ASSUME NEW c \in Cancellers, CancelDelete(c) PROVE StoreTypeOK'
    BY <1>9 DEF CancelDelete
  <1>10. ASSUME NEW j \in Jobs, NEW p \in {0, RequeuePriority}, AddJob(j, p)
        PROVE StoreTypeOK'
    BY <1>10 DEF AddJob
  <1>11. ASSUME NEW j \in Jobs, Bump(j) PROVE StoreTypeOK'
    BY <1>11 DEF Bump
  <1>12. ASSUME NEW S \in SUBSET Jobs, PurgeFolder(S) PROVE StoreTypeOK'
    BY <1>12 DEF PurgeFolder
  <1>13. ASSUME NEW b \in BOOLEAN, PauseRow(b) PROVE StoreTypeOK'
    BY <1>13 DEF PauseRow
  <1>14. CASE StartMarks
    BY <1>14 DEF StartMarks
  <1>15. CASE StartWorkers
    BY <1>15 DEF StartWorkers, OnlyStarts, LoadSchedule
  <1>16. CASE UNCHANGED storeVars
    BY <1>16
  <1> HIDE DEF TypeOK, StoreTypeOK, SigGoto, Goto, Finish, Idle, SetStatus,
        DbFails, ClaimJob, UpdateJobStatusFailed, BumpJobPriority, InsertJob,
        DeleteJobs, MarkProcessingAsFailed, AddJobReport, SetPausedRow,
        Statuses, Verdicts
  <1>17. QED BY <1>1, <1>2, <1>3, <1>4, <1>5, <1>6, <1>7, <1>8, <1>9, <1>10,
        <1>11, <1>12, <1>13, <1>14, <1>15, <1>16, ZenonT(30)
        DEF WorkerStep, SignalStep, Environment, Progress, Stopping, Next, vars,
          Wake, WorkerStops, CheckStop, CheckAllowed, WakeNext, Begin, Prepare,
          CopyStarts, CopyEnds, CheckBeforeStart, StartFFmpeg, SetCurrentCmd,
          CheckAfterStart, FFmpegDone, CleanupTemps, Settle, CheckInterrupted,
          EndJob, Retrigger, CancelContext, Interrupt, Escalate, FFmpegExits,
          EscalateKill, TriggerAdded, StopSignals, CancelLookup, PauseField,
          ResumeTrigger, ScheduleTrigger, StopBegins, StopCloses, StopDrained,
          StopTimesOut, StopGivesUp, Crash, Exit, BeginJob, KillAll, Outcome,
          ProcessDies

(* Files and processes. *)
LEMMA SystemTypes ==
    ASSUME TypeOK, [Next]_vars
    PROVE  SystemTypeOK'
  <1> USE StoreAssumption, QueueAssumption DEF TypeOK, SystemTypeOK, SigGoto,
        Goto, Finish, Idle, OnlyWorker, OnlyStore, SetStatus, DbFails, ClaimJob,
        UpdateJobStatusFailed, BumpJobPriority, InsertJob, DeleteJobs,
        MarkProcessingAsFailed, AddJobReport, SetPausedRow
  <1>1. ASSUME NEW w \in Workers, CopyStarts(w) PROVE SystemTypeOK'
    BY <1>1 DEF CopyStarts
  <1>2. ASSUME NEW w \in Workers, CopyEnds(w) PROVE SystemTypeOK'
    BY <1>2 DEF CopyEnds
  <1>3. ASSUME NEW w \in Workers, StartFFmpeg(w) PROVE SystemTypeOK'
    BY <1>3 DEF StartFFmpeg
  <1>4. ASSUME NEW w \in Workers, CheckAfterStart(w) PROVE SystemTypeOK'
    BY <1>4 DEF CheckAfterStart
  <1>5. ASSUME NEW w \in Workers, FFmpegDone(w) PROVE SystemTypeOK'
    BY <1>5 DEF FFmpegDone
  <1>6. ASSUME NEW w \in Workers, FinishOutput(w) PROVE SystemTypeOK'
    BY <1>6 DEF FinishOutput
  <1>7. ASSUME NEW w \in Workers, CleanupTemps(w) PROVE SystemTypeOK'
    BY <1>7 DEF CleanupTemps
  <1>8. ASSUME NEW j \in Jobs, FFmpegExits(j) PROVE SystemTypeOK'
    BY <1>8 DEF FFmpegExits
  <1>9. ASSUME NEW j \in Jobs, EscalateKill(j) PROVE SystemTypeOK'
    BY <1>9 DEF EscalateKill, KillAll
  <1>10. ASSUME NEW s \in Signallers, Interrupt(s) PROVE SystemTypeOK'
    BY <1>10 DEF Interrupt
  <1>11. CASE StopTimesOut
    BY <1>11 DEF StopTimesOut, KillAll
  <1>12. CASE Crash
    BY <1>12 DEF Crash, ProcessDies
  <1>13. CASE Exit
    BY <1>13 DEF Exit, ProcessDies
  <1>14. CASE UNCHANGED osVars
    BY <1>14
  <1> HIDE DEF TypeOK, SystemTypeOK, SigGoto, Goto, Finish, Idle, SetStatus,
        DbFails, ClaimJob, UpdateJobStatusFailed, BumpJobPriority, InsertJob,
        DeleteJobs, MarkProcessingAsFailed, AddJobReport, SetPausedRow
  <1>15. QED BY <1>1, <1>2, <1>3, <1>4, <1>5, <1>6, <1>7, <1>8, <1>9, <1>10,
        <1>11, <1>12, <1>13, <1>14, ZenonT(30)
        DEF WorkerStep, SignalStep, Environment, Progress, Stopping, Next, vars,
          Wake, WorkerStops, CheckStop, CheckAllowed, LoadPending, Claim,
          WakeNext, Begin, Prepare, Probe, CheckBeforeStart, SetCurrentCmd,
          ReportSuccess, Settle, CheckInterrupted, MarkFailed, ReportFailed,
          DeleteOwnJob, EndJob, Retrigger, CancelContext, Escalate,
          TriggerAdded, Bump, StopSignals, CancelDelete, CancelLookup, AddJob,
          PurgeFolder, PauseRow, PauseField, ResumeTrigger, ScheduleTrigger,
          StopBegins, StopCloses, StopDrained, StopGivesUp, StartMarks,
          StartWorkers, AddTemps, BeginJob, FirstPending, LoadSchedule,
          OnlyStarts, Outcome, Pending

(* Channels and the fields of Manager. *)
LEMMA ManagerTypes ==
    ASSUME TypeOK, [Next]_vars
    PROVE  ManagerTypeOK'
  <1> USE StoreAssumption, QueueAssumption DEF TypeOK, ManagerTypeOK, SigGoto,
        Goto, Finish, Idle, OnlyWorker, OnlyStore, SetStatus, DbFails, ClaimJob,
        UpdateJobStatusFailed, BumpJobPriority, InsertJob, DeleteJobs,
        MarkProcessingAsFailed, AddJobReport, SetPausedRow, WorkerTypeOK,
        Owning, Unregistered, Running, FFmpegRunning
  <1>1. ASSUME NEW w \in Workers, Wake(w) PROVE ManagerTypeOK'
    BY <1>1 DEF Wake
  <1>2. ASSUME NEW w \in Workers, WakeNext(w) PROVE ManagerTypeOK'
    BY <1>2 DEF WakeNext
  <1>3. ASSUME NEW w \in Workers, Begin(w) PROVE ManagerTypeOK'
    BY <1>3 DEF Begin, BeginJob
  <1>4. ASSUME NEW w \in Workers, Prepare(w) PROVE ManagerTypeOK'
    <2>1. UNCHANGED <<chanVars, gateVars, active, cancelled, hasCmd,
      escalating>>
      BY <1>4 DEF Prepare
    <2>2. tracked' = tracked \/ tracked' = [tracked EXCEPT ![job[w]] = job[w]
      \in active]
      BY <1>4 DEF Prepare, AddTemps
    <2>3. (job[w] \in active) \in BOOLEAN
      OBVIOUS
    <2>4. tracked' \in [Jobs -> BOOLEAN]
      BY <2>2, <2>3
    <2>5. QED BY <2>1, <2>4
  <1>5. ASSUME NEW w \in Workers, SetCurrentCmd(w) PROVE ManagerTypeOK'
    BY <1>5 DEF SetCurrentCmd
  <1>6. ASSUME NEW w \in Workers, CheckAfterStart(w) PROVE ManagerTypeOK'
    BY <1>6 DEF CheckAfterStart
  <1>7. ASSUME NEW w \in Workers, EndJob(w) PROVE ManagerTypeOK'
    BY <1>7 DEF EndJob
  <1>8. ASSUME NEW w \in Workers, Retrigger(w) PROVE ManagerTypeOK'
    BY <1>8 DEF Retrigger
  <1>9. ASSUME NEW j \in Jobs, EscalateKill(j) PROVE ManagerTypeOK'
    BY <1>9 DEF EscalateKill, KillAll
  <1>10. ASSUME NEW s \in Signallers, CancelContext(s) PROVE ManagerTypeOK'
    BY <1>10 DEF CancelContext
  <1>11. ASSUME NEW s \in Signallers, Escalate(s) PROVE ManagerTypeOK'
    BY <1>11 DEF Escalate
  <1>12. ASSUME NEW j \in Jobs, TriggerAdded(j) PROVE ManagerTypeOK'
    BY <1>12 DEF TriggerAdded
  <1>13. CASE PauseField
    BY <1>13 DEF PauseField
  <1>14. CASE ResumeTrigger
    BY <1>14 DEF ResumeTrigger
  <1>15. CASE ScheduleTrigger
    BY <1>15 DEF ScheduleTrigger
  <1>16. CASE StopBegins
    BY <1>16 DEF StopBegins
  <1>17. CASE StopCloses
    BY <1>17 DEF StopCloses
  <1>18. CASE Crash
    BY <1>18 DEF Crash, ProcessDies
  <1>19. CASE Exit
    BY <1>19 DEF Exit, ProcessDies
  <1>20. CASE StartWorkers
    <2>1. paused' \in BOOLEAN
      BY <1>20 DEF StartWorkers, OnlyStarts, LoadSchedule, StoreTypeOK
    <2>2. QED BY <1>20, <2>1 DEF StartWorkers, OnlyStarts
  <1>21. CASE UNCHANGED <<chanVars, gateVars, runVars>>
    BY <1>21
  <1> HIDE DEF TypeOK, ManagerTypeOK, SigGoto, Goto, Finish, Idle, SetStatus,
        DbFails, ClaimJob, UpdateJobStatusFailed, BumpJobPriority, InsertJob,
        DeleteJobs, MarkProcessingAsFailed, AddJobReport, SetPausedRow,
        WorkerTypeOK, Owning, Unregistered, Running, FFmpegRunning
  <1>22. QED BY <1>1, <1>2, <1>3, <1>4, <1>5, <1>6, <1>7, <1>8, <1>9, <1>10,
        <1>11, <1>12, <1>13, <1>14, <1>15, <1>16, <1>17, <1>18, <1>19, <1>20,
        <1>21, ZenonT(30)
        DEF WorkerStep, SignalStep, Environment, Progress, Stopping, Next, vars,
          WorkerStops, CheckStop, CheckAllowed, LoadPending, Claim, Probe, CopyStarts,
          CopyEnds, CheckBeforeStart, StartFFmpeg, FFmpegDone, FinishOutput,
          ReportSuccess, CleanupTemps, Settle, CheckInterrupted, MarkFailed,
          ReportFailed, DeleteOwnJob, Interrupt, FFmpegExits, Bump, StopSignals,
          CancelDelete, CancelLookup, AddJob, PurgeFolder, PauseRow,
          StopDrained, StopTimesOut, StopGivesUp, StartMarks, FirstPending,
          KillAll, Outcome, Pending

(* Worker goroutines. *)
LEMMA WorkerTypes ==
    ASSUME TypeOK, [Next]_vars
    PROVE  WorkerTypeOK'
  <1> USE StoreAssumption, QueueAssumption DEF TypeOK, WorkerTypeOK, SigGoto,
        OnlyWorker, OnlyStore, SetStatus, DbFails, ClaimJob,
        UpdateJobStatusFailed, BumpJobPriority, InsertJob, DeleteJobs,
        MarkProcessingAsFailed, AddJobReport, SetPausedRow, Labels, Searching,
        Owning, Unregistered, Running, FFmpegRunning, Settling
  <1>g. ASSUME NEW w \in Workers, NEW l \in Labels, Goto(w, l),
               l \in Owning \cup {"claim"} => pc[w] \in Owning \cup {"claim"}
        PROVE  WorkerTypeOK'
    BY <1>g DEF Goto
  <1>f. ASSUME NEW w \in Workers, NEW e \in BOOLEAN, Finish(w, e), pc[w] \in
        Owning
        PROVE  WorkerTypeOK'
    BY <1>f DEF Finish
  <1>i. ASSUME NEW w \in Workers, Idle(w)
        PROVE  WorkerTypeOK'
    BY <1>i DEF Idle
  <1>l. ASSUME NEW w \in Workers, NEW j \in Jobs, pc' = [pc EXCEPT ![w] =
        "claim"],
               job' = [job EXCEPT ![w] = j], UNCHANGED erred
        PROVE  WorkerTypeOK'
    BY <1>l
  <1>1. ASSUME NEW w \in Workers, Wake(w) PROVE WorkerTypeOK'
    BY <1>1, <1>g, <1>f, <1>i DEF Wake
  <1>2. ASSUME NEW w \in Workers, WorkerStops(w) PROVE WorkerTypeOK'
    BY <1>2, <1>g, <1>f, <1>i DEF WorkerStops
  <1>3. ASSUME NEW w \in Workers, CheckStop(w) PROVE WorkerTypeOK'
    BY <1>3, <1>g, <1>f, <1>i DEF CheckStop
  <1>4. ASSUME NEW w \in Workers, CheckAllowed(w) PROVE WorkerTypeOK'
    BY <1>4, <1>g, <1>f, <1>i DEF CheckAllowed
  <1>5. ASSUME NEW w \in Workers, LoadPending(w) PROVE WorkerTypeOK'
    <2>1. ASSUME NEW j \in FirstPending
          PROVE  j \in Jobs
      BY DEF FirstPending, Pending
    <2>2. QED BY <1>5, <2>1, <1>l, <1>i DEF LoadPending
  <1>6. ASSUME NEW w \in Workers, Claim(w) PROVE WorkerTypeOK'
    BY <1>6, <1>g, <1>f, <1>i DEF Claim
  <1>7. ASSUME NEW w \in Workers, WakeNext(w) PROVE WorkerTypeOK'
    BY <1>7, <1>g, <1>f, <1>i DEF WakeNext
  <1>8. ASSUME NEW w \in Workers, Begin(w) PROVE WorkerTypeOK'
    BY <1>8, <1>g, <1>f, <1>i DEF Begin, BeginJob
  <1>9. ASSUME NEW w \in Workers, Prepare(w) PROVE WorkerTypeOK'
    BY <1>9, <1>g, <1>f, <1>i DEF Prepare, AddTemps
  <1>p. ASSUME NEW w \in Workers, Probe(w) PROVE WorkerTypeOK'
    BY <1>p, <1>g, <1>f, <1>i DEF Probe
  <1>10. ASSUME NEW w \in Workers, CopyStarts(w) PROVE WorkerTypeOK'
    BY <1>10, <1>g, <1>f, <1>i DEF CopyStarts
  <1>11. ASSUME NEW w \in Workers, CopyEnds(w) PROVE WorkerTypeOK'
    BY <1>11, <1>g, <1>f, <1>i DEF CopyEnds
  <1>12. ASSUME NEW w \in Workers, CheckBeforeStart(w) PROVE WorkerTypeOK'
    BY <1>12, <1>g, <1>f, <1>i DEF CheckBeforeStart
  <1>13. ASSUME NEW w \in Workers, StartFFmpeg(w) PROVE WorkerTypeOK'
    BY <1>13, <1>g, <1>f, <1>i DEF StartFFmpeg
  <1>14. ASSUME NEW w \in Workers, SetCurrentCmd(w) PROVE WorkerTypeOK'
    BY <1>14, <1>g, <1>f, <1>i DEF SetCurrentCmd
  <1>15. ASSUME NEW w \in Workers, CheckAfterStart(w) PROVE WorkerTypeOK'
    BY <1>15, <1>g, <1>f, <1>i DEF CheckAfterStart
  <1>16. ASSUME NEW w \in Workers, FFmpegDone(w) PROVE WorkerTypeOK'
    BY <1>16, <1>g, <1>f, <1>i DEF FFmpegDone
  <1>17. ASSUME NEW w \in Workers, FinishOutput(w) PROVE WorkerTypeOK'
    BY <1>17, <1>g, <1>f, <1>i DEF FinishOutput
  <1>18. ASSUME NEW w \in Workers, ReportSuccess(w) PROVE WorkerTypeOK'
    BY <1>18, <1>g, <1>f, <1>i DEF ReportSuccess
  <1>19. ASSUME NEW w \in Workers, CleanupTemps(w) PROVE WorkerTypeOK'
    BY <1>19, <1>g, <1>f, <1>i DEF CleanupTemps
  <1>20. ASSUME NEW w \in Workers, Settle(w) PROVE WorkerTypeOK'
    BY <1>20, <1>g, <1>f, <1>i DEF Settle, Outcome
  <1>21. ASSUME NEW w \in Workers, CheckInterrupted(w) PROVE WorkerTypeOK'
    BY <1>21, <1>g, <1>f, <1>i DEF CheckInterrupted
  <1>22. ASSUME NEW w \in Workers, MarkFailed(w) PROVE WorkerTypeOK'
    BY <1>22, <1>g, <1>f, <1>i DEF MarkFailed
  <1>23. ASSUME NEW w \in Workers, ReportFailed(w) PROVE WorkerTypeOK'
    BY <1>23, <1>g, <1>f, <1>i DEF ReportFailed
  <1>24. ASSUME NEW w \in Workers, DeleteOwnJob(w) PROVE WorkerTypeOK'
    BY <1>24, <1>g, <1>f, <1>i DEF DeleteOwnJob
  <1>25. ASSUME NEW w \in Workers, EndJob(w) PROVE WorkerTypeOK'
    BY <1>25, <1>g, <1>f, <1>i DEF EndJob
  <1>26. ASSUME NEW w \in Workers, Retrigger(w) PROVE WorkerTypeOK'
    BY <1>26, <1>g, <1>f, <1>i DEF Retrigger
  <1>27. CASE Crash
    BY <1>27 DEF Crash, ProcessDies
  <1>28. CASE Exit
    BY <1>28 DEF Exit, ProcessDies
  <1>29. CASE StartWorkers
    BY <1>29 DEF StartWorkers, OnlyStarts, LoadSchedule
  <1>30. CASE UNCHANGED workerVars
    BY <1>30
  <1> HIDE DEF TypeOK, WorkerTypeOK, SigGoto, SetStatus, DbFails, ClaimJob,
        UpdateJobStatusFailed, BumpJobPriority, InsertJob, DeleteJobs,
        MarkProcessingAsFailed, AddJobReport, SetPausedRow, Labels, Searching,
        Owning, Unregistered, Running, FFmpegRunning, Settling
  <1>31. QED BY <1>1, <1>2, <1>3, <1>4, <1>5, <1>6, <1>7, <1>8, <1>9, <1>p, <1>10,
        <1>11, <1>12, <1>13, <1>14, <1>15, <1>16, <1>17, <1>18, <1>19, <1>20,
        <1>21, <1>22, <1>23, <1>24, <1>25, <1>26, <1>27, <1>28, <1>29, <1>30,
        ZenonT(30)
        DEF WorkerStep, SignalStep, Environment, Progress, Stopping, Next, vars,
          CancelContext, Interrupt, Escalate, FFmpegExits, EscalateKill,
          TriggerAdded, Bump, StopSignals, CancelDelete, CancelLookup, AddJob,
          PurgeFolder, PauseRow, PauseField, ResumeTrigger, ScheduleTrigger,
          StopBegins, StopCloses, StopDrained, StopTimesOut, StopGivesUp,
          StartMarks, KillAll

(* Requests in flight and Manager.Stop. *)
LEMMA RequestTypes ==
    ASSUME TypeOK, [Next]_vars
    PROVE  RequestTypeOK'
  <1> USE StoreAssumption, QueueAssumption DEF TypeOK, RequestTypeOK, SigGoto,
        Goto, Finish, Idle, OnlyWorker, OnlyStore, SetStatus, DbFails, ClaimJob,
        UpdateJobStatusFailed, BumpJobPriority, InsertJob, DeleteJobs,
        MarkProcessingAsFailed, AddJobReport, SetPausedRow, Signallers
  <1>1. ASSUME NEW s \in Signallers, CancelContext(s) PROVE RequestTypeOK'
    BY <1>1 DEF CancelContext
  <1>2. ASSUME NEW s \in Signallers, Interrupt(s) PROVE RequestTypeOK'
    BY <1>2 DEF Interrupt
  <1>3. ASSUME NEW s \in Signallers, Escalate(s) PROVE RequestTypeOK'
    BY <1>3 DEF Escalate
  <1>4. ASSUME NEW c \in Cancellers, CancelDelete(c) PROVE RequestTypeOK'
    BY <1>4 DEF CancelDelete
  <1>5. ASSUME NEW c \in Cancellers, NEW j \in Jobs, CancelLookup(c, j) PROVE
        RequestTypeOK'
    BY <1>5 DEF CancelLookup
  <1>6. ASSUME NEW j \in Jobs, NEW p \in {0, RequeuePriority}, AddJob(j, p)
        PROVE RequestTypeOK'
    BY <1>6 DEF AddJob
  <1>7. ASSUME NEW j \in Jobs, TriggerAdded(j) PROVE RequestTypeOK'
    BY <1>7 DEF TriggerAdded
  <1>8. ASSUME NEW b \in BOOLEAN, PauseRow(b) PROVE RequestTypeOK'
    BY <1>8 DEF PauseRow
  <1>9. CASE PauseField
    BY <1>9 DEF PauseField
  <1>10. CASE ResumeTrigger
    BY <1>10 DEF ResumeTrigger
  <1>11. CASE StopBegins
    BY <1>11 DEF StopBegins, ManagerTypeOK
  <1>12. ASSUME NEW j \in Jobs, StopSignals(j) PROVE RequestTypeOK'
    BY <1>12 DEF StopSignals
  <1>13. CASE StopCloses
    BY <1>13 DEF StopCloses
  <1>14. CASE StopDrained
    BY <1>14 DEF StopDrained
  <1>15. CASE StopTimesOut
    BY <1>15 DEF StopTimesOut, KillAll
  <1>16. CASE StopGivesUp
    BY <1>16 DEF StopGivesUp
  <1>17. CASE Crash
    BY <1>17 DEF Crash, ProcessDies
  <1>18. CASE Exit
    BY <1>18 DEF Exit, ProcessDies
  <1>19. CASE StartMarks
    BY <1>19 DEF StartMarks
  <1>20. CASE StartWorkers
    BY <1>20 DEF StartWorkers, OnlyStarts, LoadSchedule
  <1>21. CASE UNCHANGED <<requestVars, crashes>>
    BY <1>21
  <1> HIDE DEF TypeOK, RequestTypeOK, SigGoto, Goto, Finish, Idle, SetStatus,
        DbFails, ClaimJob, UpdateJobStatusFailed, BumpJobPriority, InsertJob,
        DeleteJobs, MarkProcessingAsFailed, AddJobReport, SetPausedRow,
        Signallers
  <1>22. QED BY <1>1, <1>2, <1>3, <1>4, <1>5, <1>6, <1>7, <1>8, <1>9, <1>10,
        <1>11, <1>12, <1>13, <1>14, <1>15, <1>16, <1>17, <1>18, <1>19, <1>20,
        <1>21, ZenonT(30)
        DEF WorkerStep, SignalStep, Environment, Progress, Stopping, Next, vars,
          Wake, WorkerStops, CheckStop, CheckAllowed, LoadPending, Claim,
          WakeNext, Begin, Prepare, Probe, CopyStarts, CopyEnds, CheckBeforeStart,
          StartFFmpeg, SetCurrentCmd, CheckAfterStart, FFmpegDone, FinishOutput,
          ReportSuccess, CleanupTemps, Settle, CheckInterrupted, MarkFailed,
          ReportFailed, DeleteOwnJob, EndJob, Retrigger, FFmpegExits,
          EscalateKill, Bump, PurgeFolder, ScheduleTrigger, AddTemps, BeginJob,
          FirstPending, KillAll, Outcome, Pending

(* The type invariant of EncodeQueue, for every instance. *)
THEOREM TypeCorrect == Spec => []TypeOK
  <1>1. Init => TypeOK
    <2> SUFFICES ASSUME Init PROVE TypeOK
      OBVIOUS
    <2> USE StoreAssumption, QueueAssumption DEF Init
    <2>1. StoreTypeOK
      BY 0 \in 0 .. MaxPrio, 0 \in 0 .. MaxDbErrors DEF StoreInit, StoreTypeOK
    <2>2. SystemTypeOK
      BY DEF SystemTypeOK
    <2>3. ManagerTypeOK
      BY DEF ManagerTypeOK
    <2>4. WorkerTypeOK
      BY DEF WorkerTypeOK, Labels, Owning, Unregistered, Running, FFmpegRunning,
        Settling
    <2>5. RequestTypeOK
      BY DEF RequestTypeOK
    <2>6. QED BY <2>1, <2>2, <2>3, <2>4, <2>5 DEF TypeOK
  <1>2. TypeOK /\ [Next]_vars => TypeOK'
    BY StoreTypes, SystemTypes, ManagerTypes, WorkerTypes, RequestTypes DEF
      TypeOK
  <1>3. QED BY <1>1, <1>2, PTL DEF Spec

-----------------------------------------------------------------------------
(* Ownership of jobs. *)

(* A job that was claimed, or that is gone, is never claimable again. *)
Taken(j) == row[j] \notin {"new", "pending"}

LEMMA TakenForGood ==
    ASSUME TypeOK, [Next]_vars, NEW k \in Jobs, Taken(k)
    PROVE  Taken(k)'
  <1> USE StoreAssumption, QueueAssumption DEF TypeOK, StoreTypeOK, Taken, Goto,
        Finish, Idle, OnlyWorker, OnlyStore, SetStatus, Statuses, DbFails,
        ClaimJob, UpdateJobStatusFailed, BumpJobPriority, InsertJob, DeleteJobs,
        MarkProcessingAsFailed, AddJobReport, SetPausedRow, WorkerTypeOK,
        Owning, Unregistered, Running, Settling
  <1>1. ASSUME NEW u \in Workers, LoadPending(u) PROVE Taken(k)'
    BY <1>1 DEF LoadPending, FirstPending, Pending
  <1>2. ASSUME NEW u \in Workers, Claim(u) PROVE Taken(k)'
    BY <1>2 DEF Claim
  <1>3. ASSUME NEW u \in Workers, Probe(u) PROVE Taken(k)'
    BY <1>3 DEF Probe
  <1>4. ASSUME NEW u \in Workers, FinishOutput(u) PROVE Taken(k)'
    BY <1>4 DEF FinishOutput
  <1>5. ASSUME NEW u \in Workers, ReportSuccess(u) PROVE Taken(k)'
    BY <1>5 DEF ReportSuccess
  <1>6. ASSUME NEW u \in Workers, MarkFailed(u) PROVE Taken(k)'
    BY <1>6 DEF MarkFailed
  <1>7. ASSUME NEW u \in Workers, ReportFailed(u) PROVE Taken(k)'
    BY <1>7 DEF ReportFailed
  <1>8. ASSUME NEW u \in Workers, DeleteOwnJob(u) PROVE Taken(k)'
    BY <1>8 DEF DeleteOwnJob
  <1>9. ASSUME NEW c \in Cancellers, CancelDelete(c) PROVE Taken(k)'
    BY <1>9 DEF CancelDelete
  <1>10. ASSUME NEW j \in Jobs, NEW p \in {0, RequeuePriority}, AddJob(j, p)
        PROVE Taken(k)'
    BY <1>10 DEF AddJob
  <1>11. ASSUME NEW j \in Jobs, Bump(j) PROVE Taken(k)'
    BY <1>11 DEF Bump
  <1>12. ASSUME NEW S \in SUBSET Jobs, PurgeFolder(S) PROVE Taken(k)'
    BY <1>12 DEF PurgeFolder
  <1>13. ASSUME NEW b \in BOOLEAN, PauseRow(b) PROVE Taken(k)'
    BY <1>13 DEF PauseRow
  <1>14. CASE StartMarks
    BY <1>14 DEF StartMarks
  <1>15. CASE StartWorkers
    BY <1>15 DEF StartWorkers, OnlyStarts, LoadSchedule
  <1>16. CASE UNCHANGED storeVars
    BY <1>16
  <1> HIDE DEF TypeOK, StoreTypeOK, Taken, Goto, Finish, Idle, SetStatus,
        Statuses, DbFails, ClaimJob, UpdateJobStatusFailed, BumpJobPriority,
        InsertJob, DeleteJobs, MarkProcessingAsFailed, AddJobReport,
        SetPausedRow, WorkerTypeOK, Owning, Unregistered, Running, Settling
  <1>17. QED BY <1>1, <1>2, <1>3, <1>4, <1>5, <1>6, <1>7, <1>8, <1>9, <1>10,
        <1>11, <1>12, <1>13, <1>14, <1>15, <1>16, ZenonT(30)
        DEF WorkerStep, SignalStep, Environment, Progress, Stopping, Next, vars,
          Wake, WorkerStops, CheckStop, CheckAllowed, WakeNext, Begin, Prepare,
          CopyStarts, CopyEnds, CheckBeforeStart, StartFFmpeg, SetCurrentCmd,
          CheckAfterStart, FFmpegDone, CleanupTemps, Settle, CheckInterrupted,
          EndJob, Retrigger, CancelContext, Interrupt, Escalate, FFmpegExits,
          EscalateKill, TriggerAdded, StopSignals, CancelLookup, PauseField,
          ResumeTrigger, ScheduleTrigger, StopBegins, StopCloses, StopDrained,
          StopTimesOut, StopGivesUp, Crash, Exit, BeginJob, KillAll, Outcome,
          ProcessDies

(* A worker comes to own a job in one way only: it claims the row. *)
LEMMA OwnerMoves ==
    ASSUME TypeOK, [Next]_vars, NEW w \in Workers, pc'[w] \in Owning
    PROVE  /\ job'[w] = job[w]
           /\ \/ pc[w] \in Owning
              \/ /\ pc[w] = "claim"
                 /\ row[job[w]] = "pending"
                 /\ row'[job[w]] = "processing"
                 /\ \A v \in Workers : v # w => pc'[v] = pc[v] /\ job'[v] =
                   job[v]
  <1> DEFINE Moved == job'[w] = job[w] /\ (pc[w] \in Owning \/
                 (/\ pc[w] = "claim"
                  /\ row[job[w]] = "pending"
                  /\ row'[job[w]] = "processing"
                  /\ \A v \in Workers : v # w => pc'[v] = pc[v] /\ job'[v] =
                    job[v]))
  <1> SUFFICES Moved
    OBVIOUS
  <1> USE StoreAssumption, QueueAssumption DEF TypeOK, WorkerTypeOK,
        StoreTypeOK, Goto, Finish, Idle, OnlyWorker, OnlyStore, SetStatus,
        ClaimJob, DbFails, Owning, Unregistered, Running, FFmpegRunning,
        Settling, Statuses, Searching
  <1>1. ASSUME NEW u \in Workers, Wake(u) PROVE Moved
    BY <1>1 DEF Wake
  <1>2. ASSUME NEW u \in Workers, WorkerStops(u) PROVE Moved
    BY <1>2 DEF WorkerStops
  <1>3. ASSUME NEW u \in Workers, CheckStop(u) PROVE Moved
    BY <1>3 DEF CheckStop
  <1>4. ASSUME NEW u \in Workers, CheckAllowed(u) PROVE Moved
    BY <1>4 DEF CheckAllowed
  <1>5. ASSUME NEW u \in Workers, LoadPending(u) PROVE Moved
    BY <1>5 DEF LoadPending, FirstPending, Pending
  <1>6. ASSUME NEW u \in Workers, Claim(u) PROVE Moved
    BY <1>6 DEF Claim
  <1>7. ASSUME NEW u \in Workers, WakeNext(u) PROVE Moved
    BY <1>7 DEF WakeNext
  <1>8. ASSUME NEW u \in Workers, Begin(u) PROVE Moved
    BY <1>8 DEF Begin, BeginJob
  <1>9. ASSUME NEW u \in Workers, Prepare(u) PROVE Moved
    BY <1>9 DEF Prepare, AddTemps
  <1>p. ASSUME NEW u \in Workers, Probe(u) PROVE Moved
    BY <1>p DEF Probe
  <1>10. ASSUME NEW u \in Workers, CopyStarts(u) PROVE Moved
    BY <1>10 DEF CopyStarts
  <1>11. ASSUME NEW u \in Workers, CopyEnds(u) PROVE Moved
    BY <1>11 DEF CopyEnds
  <1>12. ASSUME NEW u \in Workers, CheckBeforeStart(u) PROVE Moved
    BY <1>12 DEF CheckBeforeStart
  <1>13. ASSUME NEW u \in Workers, StartFFmpeg(u) PROVE Moved
    BY <1>13 DEF StartFFmpeg
  <1>14. ASSUME NEW u \in Workers, SetCurrentCmd(u) PROVE Moved
    BY <1>14 DEF SetCurrentCmd
  <1>15. ASSUME NEW u \in Workers, CheckAfterStart(u) PROVE Moved
    BY <1>15 DEF CheckAfterStart
  <1>16. ASSUME NEW u \in Workers, FFmpegDone(u) PROVE Moved
    BY <1>16 DEF FFmpegDone
  <1>17. ASSUME NEW u \in Workers, FinishOutput(u) PROVE Moved
    BY <1>17 DEF FinishOutput
  <1>18. ASSUME NEW u \in Workers, ReportSuccess(u) PROVE Moved
    BY <1>18 DEF ReportSuccess
  <1>19. ASSUME NEW u \in Workers, CleanupTemps(u) PROVE Moved
    BY <1>19 DEF CleanupTemps
  <1>20. ASSUME NEW u \in Workers, Settle(u) PROVE Moved
    BY <1>20 DEF Settle, Outcome
  <1>21. ASSUME NEW u \in Workers, CheckInterrupted(u) PROVE Moved
    BY <1>21 DEF CheckInterrupted
  <1>22. ASSUME NEW u \in Workers, MarkFailed(u) PROVE Moved
    BY <1>22 DEF MarkFailed
  <1>23. ASSUME NEW u \in Workers, ReportFailed(u) PROVE Moved
    BY <1>23 DEF ReportFailed
  <1>24. ASSUME NEW u \in Workers, DeleteOwnJob(u) PROVE Moved
    BY <1>24 DEF DeleteOwnJob
  <1>25. ASSUME NEW u \in Workers, EndJob(u) PROVE Moved
    BY <1>25 DEF EndJob
  <1>26. ASSUME NEW u \in Workers, Retrigger(u) PROVE Moved
    BY <1>26 DEF Retrigger
  <1>27. CASE Crash
    BY <1>27 DEF Crash, ProcessDies
  <1>28. CASE Exit
    BY <1>28 DEF Exit, ProcessDies
  <1>29. CASE StartWorkers
    BY <1>29 DEF StartWorkers, OnlyStarts, LoadSchedule
  <1>30. CASE UNCHANGED workerVars
    BY <1>30
  <1> HIDE DEF Moved, TypeOK, WorkerTypeOK, StoreTypeOK, Goto, Finish, Idle,
        SetStatus, ClaimJob, DbFails, Owning, Unregistered, Running, Settling,
        FFmpegRunning, Statuses
  <1>31. QED BY <1>1, <1>2, <1>3, <1>4, <1>5, <1>6, <1>7, <1>8, <1>9, <1>p, <1>10,
        <1>11, <1>12, <1>13, <1>14, <1>15, <1>16, <1>17, <1>18, <1>19, <1>20,
        <1>21, <1>22, <1>23, <1>24, <1>25, <1>26, <1>27, <1>28, <1>29, <1>30,
        ZenonT(30)
        DEF WorkerStep, SignalStep, Environment, Progress, Stopping, Next, vars,
          CancelContext, Interrupt, Escalate, FFmpegExits, EscalateKill,
          TriggerAdded, Bump, StopSignals, CancelDelete, CancelLookup, AddJob,
          PurgeFolder, PauseRow, PauseField, ResumeTrigger, ScheduleTrigger,
          StopBegins, StopCloses, StopDrained, StopTimesOut, StopGivesUp,
          StartMarks, KillAll

(* What OwnerExclusive rests on: an owned row has been taken off the queue. *)
OwnedTaken == \A w \in Workers : pc[w] \in Owning => Taken(job[w])

OwnerInv == TypeOK /\ OwnedTaken /\ OwnerExclusive

LEMMA OwnedTakenStep ==
    ASSUME OwnerInv, [Next]_vars
    PROVE  OwnedTaken'
  <1> SUFFICES ASSUME NEW w \in Workers, pc'[w] \in Owning
               PROVE  Taken(job[w])'
    BY DEF OwnedTaken
  <1>1. job'[w] = job[w]
    BY OwnerMoves DEF OwnerInv
  <1>2. CASE pc[w] \in Owning
    <2>1. job[w] \in Jobs /\ Taken(job[w])
      BY <1>2 DEF OwnerInv, OwnedTaken, TypeOK, WorkerTypeOK
    <2>2. QED BY <2>1, <1>1, TakenForGood DEF OwnerInv, Taken
  <1>3. CASE row'[job[w]] = "processing"
    BY <1>3, <1>1 DEF Taken
  <1>4. QED BY <1>2, <1>3, OwnerMoves DEF OwnerInv

LEMMA OwnerExclusiveStep ==
    ASSUME OwnerInv, [Next]_vars
    PROVE  OwnerExclusive'
  <1> SUFFICES ASSUME NEW v \in Workers, NEW w \in Workers, v # w,
                      pc'[v] \in Owning, pc'[w] \in Owning, job'[v] = job'[w]
               PROVE  FALSE
    BY DEF OwnerExclusive, Owns
  <1>1. job[v] = job[w]
    BY OwnerMoves DEF OwnerInv
  <1>2. CASE pc[v] \in Owning /\ pc[w] \in Owning
    <2>1. job[v] \in Jobs
      BY <1>2 DEF OwnerInv, TypeOK, WorkerTypeOK
    <2>2. QED BY <2>1, <1>1, <1>2 DEF OwnerInv, OwnerExclusive, Owns
  <1>3. ASSUME NEW x \in Workers, NEW y \in Workers, x # y, job[x] = job[y],
               pc'[y] \in Owning, pc[x] = "claim", row[job[x]] = "pending",
               \A u \in Workers : u # x => pc'[u] = pc[u] /\ job'[u] = job[u]
        PROVE  FALSE
    <2>1. pc[y] \in Owning
      BY <1>3
    <2>2. Taken(job[y])
      BY <2>1 DEF OwnerInv, OwnedTaken
    <2>3. QED BY <1>3, <2>2 DEF Taken
  <1>4. CASE pc[v] \notin Owning
    BY <1>1, <1>3, <1>4, OwnerMoves DEF OwnerInv
  <1>5. CASE pc[w] \notin Owning
    BY <1>1, <1>3, <1>5, OwnerMoves DEF OwnerInv
  <1>6. QED BY <1>2, <1>4, <1>5

LEMMA OwnerInvariant == Spec => []OwnerInv
  <1>1. Init => OwnedTaken /\ OwnerExclusive
    BY DEF Init, OwnedTaken, OwnerExclusive, Owns, Owning, Unregistered,
      Running, FFmpegRunning,
       Settling
  <1>2. TypeOK /\ OwnedTaken /\ OwnerExclusive /\ [Next]_vars
            => OwnedTaken' /\ OwnerExclusive'
    BY OwnedTakenStep, OwnerExclusiveStep DEF OwnerInv
  <1>3. QED BY <1>1, <1>2, TypeCorrect, PTL DEF Spec, OwnerInv

(* No job is ever run by two workers at once, whatever the number of        *)
(* workers, cancels, purges, crashes and failed statements.                 *)
THEOREM OneOwner == Spec => []OwnerExclusive
  BY OwnerInvariant, PTL DEF OwnerInv

-----------------------------------------------------------------------------
(* No lost wakeup. *)

LEMMA WorkConservingStep ==
    ASSUME TypeOK, WorkConserving, [Next]_vars
    PROVE  WorkConserving'
  <1> SUFFICES ASSUME NEW i \in Workers, NEW k \in Jobs,
                      Serving', ~shuttingDown', ~paused', dbErrs' = 0,
                      row'[k] = "pending", k \notin adding', pc'[i] = "idle",
                      ~trigger', ppc' # "resumed",
                      \A v \in Workers : pc'[v] \notin Searching \cup
                        {"wakeNext", "retrigger"}
               PROVE  FALSE
    BY DEF WorkConserving, Pending
  <1>0. ~ /\ Serving /\ ~shuttingDown /\ ~paused /\ dbErrs = 0
          /\ row[k] = "pending" /\ k \notin adding
          /\ pc[i] = "idle" /\ ~trigger /\ ppc # "resumed"
          /\ \A v \in Workers : pc[v] \notin Searching \cup {"wakeNext",
            "retrigger"}
    BY DEF WorkConserving, Pending
  <1> USE StoreAssumption, QueueAssumption DEF TypeOK, WorkerTypeOK,
        StoreTypeOK, Serving, SigGoto, Goto, Finish, Idle, OnlyWorker,
        OnlyStore, SetStatus, DbFails, ClaimJob, UpdateJobStatusFailed,
        BumpJobPriority, InsertJob, DeleteJobs, MarkProcessingAsFailed,
        AddJobReport, SetPausedRow, Searching
  <1>1. ASSUME NEW u \in Workers, Wake(u) PROVE FALSE
    BY <1>1, <1>0 DEF Wake
  <1>2. ASSUME NEW u \in Workers, WorkerStops(u) PROVE FALSE
    BY <1>2, <1>0 DEF WorkerStops
  <1>3. ASSUME NEW u \in Workers, CheckStop(u) PROVE FALSE
    BY <1>3, <1>0 DEF CheckStop
  <1>4. ASSUME NEW u \in Workers, CheckAllowed(u) PROVE FALSE
    BY <1>4, <1>0 DEF CheckAllowed
  <1>5. ASSUME NEW u \in Workers, LoadPending(u) PROVE FALSE
    BY <1>5, <1>0 DEF LoadPending, FirstPending, Pending
  <1>6. ASSUME NEW u \in Workers, Claim(u) PROVE FALSE
    BY <1>6, <1>0 DEF Claim
  <1>7. ASSUME NEW u \in Workers, WakeNext(u) PROVE FALSE
    BY <1>7, <1>0 DEF WakeNext
  <1>8. ASSUME NEW u \in Workers, Begin(u) PROVE FALSE
    BY <1>8, <1>0 DEF Begin, BeginJob
  <1>9. ASSUME NEW u \in Workers, Prepare(u) PROVE FALSE
    BY <1>9, <1>0 DEF Prepare, AddTemps
  <1>p. ASSUME NEW u \in Workers, Probe(u) PROVE FALSE
    BY <1>p, <1>0 DEF Probe
  <1>10. ASSUME NEW u \in Workers, CopyStarts(u) PROVE FALSE
    BY <1>10, <1>0 DEF CopyStarts
  <1>11. ASSUME NEW u \in Workers, CopyEnds(u) PROVE FALSE
    BY <1>11, <1>0 DEF CopyEnds
  <1>12. ASSUME NEW u \in Workers, CheckBeforeStart(u) PROVE FALSE
    BY <1>12, <1>0 DEF CheckBeforeStart
  <1>13. ASSUME NEW u \in Workers, StartFFmpeg(u) PROVE FALSE
    BY <1>13, <1>0 DEF StartFFmpeg
  <1>14. ASSUME NEW u \in Workers, SetCurrentCmd(u) PROVE FALSE
    BY <1>14, <1>0 DEF SetCurrentCmd
  <1>15. ASSUME NEW u \in Workers, CheckAfterStart(u) PROVE FALSE
    BY <1>15, <1>0 DEF CheckAfterStart
  <1>16. ASSUME NEW u \in Workers, FFmpegDone(u) PROVE FALSE
    BY <1>16, <1>0 DEF FFmpegDone
  <1>17. ASSUME NEW u \in Workers, FinishOutput(u) PROVE FALSE
    BY <1>17, <1>0 DEF FinishOutput
  <1>18. ASSUME NEW u \in Workers, ReportSuccess(u) PROVE FALSE
    BY <1>18, <1>0 DEF ReportSuccess
  <1>19. ASSUME NEW u \in Workers, CleanupTemps(u) PROVE FALSE
    BY <1>19, <1>0 DEF CleanupTemps
  <1>20. ASSUME NEW u \in Workers, Settle(u) PROVE FALSE
    BY <1>20, <1>0 DEF Settle, Outcome
  <1>21. ASSUME NEW u \in Workers, CheckInterrupted(u) PROVE FALSE
    BY <1>21, <1>0 DEF CheckInterrupted
  <1>22. ASSUME NEW u \in Workers, MarkFailed(u) PROVE FALSE
    BY <1>22, <1>0 DEF MarkFailed
  <1>23. ASSUME NEW u \in Workers, ReportFailed(u) PROVE FALSE
    BY <1>23, <1>0 DEF ReportFailed
  <1>24. ASSUME NEW u \in Workers, DeleteOwnJob(u) PROVE FALSE
    BY <1>24, <1>0 DEF DeleteOwnJob
  <1>25. ASSUME NEW u \in Workers, EndJob(u) PROVE FALSE
    BY <1>25, <1>0 DEF EndJob
  <1>26. ASSUME NEW u \in Workers, Retrigger(u) PROVE FALSE
    BY <1>26, <1>0 DEF Retrigger
  <1>27. ASSUME NEW s \in Signallers, CancelContext(s) PROVE FALSE
    BY <1>27, <1>0 DEF CancelContext
  <1>28. ASSUME NEW s \in Signallers, Interrupt(s) PROVE FALSE
    BY <1>28, <1>0 DEF Interrupt
  <1>29. ASSUME NEW s \in Signallers, Escalate(s) PROVE FALSE
    BY <1>29, <1>0 DEF Escalate
  <1>30. ASSUME NEW j \in Jobs, FFmpegExits(j) PROVE FALSE
    BY <1>30, <1>0 DEF FFmpegExits
  <1>31. ASSUME NEW j \in Jobs, EscalateKill(j) PROVE FALSE
    BY <1>31, <1>0 DEF EscalateKill, KillAll
  <1>32. ASSUME NEW j \in Jobs, TriggerAdded(j) PROVE FALSE
    BY <1>32, <1>0 DEF TriggerAdded
  <1>33. ASSUME NEW j \in Jobs, Bump(j) PROVE FALSE
    BY <1>33, <1>0 DEF Bump
  <1>34. ASSUME NEW j \in Jobs, StopSignals(j) PROVE FALSE
    BY <1>34, <1>0 DEF StopSignals
  <1>35. ASSUME NEW c \in Cancellers, CancelDelete(c) PROVE FALSE
    BY <1>35, <1>0 DEF CancelDelete
  <1>36. ASSUME NEW c \in Cancellers, NEW j \in Jobs, CancelLookup(c, j) PROVE
        FALSE
    BY <1>36, <1>0 DEF CancelLookup
  <1>37. ASSUME NEW j \in Jobs, NEW p \in {0, RequeuePriority}, AddJob(j, p)
        PROVE FALSE
    BY <1>37, <1>0 DEF AddJob
  <1>38. ASSUME NEW S \in SUBSET Jobs, PurgeFolder(S) PROVE FALSE
    BY <1>38, <1>0 DEF PurgeFolder
  <1>39. ASSUME NEW b \in BOOLEAN, PauseRow(b) PROVE FALSE
    BY <1>39, <1>0 DEF PauseRow
  <1>40. CASE PauseField
    BY <1>40, <1>0 DEF PauseField
  <1>41. CASE ResumeTrigger
    BY <1>41, <1>0 DEF ResumeTrigger
  <1>42. CASE ScheduleTrigger
    BY <1>42, <1>0 DEF ScheduleTrigger
  <1>43. CASE StopBegins
    BY <1>43, <1>0 DEF StopBegins
  <1>44. CASE StopCloses
    BY <1>44, <1>0 DEF StopCloses
  <1>45. CASE StopDrained
    BY <1>45, <1>0 DEF StopDrained
  <1>46. CASE StopTimesOut
    BY <1>46, <1>0 DEF StopTimesOut, KillAll
  <1>47. CASE StopGivesUp
    BY <1>47, <1>0 DEF StopGivesUp
  <1>48. CASE Crash
    BY <1>48, <1>0 DEF Crash, ProcessDies
  <1>49. CASE Exit
    BY <1>49, <1>0 DEF Exit, ProcessDies
  <1>50. CASE StartMarks
    BY <1>50, <1>0 DEF StartMarks
  <1>51. CASE StartWorkers
    BY <1>51, <1>0 DEF StartWorkers, OnlyStarts, LoadSchedule
  <1>52. CASE UNCHANGED <<row, dbErrs, adding, trigger, shuttingDown, paused,
        ppc, stage, pc>>
    BY <1>52, <1>0
  <1> HIDE DEF TypeOK, WorkerTypeOK, StoreTypeOK, SigGoto, Goto, Finish, Idle,
        SetStatus, DbFails, ClaimJob, UpdateJobStatusFailed, BumpJobPriority,
        InsertJob, DeleteJobs, MarkProcessingAsFailed, AddJobReport,
        SetPausedRow, Searching
  <1>53. QED BY <1>1, <1>2, <1>3, <1>4, <1>5, <1>6, <1>7, <1>8, <1>9, <1>p, <1>10,
        <1>11, <1>12, <1>13, <1>14, <1>15, <1>16, <1>17, <1>18, <1>19, <1>20,
        <1>21, <1>22, <1>23, <1>24, <1>25, <1>26, <1>27, <1>28, <1>29, <1>30,
        <1>31, <1>32, <1>33, <1>34, <1>35, <1>36, <1>37, <1>38, <1>39, <1>40,
        <1>41, <1>42, <1>43, <1>44, <1>45, <1>46, <1>47, <1>48, <1>49, <1>50,
        <1>51, <1>52, ZenonT(30)
        DEF WorkerStep, SignalStep, Environment, Progress, Stopping, Next, vars

THEOREM NoLostWakeup == Spec => []WorkConserving
  <1>1. Init => WorkConserving
    BY DEF Init, WorkConserving
  <1>2. TypeOK /\ WorkConserving /\ [Next]_vars => WorkConserving'
    BY WorkConservingStep
  <1>3. QED BY <1>1, <1>2, TypeCorrect, PTL DEF Spec

-----------------------------------------------------------------------------
(* What a run may rely on: nobody else touches its job's state. *)

(* The part of the state of job j that its owner and its signallers use. *)
SameRun(j) ==
    /\ (j \in active') <=> (j \in active)
    /\ cancelled'[j] = cancelled[j]
    /\ hasCmd'[j] = hasCmd[j]
    /\ tracked'[j] = tracked[j]
    /\ proc'[j] = proc[j]
    /\ termed'[j] = termed[j]
    /\ temps'[j] = temps[j]
    /\ published'[j] = published[j]
    /\ reports'[j] = reports[j]

LEMMA OnlyOwnerTouches ==
    ASSUME OwnerInv, NEW u \in Workers, WorkerStep(u), NEW k \in Jobs, ~Owns(u,
      k)
    PROVE  SameRun(k)
  <1> DEFINE Same == SameRun(k)
  <1> SUFFICES Same
    OBVIOUS
  <1>a. pc[u] \in Owning => job[u] \in Jobs /\ job[u] # k
    BY DEF OwnerInv, Owns, TypeOK, WorkerTypeOK
  <1> USE DEF OwnerInv, TypeOK, StoreTypeOK, SystemTypeOK, ManagerTypeOK,
        WorkerTypeOK, SameRun, Goto, Finish, Idle, OnlyWorker, SetStatus,
        DbFails, ClaimJob, UpdateJobStatusFailed, DeleteJobs, AddJobReport,
        Owning, Unregistered, Running, FFmpegRunning, Settling
  <1>1. CASE Wake(u)
    BY <1>1, <1>a DEF Wake
  <1>2. CASE WorkerStops(u)
    BY <1>2, <1>a DEF WorkerStops
  <1>3. CASE CheckStop(u)
    BY <1>3, <1>a DEF CheckStop
  <1>4. CASE CheckAllowed(u)
    BY <1>4, <1>a DEF CheckAllowed
  <1>5. CASE LoadPending(u)
    BY <1>5, <1>a DEF LoadPending, FirstPending, Pending
  <1>6. CASE Claim(u)
    BY <1>6, <1>a DEF Claim
  <1>7. CASE WakeNext(u)
    BY <1>7, <1>a DEF WakeNext
  <1>8. CASE Begin(u)
    BY <1>8, <1>a DEF Begin, BeginJob
  <1>9. CASE Prepare(u)
    BY <1>9, <1>a DEF Prepare, AddTemps
  <1>p. CASE Probe(u)
    BY <1>p, <1>a DEF Probe
  <1>10. CASE CopyStarts(u)
    BY <1>10, <1>a DEF CopyStarts
  <1>11. CASE CopyEnds(u)
    BY <1>11, <1>a DEF CopyEnds
  <1>12. CASE CheckBeforeStart(u)
    BY <1>12, <1>a DEF CheckBeforeStart
  <1>13. CASE StartFFmpeg(u)
    BY <1>13, <1>a DEF StartFFmpeg
  <1>14. CASE SetCurrentCmd(u)
    BY <1>14, <1>a DEF SetCurrentCmd
  <1>15. CASE CheckAfterStart(u)
    BY <1>15, <1>a DEF CheckAfterStart
  <1>16. CASE FFmpegDone(u)
    BY <1>16, <1>a DEF FFmpegDone
  <1>17. CASE FinishOutput(u)
    BY <1>17, <1>a DEF FinishOutput
  <1>18. CASE ReportSuccess(u)
    BY <1>18, <1>a DEF ReportSuccess
  <1>19. CASE CleanupTemps(u)
    BY <1>19, <1>a DEF CleanupTemps
  <1>20. CASE Settle(u)
    BY <1>20, <1>a DEF Settle, Outcome
  <1>21. CASE CheckInterrupted(u)
    BY <1>21, <1>a DEF CheckInterrupted
  <1>22. CASE MarkFailed(u)
    BY <1>22, <1>a DEF MarkFailed
  <1>23. CASE ReportFailed(u)
    BY <1>23, <1>a DEF ReportFailed
  <1>24. CASE DeleteOwnJob(u)
    BY <1>24, <1>a DEF DeleteOwnJob
  <1>25. CASE EndJob(u)
    BY <1>25, <1>a DEF EndJob
  <1>26. CASE Retrigger(u)
    BY <1>26, <1>a DEF Retrigger
  <1>27. QED BY <1>1, <1>2, <1>3, <1>4, <1>5, <1>6, <1>7, <1>8, <1>9, <1>p, <1>10,
        <1>11, <1>12, <1>13, <1>14, <1>15, <1>16, <1>17, <1>18, <1>19, <1>20,
        <1>21, <1>22, <1>23, <1>24, <1>25, <1>26 DEF WorkerStep

(* A step of worker u leaves the other workers and the signallers alone. *)
LEMMA OthersStayAway ==
    ASSUME TypeOK, NEW u \in Workers, WorkerStep(u), NEW w \in Workers, w # u
    PROVE  pc'[w] = pc[w] /\ job'[w] = job[w] /\ erred'[w] = erred[w]
  <1> DEFINE Aside == pc'[w] = pc[w] /\ job'[w] = job[w] /\ erred'[w] = erred[w]
  <1> SUFFICES Aside
    OBVIOUS
  <1> USE DEF TypeOK, WorkerTypeOK, Goto, Finish, Idle, OnlyWorker
  <1>1. CASE Wake(u)
    BY <1>1 DEF Wake
  <1>2. CASE WorkerStops(u)
    BY <1>2 DEF WorkerStops
  <1>3. CASE CheckStop(u)
    BY <1>3 DEF CheckStop
  <1>4. CASE CheckAllowed(u)
    BY <1>4 DEF CheckAllowed
  <1>5. CASE LoadPending(u)
    BY <1>5 DEF LoadPending, FirstPending, Pending
  <1>6. CASE Claim(u)
    BY <1>6 DEF Claim
  <1>7. CASE WakeNext(u)
    BY <1>7 DEF WakeNext
  <1>8. CASE Begin(u)
    BY <1>8 DEF Begin, BeginJob
  <1>9. CASE Prepare(u)
    BY <1>9 DEF Prepare, AddTemps
  <1>p. CASE Probe(u)
    BY <1>p DEF Probe
  <1>10. CASE CopyStarts(u)
    BY <1>10 DEF CopyStarts
  <1>11. CASE CopyEnds(u)
    BY <1>11 DEF CopyEnds
  <1>12. CASE CheckBeforeStart(u)
    BY <1>12 DEF CheckBeforeStart
  <1>13. CASE StartFFmpeg(u)
    BY <1>13 DEF StartFFmpeg
  <1>14. CASE SetCurrentCmd(u)
    BY <1>14 DEF SetCurrentCmd
  <1>15. CASE CheckAfterStart(u)
    BY <1>15 DEF CheckAfterStart
  <1>16. CASE FFmpegDone(u)
    BY <1>16 DEF FFmpegDone
  <1>17. CASE FinishOutput(u)
    BY <1>17 DEF FinishOutput
  <1>18. CASE ReportSuccess(u)
    BY <1>18 DEF ReportSuccess
  <1>19. CASE CleanupTemps(u)
    BY <1>19 DEF CleanupTemps
  <1>20. CASE Settle(u)
    BY <1>20 DEF Settle, Outcome
  <1>21. CASE CheckInterrupted(u)
    BY <1>21 DEF CheckInterrupted
  <1>22. CASE MarkFailed(u)
    BY <1>22 DEF MarkFailed
  <1>23. CASE ReportFailed(u)
    BY <1>23 DEF ReportFailed
  <1>24. CASE DeleteOwnJob(u)
    BY <1>24 DEF DeleteOwnJob
  <1>25. CASE EndJob(u)
    BY <1>25 DEF EndJob
  <1>26. CASE Retrigger(u)
    BY <1>26 DEF Retrigger
  <1>27. QED BY <1>1, <1>2, <1>3, <1>4, <1>5, <1>6, <1>7, <1>8, <1>9, <1>p, <1>10,
        <1>11, <1>12, <1>13, <1>14, <1>15, <1>16, <1>17, <1>18, <1>19, <1>20,
        <1>21, <1>22, <1>23, <1>24, <1>25, <1>26 DEF WorkerStep

LEMMA WorkersKeep ==
    ASSUME TypeOK, NEW u \in Workers, WorkerStep(u)
    PROVE  /\ UNCHANGED <<sigAt, sigJob, shuttingDown, stage>>
           /\ (dbErrs' = 0 => dbErrs = 0)
  <1> DEFINE Kept == /\ UNCHANGED <<sigAt, sigJob, shuttingDown, stage>>
                     /\ (dbErrs' = 0 => dbErrs = 0)
  <1> SUFFICES Kept
    OBVIOUS
  <1> USE DEF TypeOK, StoreTypeOK, Goto, Finish, Idle, OnlyWorker, SetStatus,
        DbFails, ClaimJob, UpdateJobStatusFailed, DeleteJobs, AddJobReport, Goto
  <1>1. CASE Wake(u)
    BY <1>1 DEF Wake
  <1>2. CASE WorkerStops(u)
    BY <1>2 DEF WorkerStops
  <1>3. CASE CheckStop(u)
    BY <1>3 DEF CheckStop
  <1>4. CASE CheckAllowed(u)
    BY <1>4 DEF CheckAllowed
  <1>5. CASE LoadPending(u)
    BY <1>5 DEF LoadPending, FirstPending, Pending
  <1>6. CASE Claim(u)
    BY <1>6 DEF Claim
  <1>7. CASE WakeNext(u)
    BY <1>7 DEF WakeNext
  <1>8. CASE Begin(u)
    BY <1>8 DEF Begin, BeginJob
  <1>9. CASE Prepare(u)
    BY <1>9 DEF Prepare, AddTemps
  <1>p. CASE Probe(u)
    BY <1>p DEF Probe
  <1>10. CASE CopyStarts(u)
    BY <1>10 DEF CopyStarts
  <1>11. CASE CopyEnds(u)
    BY <1>11 DEF CopyEnds
  <1>12. CASE CheckBeforeStart(u)
    BY <1>12 DEF CheckBeforeStart
  <1>13. CASE StartFFmpeg(u)
    BY <1>13 DEF StartFFmpeg
  <1>14. CASE SetCurrentCmd(u)
    BY <1>14 DEF SetCurrentCmd
  <1>15. CASE CheckAfterStart(u)
    BY <1>15 DEF CheckAfterStart
  <1>16. CASE FFmpegDone(u)
    BY <1>16 DEF FFmpegDone
  <1>17. CASE FinishOutput(u)
    BY <1>17 DEF FinishOutput
  <1>18. CASE ReportSuccess(u)
    BY <1>18 DEF ReportSuccess
  <1>19. CASE CleanupTemps(u)
    BY <1>19 DEF CleanupTemps
  <1>20. CASE Settle(u)
    BY <1>20 DEF Settle, Outcome
  <1>21. CASE CheckInterrupted(u)
    BY <1>21 DEF CheckInterrupted
  <1>22. CASE MarkFailed(u)
    BY <1>22 DEF MarkFailed
  <1>23. CASE ReportFailed(u)
    BY <1>23 DEF ReportFailed
  <1>24. CASE DeleteOwnJob(u)
    BY <1>24 DEF DeleteOwnJob
  <1>25. CASE EndJob(u)
    BY <1>25 DEF EndJob
  <1>26. CASE Retrigger(u)
    BY <1>26 DEF Retrigger
  <1>27. QED BY <1>1, <1>2, <1>3, <1>4, <1>5, <1>6, <1>7, <1>8, <1>9, <1>p, <1>10,
        <1>11, <1>12, <1>13, <1>14, <1>15, <1>16, <1>17, <1>18, <1>19, <1>20,
        <1>21, <1>22, <1>23, <1>24, <1>25, <1>26 DEF WorkerStep

-----------------------------------------------------------------------------
(* The registry, the command handshake and the temp files.                 *)

(* What holds for the run of worker w and its job j. *)
RunOK(w, j) ==
    /\ j \in active => pc[w] \notin Unregistered
    /\ j \notin active =>
          \/ pc[w] \in Unregistered
          \/ cancelled[j] /\ pc[w] \in {"prepare", "return"} \cup Settling
    /\ pc[w] \notin FFmpegRunning => proc[j] = "none"
    /\ pc[w] \in FFmpegRunning \ {"setCmd"} => hasCmd[j]
    /\ pc[w] \in {"probe", "copy"} => tracked[j]
    /\ temps[j] = "live" =>
          pc[w] \in Running \ {"prepare", "probe", "copy"} /\ tracked[j] /\ j \in active
    /\ pc[w] = "wait" /\ cancelled[j] /\ proc[j] = "running" =>
          termed[j] \/ \E s \in Signallers : sigAt[s] = "interrupt" /\ sigJob[s]
            = j

RunsOK == \A w \in Workers : pc[w] \in Owning => RunOK(w, job[w])

(* What holds for a job: it is fresh until it is claimed, and only a run   *)
(* in progress is registered or has live temp files.                       *)
JobOK(j) ==
    /\ ~Taken(j) => proc[j] = "none" /\ temps[j] = "none"
    /\ j \in active \/ temps[j] = "live" => \E w \in Workers : Owns(w, j)

JobsOK == \A j \in Jobs : JobOK(j)

(* While the process is down nobody works. *)
DownOK == ~Serving => \A w \in Workers : pc[w] = "down"

RunInv == OwnerInv /\ RunsOK /\ JobsOK /\ DownOK

(* The worker's own steps. *)
LEMMA OwnRunStep ==
    ASSUME RunInv, NEW w \in Workers, WorkerStep(w)
    PROVE  /\ pc'[w] \in Owning => RunOK(w, job[w])'
           /\ pc[w] \in Owning /\ pc'[w] \notin Owning =>
                 job[w] \notin active' /\ temps'[job[w]] # "live"
  <1> DEFINE Good == /\ pc'[w] \in Owning => RunOK(w, job[w])'
                     /\ pc[w] \in Owning /\ pc'[w] \notin Owning =>
                           job[w] \notin active' /\ temps'[job[w]] # "live"
  <1> SUFFICES Good
    OBVIOUS
  <1>a. /\ pc[w] \in Owning => RunOK(w, job[w])
        /\ pc[w] \in Owning \cup {"claim"} => job[w] \in Jobs
        /\ pc[w] = "claim" /\ row[job[w]] = "pending" =>
              /\ proc[job[w]] = "none" /\ temps[job[w]] = "none"
              /\ job[w] \notin active
    <2>1. pc[w] \in Owning \cup {"claim"} => job[w] \in Jobs
      BY DEF RunInv, OwnerInv, TypeOK, WorkerTypeOK
    <2>2. ASSUME pc[w] = "claim", row[job[w]] = "pending"
          PROVE  /\ proc[job[w]] = "none" /\ temps[job[w]] = "none"
                 /\ job[w] \notin active
      <3>1. ~Taken(job[w])
        BY <2>2 DEF Taken
      <3>2. \A v \in Workers : ~Owns(v, job[w])
        BY <3>1 DEF RunInv, OwnerInv, OwnedTaken, Owns
      <3>3. QED BY <2>1, <2>2, <3>1, <3>2 DEF RunInv, JobsOK, JobOK
    <2>3. QED BY <2>1, <2>2 DEF RunInv, RunsOK
  <1> USE DEF RunInv, RunOK, OwnerInv, TypeOK, StoreTypeOK, SystemTypeOK,
        ManagerTypeOK, WorkerTypeOK, Goto, Finish, Idle, OnlyWorker, SetStatus,
        DbFails, ClaimJob, UpdateJobStatusFailed, DeleteJobs, AddJobReport,
        Owning, Unregistered, Running, FFmpegRunning, Settling
  <1>1. CASE Wake(w)
    BY <1>1, <1>a DEF Wake
  <1>2. CASE WorkerStops(w)
    BY <1>2, <1>a DEF WorkerStops
  <1>3. CASE CheckStop(w)
    BY <1>3, <1>a DEF CheckStop
  <1>4. CASE CheckAllowed(w)
    BY <1>4, <1>a DEF CheckAllowed
  <1>5. CASE LoadPending(w)
    BY <1>5, <1>a DEF LoadPending, FirstPending, Pending
  <1>6. CASE Claim(w)
    BY <1>6, <1>a DEF Claim
  <1>7. CASE WakeNext(w)
    BY <1>7, <1>a DEF WakeNext
  <1>8. CASE Begin(w)
    BY <1>8, <1>a DEF Begin, BeginJob
  <1>9. CASE Prepare(w)
    <2>1. /\ UNCHANGED <<active, cancelled, hasCmd, temps, proc, termed>>
          /\ job'[w] = job[w]
          /\ pc'[w] \in {"return", "probe"}
      BY <1>9, <1>a DEF Prepare
    <2>2. ASSUME pc'[w] = "probe" PROVE tracked'[job[w]]
      <3>1. AddTemps(job[w]) /\ ~cancelled[job[w]]
        BY <1>9, <1>a, <2>2 DEF Prepare
      <3>2. job[w] \in active
        BY <1>9, <1>a, <3>1 DEF Prepare
      <3>3. QED BY <1>9, <1>a, <3>1, <3>2 DEF Prepare, AddTemps
    <2>3. QED BY <1>9, <1>a, <2>1, <2>2 DEF Prepare
  <1>p. CASE Probe(w)
    BY <1>p, <1>a DEF Probe
  <1>10. CASE CopyStarts(w)
    BY <1>10, <1>a DEF CopyStarts
  <1>11. CASE CopyEnds(w)
    BY <1>11, <1>a DEF CopyEnds
  <1>12. CASE CheckBeforeStart(w)
    BY <1>12, <1>a DEF CheckBeforeStart
  <1>13. CASE StartFFmpeg(w)
    BY <1>13, <1>a DEF StartFFmpeg
  <1>14. CASE SetCurrentCmd(w)
    <2>1. /\ pc[w] = "setCmd" /\ pc'[w] = "checkCmd" /\ job'[w] = job[w]
          /\ UNCHANGED <<active, cancelled, tracked, temps, proc, termed>>
      BY <1>14, <1>a DEF SetCurrentCmd
    <2>2. job[w] \in active
      BY <2>1, <1>a
    <2>3. hasCmd'[job[w]]
      BY <1>14, <2>1, <2>2, <1>a DEF SetCurrentCmd
    <2>4. QED BY <2>1, <2>2, <2>3, <1>a
  <1>15. CASE CheckAfterStart(w)
    BY <1>15, <1>a DEF CheckAfterStart
  <1>16. CASE FFmpegDone(w)
    BY <1>16, <1>a DEF FFmpegDone
  <1>17. CASE FinishOutput(w)
    BY <1>17, <1>a DEF FinishOutput
  <1>18. CASE ReportSuccess(w)
    BY <1>18, <1>a DEF ReportSuccess
  <1>19. CASE CleanupTemps(w)
    BY <1>19, <1>a DEF CleanupTemps
  <1>20. CASE Settle(w)
    BY <1>20, <1>a DEF Settle, Outcome
  <1>21. CASE CheckInterrupted(w)
    BY <1>21, <1>a DEF CheckInterrupted
  <1>22. CASE MarkFailed(w)
    BY <1>22, <1>a DEF MarkFailed
  <1>23. CASE ReportFailed(w)
    BY <1>23, <1>a DEF ReportFailed
  <1>24. CASE DeleteOwnJob(w)
    BY <1>24, <1>a DEF DeleteOwnJob
  <1>25. CASE EndJob(w)
    BY <1>25, <1>a DEF EndJob
  <1>26. CASE Retrigger(w)
    BY <1>26, <1>a DEF Retrigger
  <1>27. QED BY <1>1, <1>2, <1>3, <1>4, <1>5, <1>6, <1>7, <1>8, <1>9, <1>p, <1>10,
        <1>11, <1>12, <1>13, <1>14, <1>15, <1>16, <1>17, <1>18, <1>19, <1>20,
        <1>21, <1>22, <1>23, <1>24, <1>25, <1>26 DEF WorkerStep

LEMMA RunsStep ==
    ASSUME RunInv, [Next]_vars
    PROVE  RunsOK'
  <1> SUFFICES ASSUME NEW w \in Workers, pc'[w] \in Owning
               PROVE  RunOK(w, job[w])'
    BY DEF RunsOK
  <1>w. ASSUME NEW u \in Workers, WorkerStep(u)
        PROVE  RunOK(w, job[w])'
    <2>1. CASE u = w
      BY <1>w, <2>1, OwnRunStep
    <2>2. CASE u # w
      <3>1. /\ UNCHANGED <<sigAt, sigJob>>
            /\ pc'[w] = pc[w] /\ job'[w] = job[w]
        BY <1>w, <2>2, OthersStayAway, WorkersKeep DEF RunInv, OwnerInv
      <3>2. job[w] \in Jobs /\ pc[w] \in Owning /\ RunOK(w, job[w])
        BY <3>1 DEF RunInv, OwnerInv, TypeOK, WorkerTypeOK, RunsOK
      <3>3. ~Owns(u, job[w])
        BY <2>2, <3>2 DEF RunInv, OwnerInv, OwnerExclusive, Owns
      <3>4. SameRun(job[w])
        BY <1>w, <3>2, <3>3, OnlyOwnerTouches DEF RunInv
      <3>5. QED BY <3>1, <3>2, <3>4 DEF RunOK, SameRun
    <2>3. QED BY <2>1, <2>2
  <1>a. pc[w] \in Owning \cup {"claim"} => job[w] \in Jobs
    BY DEF RunInv, OwnerInv, TypeOK, WorkerTypeOK
  <1>b. pc[w] \in Owning => RunOK(w, job[w])
    BY DEF RunInv, RunsOK
  <1> USE DEF RunInv, RunOK, OwnerInv, TypeOK, StoreTypeOK, SystemTypeOK,
        ManagerTypeOK, WorkerTypeOK, Signallers, SigGoto, OnlyStore, Owning,
        Unregistered, Running, FFmpegRunning, Settling
  <1>1. ASSUME NEW s \in Signallers, CancelContext(s) PROVE RunOK(w, job[w])'
    <2> DEFINE j == job[w]
    <2>1. j \in Jobs /\ pc[w] \in Owning /\ RunOK(w, j) /\ sigAt[s] = "cancel"
      BY <1>1, <1>a, <1>b DEF CancelContext
    <2>2. UNCHANGED <<active, hasCmd, tracked, temps, proc, termed, pc, job>>
      BY <1>1 DEF CancelContext
    <2>3. /\ cancelled[j] => cancelled'[j]
          /\ cancelled'[j] => cancelled[j] \/ sigJob[s] = j
      BY <1>1, <2>1 DEF CancelContext
    <2>4. /\ sigAt'[s] = "interrupt" /\ sigJob'[s] = sigJob[s]
          /\ \A t \in Signallers : t # s => sigAt'[t] = sigAt[t] /\ sigJob'[t] =
            sigJob[t]
      BY <1>1 DEF CancelContext, RequestTypeOK
    <2> HIDE DEF j
    <2>5. pc[w] = "wait" /\ cancelled'[j] /\ proc[j] = "running" =>
            termed[j] \/ \E t \in Signallers : sigAt'[t] = "interrupt" /\
              sigJob'[t] = j
      BY <2>1, <2>3, <2>4
    <2>6. RunOK(w, j)'
      BY <2>1, <2>2, <2>3, <2>5 DEF j
    <2>7. QED BY <2>2, <2>6 DEF j
  <1>2. ASSUME NEW s \in Signallers, Interrupt(s) PROVE RunOK(w, job[w])'
    BY <1>2, <1>a, <1>b DEF Interrupt
  <1>3. ASSUME NEW s \in Signallers, Escalate(s) PROVE RunOK(w, job[w])'
    BY <1>3, <1>a, <1>b DEF Escalate
  <1>4. ASSUME NEW j \in Jobs, FFmpegExits(j) PROVE RunOK(w, job[w])'
    BY <1>4, <1>a, <1>b DEF FFmpegExits
  <1>5. ASSUME NEW j \in Jobs, EscalateKill(j) PROVE RunOK(w, job[w])'
    BY <1>5, <1>a, <1>b DEF EscalateKill, KillAll
  <1>6. ASSUME NEW j \in Jobs, TriggerAdded(j) PROVE RunOK(w, job[w])'
    BY <1>6, <1>a, <1>b DEF TriggerAdded
  <1>7. ASSUME NEW j \in Jobs, Bump(j) PROVE RunOK(w, job[w])'
    BY <1>7, <1>a, <1>b DEF Bump
  <1>8. ASSUME NEW j \in Jobs, StopSignals(j) PROVE RunOK(w, job[w])'
    BY <1>8, <1>a, <1>b DEF StopSignals
  <1>9. ASSUME NEW c \in Cancellers, CancelDelete(c) PROVE RunOK(w, job[w])'
    BY <1>9, <1>a, <1>b DEF CancelDelete
  <1>10. ASSUME NEW c \in Cancellers, NEW j \in Jobs, CancelLookup(c, j) PROVE
        RunOK(w, job[w])'
    BY <1>10, <1>a, <1>b DEF CancelLookup
  <1>11. ASSUME NEW j \in Jobs, NEW p \in {0, RequeuePriority}, AddJob(j, p)
        PROVE RunOK(w, job[w])'
    BY <1>11, <1>a, <1>b DEF AddJob
  <1>12. ASSUME NEW S \in SUBSET Jobs, PurgeFolder(S) PROVE RunOK(w, job[w])'
    BY <1>12, <1>a, <1>b DEF PurgeFolder
  <1>13. ASSUME NEW b \in BOOLEAN, PauseRow(b) PROVE RunOK(w, job[w])'
    BY <1>13, <1>a, <1>b DEF PauseRow
  <1>14. CASE PauseField
    BY <1>14, <1>a, <1>b DEF PauseField
  <1>15. CASE ResumeTrigger
    BY <1>15, <1>a, <1>b DEF ResumeTrigger
  <1>16. CASE ScheduleTrigger
    BY <1>16, <1>a, <1>b DEF ScheduleTrigger
  <1>17. CASE StopBegins
    BY <1>17, <1>a, <1>b DEF StopBegins
  <1>18. CASE StopCloses
    BY <1>18, <1>a, <1>b DEF StopCloses
  <1>19. CASE StopDrained
    BY <1>19, <1>a, <1>b DEF StopDrained
  <1>20. CASE StopTimesOut
    BY <1>20, <1>a, <1>b DEF StopTimesOut, KillAll
  <1>21. CASE StopGivesUp
    BY <1>21, <1>a, <1>b DEF StopGivesUp
  <1>22. CASE Crash
    BY <1>22, <1>a, <1>b DEF Crash, ProcessDies
  <1>23. CASE Exit
    BY <1>23, <1>a, <1>b DEF Exit, ProcessDies
  <1>24. CASE StartMarks
    BY <1>24, <1>a, <1>b DEF StartMarks
  <1>25. CASE StartWorkers
    BY <1>25, <1>a, <1>b DEF StartWorkers, OnlyStarts, LoadSchedule
  <1>26. CASE UNCHANGED vars
    BY <1>26, <1>a, <1>b DEF vars
  <1>27. QED BY <1>w, <1>1, <1>2, <1>3, <1>4, <1>5, <1>6, <1>7, <1>8, <1>9,
        <1>10, <1>11, <1>12, <1>13, <1>14, <1>15, <1>16, <1>17, <1>18, <1>19,
        <1>20, <1>21, <1>22, <1>23, <1>24, <1>25, <1>26
        DEF SignalStep, Environment, Progress, Stopping, Next

LEMMA JobsStep ==
    ASSUME RunInv, [Next]_vars
    PROVE  JobsOK'
  <1> SUFFICES ASSUME NEW k \in Jobs
               PROVE  JobOK(k)'
    BY DEF JobsOK
  <1>a. JobOK(k) /\ (Taken(k) => Taken(k)')
    BY TakenForGood DEF RunInv, OwnerInv, JobsOK
  <1>b. \A w \in Workers : Owns(w, k) => Taken(k)
    BY DEF RunInv, OwnerInv, OwnedTaken, Owns
  <1>w. ASSUME NEW u \in Workers, WorkerStep(u)
        PROVE  JobOK(k)'
    <2>1. CASE Owns(u, k)
      <3>1. Taken(k)'
        BY <2>1, <1>a, <1>b
      <3>2. CASE pc'[u] \in Owning
        BY <2>1, <3>1, <3>2, OwnerMoves DEF JobOK, Owns, RunInv, OwnerInv
      <3>3. CASE pc'[u] \notin Owning
        BY <1>w, <2>1, <3>1, <3>3, OwnRunStep DEF JobOK, Owns
      <3>4. QED BY <3>2, <3>3
    <2>2. CASE ~Owns(u, k)
      <3>1. SameRun(k)
        BY <1>w, <2>2, OnlyOwnerTouches DEF RunInv
      <3>2. ASSUME NEW w \in Workers, Owns(w, k)
            PROVE  Owns(w, k)'
        <4>1. pc'[w] = pc[w] /\ job'[w] = job[w]
          BY <1>w, <2>2, <3>2, OthersStayAway DEF RunInv, OwnerInv
        <4>2. QED BY <3>2, <4>1 DEF Owns
      <3>3. QED BY <1>a, <3>1, <3>2 DEF JobOK, SameRun
    <2>3. QED BY <2>1, <2>2
  <1> USE DEF RunInv, JobOK, Owns, OwnerInv, TypeOK, StoreTypeOK, SystemTypeOK,
        ManagerTypeOK, WorkerTypeOK, Signallers, SigGoto, OnlyStore, Owning,
        Unregistered, Running, FFmpegRunning, Settling
  <1>1. ASSUME NEW s \in Signallers, CancelContext(s) PROVE JobOK(k)'
    BY <1>1, <1>a, <1>b DEF CancelContext
  <1>2. ASSUME NEW s \in Signallers, Interrupt(s) PROVE JobOK(k)'
    BY <1>2, <1>a, <1>b DEF Interrupt
  <1>3. ASSUME NEW s \in Signallers, Escalate(s) PROVE JobOK(k)'
    BY <1>3, <1>a, <1>b DEF Escalate
  <1>4. ASSUME NEW j \in Jobs, FFmpegExits(j) PROVE JobOK(k)'
    BY <1>4, <1>a, <1>b DEF FFmpegExits
  <1>5. ASSUME NEW j \in Jobs, EscalateKill(j) PROVE JobOK(k)'
    BY <1>5, <1>a, <1>b DEF EscalateKill, KillAll
  <1>6. ASSUME NEW j \in Jobs, TriggerAdded(j) PROVE JobOK(k)'
    BY <1>6, <1>a, <1>b DEF TriggerAdded
  <1>7. ASSUME NEW j \in Jobs, Bump(j) PROVE JobOK(k)'
    BY <1>7, <1>a, <1>b DEF Bump
  <1>8. ASSUME NEW j \in Jobs, StopSignals(j) PROVE JobOK(k)'
    BY <1>8, <1>a, <1>b DEF StopSignals
  <1>9. ASSUME NEW c \in Cancellers, CancelDelete(c) PROVE JobOK(k)'
    BY <1>9, <1>a, <1>b DEF CancelDelete
  <1>10. ASSUME NEW c \in Cancellers, NEW j \in Jobs, CancelLookup(c, j) PROVE
        JobOK(k)'
    BY <1>10, <1>a, <1>b DEF CancelLookup
  <1>11. ASSUME NEW j \in Jobs, NEW p \in {0, RequeuePriority}, AddJob(j, p)
        PROVE JobOK(k)'
    BY <1>11, <1>a, <1>b DEF AddJob
  <1>12. ASSUME NEW S \in SUBSET Jobs, PurgeFolder(S) PROVE JobOK(k)'
    BY <1>12, <1>a, <1>b DEF PurgeFolder
  <1>13. ASSUME NEW b \in BOOLEAN, PauseRow(b) PROVE JobOK(k)'
    BY <1>13, <1>a, <1>b DEF PauseRow
  <1>14. CASE PauseField
    BY <1>14, <1>a, <1>b DEF PauseField
  <1>15. CASE ResumeTrigger
    BY <1>15, <1>a, <1>b DEF ResumeTrigger
  <1>16. CASE ScheduleTrigger
    BY <1>16, <1>a, <1>b DEF ScheduleTrigger
  <1>17. CASE StopBegins
    BY <1>17, <1>a, <1>b DEF StopBegins
  <1>18. CASE StopCloses
    BY <1>18, <1>a, <1>b DEF StopCloses
  <1>19. CASE StopDrained
    BY <1>19, <1>a, <1>b DEF StopDrained
  <1>20. CASE StopTimesOut
    BY <1>20, <1>a, <1>b DEF StopTimesOut, KillAll
  <1>21. CASE StopGivesUp
    BY <1>21, <1>a, <1>b DEF StopGivesUp
  <1>22. CASE Crash
    BY <1>22, <1>a, <1>b DEF Crash, ProcessDies
  <1>23. CASE Exit
    BY <1>23, <1>a, <1>b DEF Exit, ProcessDies
  <1>24. CASE StartMarks
    BY <1>24, <1>a, <1>b DEF StartMarks
  <1>25. CASE StartWorkers
    <2>1. stage = "marked" /\ UNCHANGED <<row, active, temps, proc>>
      BY <1>25 DEF StartWorkers, OnlyStarts, LoadSchedule, DbFails
    <2>2. \A w \in Workers : ~Owns(w, k)
      BY <2>1 DEF DownOK, Serving
    <2>3. k \notin active /\ temps[k] # "live"
      BY <2>2, <1>a
    <2>4. QED BY <2>1, <2>3, <1>a
  <1>26. CASE UNCHANGED vars
    BY <1>26, <1>a, <1>b DEF vars
  <1>27. QED BY <1>w, <1>1, <1>2, <1>3, <1>4, <1>5, <1>6, <1>7, <1>8, <1>9,
        <1>10, <1>11, <1>12, <1>13, <1>14, <1>15, <1>16, <1>17, <1>18, <1>19,
        <1>20, <1>21, <1>22, <1>23, <1>24, <1>25, <1>26
        DEF SignalStep, Environment, Progress, Stopping, Next

LEMMA DownStep ==
    ASSUME RunInv, [Next]_vars
    PROVE  DownOK'
  <1>w. ASSUME NEW u \in Workers, WorkerStep(u)
        PROVE  DownOK'
    <2>1. stage' = stage
      BY <1>w, WorkersKeep DEF RunInv, OwnerInv
    <2>2. pc[u] # "down"
      BY <1>w DEF WorkerStep, Wake, WorkerStops, CheckStop, CheckAllowed,
        LoadPending, Claim, WakeNext, Begin, Prepare, Probe, CopyStarts, CopyEnds,
        CheckBeforeStart, StartFFmpeg, SetCurrentCmd, CheckAfterStart,
        FFmpegDone, FinishOutput, ReportSuccess, CleanupTemps, Settle,
        CheckInterrupted, MarkFailed, ReportFailed, DeleteOwnJob, EndJob,
        Retrigger
    <2>3. QED BY <2>1, <2>2 DEF RunInv, DownOK, Serving
  <1> USE DEF RunInv, DownOK, Serving, OwnerInv, TypeOK, StoreTypeOK,
        SystemTypeOK, ManagerTypeOK, WorkerTypeOK, SigGoto, OnlyStore
  <1>1. ASSUME NEW s \in Signallers, CancelContext(s) PROVE DownOK'
    BY <1>1 DEF CancelContext
  <1>2. ASSUME NEW s \in Signallers, Interrupt(s) PROVE DownOK'
    BY <1>2 DEF Interrupt
  <1>3. ASSUME NEW s \in Signallers, Escalate(s) PROVE DownOK'
    BY <1>3 DEF Escalate
  <1>4. ASSUME NEW j \in Jobs, FFmpegExits(j) PROVE DownOK'
    BY <1>4 DEF FFmpegExits
  <1>5. ASSUME NEW j \in Jobs, EscalateKill(j) PROVE DownOK'
    BY <1>5 DEF EscalateKill, KillAll
  <1>6. ASSUME NEW j \in Jobs, TriggerAdded(j) PROVE DownOK'
    BY <1>6 DEF TriggerAdded
  <1>7. ASSUME NEW j \in Jobs, Bump(j) PROVE DownOK'
    BY <1>7 DEF Bump
  <1>8. ASSUME NEW j \in Jobs, StopSignals(j) PROVE DownOK'
    BY <1>8 DEF StopSignals
  <1>9. ASSUME NEW c \in Cancellers, CancelDelete(c) PROVE DownOK'
    BY <1>9 DEF CancelDelete
  <1>10. ASSUME NEW c \in Cancellers, NEW j \in Jobs, CancelLookup(c, j) PROVE
        DownOK'
    BY <1>10 DEF CancelLookup
  <1>11. ASSUME NEW j \in Jobs, NEW p \in {0, RequeuePriority}, AddJob(j, p)
        PROVE DownOK'
    BY <1>11 DEF AddJob
  <1>12. ASSUME NEW S \in SUBSET Jobs, PurgeFolder(S) PROVE DownOK'
    BY <1>12 DEF PurgeFolder
  <1>13. ASSUME NEW b \in BOOLEAN, PauseRow(b) PROVE DownOK'
    BY <1>13 DEF PauseRow
  <1>14. CASE PauseField
    BY <1>14 DEF PauseField
  <1>15. CASE ResumeTrigger
    BY <1>15 DEF ResumeTrigger
  <1>16. CASE ScheduleTrigger
    BY <1>16 DEF ScheduleTrigger
  <1>17. CASE StopBegins
    BY <1>17 DEF StopBegins
  <1>18. CASE StopCloses
    BY <1>18 DEF StopCloses
  <1>19. CASE StopDrained
    BY <1>19 DEF StopDrained
  <1>20. CASE StopTimesOut
    BY <1>20 DEF StopTimesOut, KillAll
  <1>21. CASE StopGivesUp
    BY <1>21 DEF StopGivesUp
  <1>22. CASE Crash
    BY <1>22 DEF Crash, ProcessDies
  <1>23. CASE Exit
    BY <1>23 DEF Exit, ProcessDies
  <1>24. CASE StartMarks
    BY <1>24 DEF StartMarks
  <1>25. CASE StartWorkers
    BY <1>25 DEF StartWorkers, OnlyStarts, LoadSchedule
  <1>26. CASE UNCHANGED vars
    BY <1>26 DEF vars
  <1>27. QED BY <1>w, <1>1, <1>2, <1>3, <1>4, <1>5, <1>6, <1>7, <1>8, <1>9,
        <1>10, <1>11, <1>12, <1>13, <1>14, <1>15, <1>16, <1>17, <1>18, <1>19,
        <1>20, <1>21, <1>22, <1>23, <1>24, <1>25, <1>26
        DEF SignalStep, Environment, Progress, Stopping, Next

LEMMA RunInvariant == Spec => []RunInv
  <1>1. Init => RunsOK /\ JobsOK /\ DownOK
    BY DEF Init, DownOK, Serving, RunsOK, JobsOK, JobOK, Owning, Unregistered,
      Running, FFmpegRunning,
       Settling, Taken
  <1>2. RunInv /\ [Next]_vars => RunsOK' /\ JobsOK' /\ DownOK'
    BY RunsStep, JobsStep, DownStep
  <1>3. QED BY <1>1, <1>2, OwnerInvariant, PTL DEF Spec, RunInv

(* The registry of runs is exact: Cancel finds every run it can still      *)
(* interrupt, and one that is not in it was cancelled before it began.     *)
THEOREM RegistryExact == Spec => []RegistryMatchesRuns
  <1>1. RunInv => RegistryMatchesRuns
    <2> SUFFICES ASSUME RunInv PROVE RegistryMatchesRuns
      OBVIOUS
    <2>1. ASSUME NEW j \in active
          PROVE  \E w \in Workers : Owns(w, j) /\ pc[w] \notin Unregistered
      <3>1. j \in Jobs
        BY DEF RunInv, OwnerInv, TypeOK, ManagerTypeOK
      <3>2. PICK w \in Workers : Owns(w, j)
        BY <3>1 DEF RunInv, JobsOK, JobOK
      <3>3. QED BY <3>2 DEF RunInv, RunsOK, RunOK, Owns
    <2>2. ASSUME NEW w \in Workers, NEW j \in Jobs, Owns(w, j),
                 pc[w] \notin Unregistered, j \notin active
          PROVE  cancelled[j] /\ proc[j] = "none"
      <3>1. RunOK(w, j)
        BY <2>2 DEF RunInv, RunsOK, Owns
      <3>2. QED BY <2>2, <3>1 DEF RunOK, Settling, FFmpegRunning
    <2>3. QED BY <2>1, <2>2 DEF RegistryMatchesRuns
  <1>2. QED BY <1>1, RunInvariant, PTL

(* No interrupt is lost between Cancel, Stop and the worker, whatever the  *)
(* order in which they reach the context and the command.                  *)
THEOREM HandshakeWorks == Spec => []NoMissedInterrupt
  <1>1. RunInv => NoMissedInterrupt
    BY DEF RunInv, RunsOK, RunOK, NoMissedInterrupt, Owns
  <1>2. QED BY <1>1, RunInvariant, PTL

(* A run leaves no temp file behind, whichever way it ends. *)
THEOREM TempsRemoved == Spec => []NoTempLeft
  <1>1. RunInv => NoTempLeft
    <2> SUFFICES ASSUME RunInv, NEW j \in Jobs, temps[j] = "live"
                 PROVE  \E w \in Workers : Owns(w, j) /\ pc[w] \in Running
      BY DEF NoTempLeft
    <2>1. PICK w \in Workers : Owns(w, j)
      BY DEF RunInv, JobsOK, JobOK
    <2>2. QED BY <2>1 DEF RunInv, RunsOK, RunOK, Owns
  <1>2. QED BY <1>1, RunInvariant, PTL

-----------------------------------------------------------------------------
(* The history of a job.                                                   *)

BeforeVerdict == Unregistered \cup FFmpegRunning
                   \cup {"prepare", "probe", "copy", "copying", "check", "start",
                     "finish"}

(* What job_reports holds at each point of the run of worker w. *)
LedgerOK(w, j) ==
    /\ pc[w] \in BeforeVerdict => reports[j] = {} /\ ~published[j]
    /\ pc[w] = "report" => reports[j] = {} /\ published[j]
    /\ pc[w] \in {"return", "settle"} => (erred[w] <=> reports[j] = {})
    /\ pc[w] \in {"failed", "reportFailed"} => reports[j] = {}
    /\ pc[w] = "reportInterrupted" => shuttingDown
    /\ pc[w] \in {"interrupted", "reportInterrupted"} => cancelled[j]
    /\ pc[w] \in {"delete", "end"} /\ dbErrs = 0 => reports[j] # {} \/
      cancelled[j]
    /\ pc[w] \in {"return"} \cup Settling /\ dbErrs = 0 =>
          (published[j] <=> "success" \in reports[j])

LedgersOK == \A w \in Workers : pc[w] \in Owning => LedgerOK(w, job[w])

JobsFresh == \A j \in Jobs : ~Taken(j) => reports[j] = {} /\ ~published[j]

LedgerInv == RunInv /\ LedgersOK /\ JobsFresh

(* The worker's own steps, which also keep a verdict outside a shutdown. *)
LEMMA OwnLedgerStep ==
    ASSUME LedgerInv, NEW w \in Workers, WorkerStep(w)
    PROVE  /\ pc'[w] \in Owning => LedgerOK(w, job[w])'
           /\ pc[w] \in Owning /\ ~shuttingDown /\ reports[job[w]] # {} =>
                 reports'[job[w]] = reports[job[w]]
  <1> DEFINE Good == /\ pc'[w] \in Owning => LedgerOK(w, job[w])'
                     /\ pc[w] \in Owning /\ ~shuttingDown /\ reports[job[w]] #
                       {} =>
                           reports'[job[w]] = reports[job[w]]
  <1> SUFFICES Good
    OBVIOUS
  <1>a. /\ pc[w] \in Owning => LedgerOK(w, job[w])
        /\ pc[w] \in Owning \cup {"claim"} => job[w] \in Jobs
        /\ pc[w] = "claim" /\ row[job[w]] = "pending" =>
              reports[job[w]] = {} /\ ~published[job[w]]
    BY DEF LedgerInv, LedgersOK, JobsFresh, Taken, RunInv, OwnerInv, TypeOK,
       WorkerTypeOK
  <1>b. TypeOK
    BY DEF LedgerInv, RunInv, OwnerInv
  <1> USE DEF LedgerOK, BeforeVerdict, TypeOK, StoreTypeOK, SystemTypeOK,
        ManagerTypeOK, WorkerTypeOK, Goto, Finish, Idle, OnlyWorker, SetStatus,
        DbFails, ClaimJob, UpdateJobStatusFailed, DeleteJobs, AddJobReport,
        Owning, Unregistered, Running, FFmpegRunning, Settling
  <1>1. CASE Wake(w)
    BY <1>1, <1>a, <1>b DEF Wake
  <1>2. CASE WorkerStops(w)
    BY <1>2, <1>a, <1>b DEF WorkerStops
  <1>3. CASE CheckStop(w)
    BY <1>3, <1>a, <1>b DEF CheckStop
  <1>4. CASE CheckAllowed(w)
    BY <1>4, <1>a, <1>b DEF CheckAllowed
  <1>5. CASE LoadPending(w)
    BY <1>5, <1>a, <1>b DEF LoadPending, FirstPending, Pending
  <1>6. CASE Claim(w)
    BY <1>6, <1>a, <1>b DEF Claim
  <1>7. CASE WakeNext(w)
    BY <1>7, <1>a, <1>b DEF WakeNext
  <1>8. CASE Begin(w)
    BY <1>8, <1>a, <1>b DEF Begin, BeginJob
  <1>9. CASE Prepare(w)
    BY <1>9, <1>a, <1>b DEF Prepare
  <1>p. CASE Probe(w)
    <2>1. pc[w] = "probe" /\ job[w] \in Jobs /\ UNCHANGED <<published, job>>
      BY <1>p, <1>a DEF Probe
    <2>2. reports[job[w]] = {} /\ ~published[job[w]]
      BY <2>1, <1>a
    <2>3. CASE Finish(w, TRUE) /\ UNCHANGED reports
      BY <2>1, <2>2, <2>3, <1>b
    <2>4. CASE AddJobReport(job[w], "skipped") /\ Finish(w, FALSE)
      <3>1. reports'[job[w]] = {"skipped"}
        BY <2>1, <2>2, <2>4, <1>b
      <3>2. QED BY <2>1, <2>2, <2>4, <1>b, <3>1
    <2>5. CASE Goto(w, "copy") /\ UNCHANGED storeVars
      BY <2>1, <2>2, <2>5, <1>b
    <2>6. QED BY <1>p, <2>3, <2>4, <2>5 DEF Probe
  <1>10. CASE CopyStarts(w)
    BY <1>10, <1>a, <1>b DEF CopyStarts
  <1>11. CASE CopyEnds(w)
    BY <1>11, <1>a, <1>b DEF CopyEnds
  <1>12. CASE CheckBeforeStart(w)
    BY <1>12, <1>a, <1>b DEF CheckBeforeStart
  <1>13. CASE StartFFmpeg(w)
    BY <1>13, <1>a, <1>b DEF StartFFmpeg
  <1>14. CASE SetCurrentCmd(w)
    BY <1>14, <1>a, <1>b DEF SetCurrentCmd
  <1>15. CASE CheckAfterStart(w)
    BY <1>15, <1>a, <1>b DEF CheckAfterStart
  <1>16. CASE FFmpegDone(w)
    BY <1>16, <1>a, <1>b DEF FFmpegDone
  <1>17. CASE FinishOutput(w)
    <2>1. pc[w] = "finish" /\ job[w] \in Jobs /\ UNCHANGED job
      BY <1>17, <1>a DEF FinishOutput
    <2>2. reports[job[w]] = {} /\ ~published[job[w]]
      BY <2>1, <1>a
    <2>3. CASE Finish(w, TRUE) /\ UNCHANGED <<reports, published>>
      BY <2>1, <2>2, <2>3, <1>b
    <2>4. CASE AddJobReport(job[w], "skipped") /\ Finish(w, FALSE) /\ UNCHANGED
      published
      <3>1. reports'[job[w]] = {"skipped"}
        BY <2>1, <2>2, <2>4, <1>b
      <3>2. QED BY <2>1, <2>2, <2>4, <1>b, <3>1
    <2>5. CASE published' = [published EXCEPT ![job[w]] = TRUE] /\ Goto(w,
      "report")
               /\ UNCHANGED storeVars
      BY <2>1, <2>2, <2>5, <1>b
    <2>6. QED BY <1>17, <2>3, <2>4, <2>5 DEF FinishOutput
  <1>18. CASE ReportSuccess(w)
    <2>1. pc[w] = "report" /\ job[w] \in Jobs /\ UNCHANGED <<published, job>>
      BY <1>18, <1>a DEF ReportSuccess
    <2>2. reports[job[w]] = {} /\ published[job[w]]
      BY <2>1, <1>a
    <2>3. CASE DbFails /\ Finish(w, TRUE)
      BY <2>1, <2>2, <2>3, <1>b
    <2>4. CASE AddJobReport(job[w], "success") /\ Finish(w, FALSE)
      <3>1. reports'[job[w]] = {"success"}
        BY <2>1, <2>2, <2>4, <1>b
      <3>2. QED BY <2>1, <2>2, <2>4, <1>b, <3>1
    <2>5. QED BY <1>18, <2>3, <2>4 DEF ReportSuccess
  <1>19. CASE CleanupTemps(w)
    BY <1>19, <1>a, <1>b DEF CleanupTemps
  <1>20. CASE Settle(w)
    BY <1>20, <1>a, <1>b DEF Settle, Outcome
  <1>21. CASE CheckInterrupted(w)
    BY <1>21, <1>a, <1>b DEF CheckInterrupted
  <1>22. CASE MarkFailed(w)
    BY <1>22, <1>a, <1>b DEF MarkFailed
  <1>23. CASE ReportFailed(w)
    <2>1. /\ pc[w] \in {"reportFailed", "reportInterrupted"} /\ job[w] \in Jobs
          /\ pc'[w] = "delete" /\ UNCHANGED <<published, cancelled,
            shuttingDown, job>>
      BY <1>23, <1>a, <1>b DEF ReportFailed
    <2>2. /\ pc[w] = "reportFailed" => reports[job[w]] = {}
          /\ pc[w] = "reportInterrupted" => cancelled[job[w]] /\ shuttingDown
          /\ dbErrs = 0 => (published[job[w]] <=> "success" \in reports[job[w]])
      BY <2>1, <1>a
    <2>3. CASE AddJobReport(job[w], "failed")
      <3>1. reports'[job[w]] = reports[job[w]] \cup {"failed"}
        BY <2>1, <2>3, <1>b
      <3>2. QED BY <2>1, <2>2, <2>3, <3>1, <1>b
    <2>4. CASE DbFails
      BY <2>1, <2>2, <2>4, <1>b
    <2>5. QED BY <1>23, <2>3, <2>4 DEF ReportFailed
  <1>24. CASE DeleteOwnJob(w)
    BY <1>24, <1>a, <1>b DEF DeleteOwnJob
  <1>25. CASE EndJob(w)
    BY <1>25, <1>a, <1>b DEF EndJob
  <1>26. CASE Retrigger(w)
    BY <1>26, <1>a, <1>b DEF Retrigger
  <1>27. QED BY <1>1, <1>2, <1>3, <1>4, <1>5, <1>6, <1>7, <1>8, <1>9, <1>p, <1>10,
        <1>11, <1>12, <1>13, <1>14, <1>15, <1>16, <1>17, <1>18, <1>19, <1>20,
        <1>21, <1>22, <1>23, <1>24, <1>25, <1>26 DEF WorkerStep

LEMMA LedgersStep ==
    ASSUME LedgerInv, [Next]_vars
    PROVE  LedgersOK'
  <1> SUFFICES ASSUME NEW w \in Workers, pc'[w] \in Owning
               PROVE  LedgerOK(w, job[w])'
    BY DEF LedgersOK
  <1>w. ASSUME NEW u \in Workers, WorkerStep(u)
        PROVE  LedgerOK(w, job[w])'
    <2>1. CASE u = w
      BY <1>w, <2>1, OwnLedgerStep
    <2>2. CASE u # w
      <3>1. /\ UNCHANGED shuttingDown /\ (dbErrs' = 0 => dbErrs = 0)
            /\ pc'[w] = pc[w] /\ job'[w] = job[w] /\ erred'[w] = erred[w]
        BY <1>w, <2>2, OthersStayAway, WorkersKeep DEF LedgerInv, RunInv,
          OwnerInv
      <3>2. job[w] \in Jobs /\ pc[w] \in Owning /\ LedgerOK(w, job[w])
        BY <3>1 DEF LedgerInv, RunInv, OwnerInv, TypeOK, WorkerTypeOK, LedgersOK
      <3>3. ~Owns(u, job[w])
        BY <2>2, <3>2 DEF LedgerInv, RunInv, OwnerInv, OwnerExclusive, Owns
      <3>4. SameRun(job[w])
        BY <1>w, <3>2, <3>3, OnlyOwnerTouches DEF LedgerInv, RunInv
      <3>5. QED BY <3>1, <3>2, <3>4 DEF LedgerOK, SameRun
    <2>3. QED BY <2>1, <2>2
  <1>a. /\ pc[w] \in Owning => job[w] \in Jobs /\ LedgerOK(w, job[w])
        /\ pc[w] = "down" => pc[w] \notin Owning
    BY DEF LedgerInv, RunInv, OwnerInv, TypeOK, WorkerTypeOK, LedgersOK, Owning,
       Unregistered, Running, FFmpegRunning, Settling
  <1>b. TypeOK
    BY DEF LedgerInv, RunInv, OwnerInv
  <1> USE DEF LedgerOK, BeforeVerdict, TypeOK, StoreTypeOK, SystemTypeOK,
        ManagerTypeOK, WorkerTypeOK, SigGoto, OnlyStore, DbFails, DeleteJobs,
        InsertJob, BumpJobPriority, SetPausedRow, MarkProcessingAsFailed,
        Owning, Unregistered, Running, FFmpegRunning, Settling
  <1>1. ASSUME NEW s \in Signallers, CancelContext(s) PROVE LedgerOK(w, job[w])'
    BY <1>1, <1>a, <1>b DEF CancelContext
  <1>2. ASSUME NEW s \in Signallers, Interrupt(s) PROVE LedgerOK(w, job[w])'
    BY <1>2, <1>a, <1>b DEF Interrupt
  <1>3. ASSUME NEW s \in Signallers, Escalate(s) PROVE LedgerOK(w, job[w])'
    BY <1>3, <1>a, <1>b DEF Escalate
  <1>4. ASSUME NEW j \in Jobs, FFmpegExits(j) PROVE LedgerOK(w, job[w])'
    BY <1>4, <1>a, <1>b DEF FFmpegExits
  <1>5. ASSUME NEW j \in Jobs, EscalateKill(j) PROVE LedgerOK(w, job[w])'
    BY <1>5, <1>a, <1>b DEF EscalateKill, KillAll
  <1>6. ASSUME NEW j \in Jobs, TriggerAdded(j) PROVE LedgerOK(w, job[w])'
    BY <1>6, <1>a, <1>b DEF TriggerAdded
  <1>7. ASSUME NEW j \in Jobs, Bump(j) PROVE LedgerOK(w, job[w])'
    BY <1>7, <1>a, <1>b DEF Bump
  <1>8. ASSUME NEW j \in Jobs, StopSignals(j) PROVE LedgerOK(w, job[w])'
    BY <1>8, <1>a, <1>b DEF StopSignals
  <1>9. ASSUME NEW c \in Cancellers, CancelDelete(c) PROVE LedgerOK(w, job[w])'
    BY <1>9, <1>a, <1>b DEF CancelDelete
  <1>10. ASSUME NEW c \in Cancellers, NEW j \in Jobs, CancelLookup(c, j) PROVE
        LedgerOK(w, job[w])'
    BY <1>10, <1>a, <1>b DEF CancelLookup
  <1>11. ASSUME NEW j \in Jobs, NEW p \in {0, RequeuePriority}, AddJob(j, p)
        PROVE LedgerOK(w, job[w])'
    BY <1>11, <1>a, <1>b DEF AddJob
  <1>12. ASSUME NEW S \in SUBSET Jobs, PurgeFolder(S) PROVE LedgerOK(w, job[w])'
    BY <1>12, <1>a, <1>b DEF PurgeFolder
  <1>13. ASSUME NEW b \in BOOLEAN, PauseRow(b) PROVE LedgerOK(w, job[w])'
    BY <1>13, <1>a, <1>b DEF PauseRow
  <1>14. CASE PauseField
    BY <1>14, <1>a, <1>b DEF PauseField
  <1>15. CASE ResumeTrigger
    BY <1>15, <1>a, <1>b DEF ResumeTrigger
  <1>16. CASE ScheduleTrigger
    BY <1>16, <1>a, <1>b DEF ScheduleTrigger
  <1>17. CASE StopBegins
    BY <1>17, <1>a, <1>b DEF StopBegins
  <1>18. CASE StopCloses
    BY <1>18, <1>a, <1>b DEF StopCloses
  <1>19. CASE StopDrained
    BY <1>19, <1>a, <1>b DEF StopDrained
  <1>20. CASE StopTimesOut
    BY <1>20, <1>a, <1>b DEF StopTimesOut, KillAll
  <1>21. CASE StopGivesUp
    BY <1>21, <1>a, <1>b DEF StopGivesUp
  <1>22. CASE Crash
    BY <1>22, <1>a, <1>b DEF Crash, ProcessDies
  <1>23. CASE Exit
    BY <1>23, <1>a, <1>b DEF Exit, ProcessDies
  <1>24. CASE StartMarks
    BY <1>24, <1>a, <1>b DEF StartMarks
  <1>25. CASE StartWorkers
    BY <1>25, <1>a, <1>b DEF StartWorkers, OnlyStarts, LoadSchedule
  <1>26. CASE UNCHANGED vars
    BY <1>26, <1>a, <1>b DEF vars
  <1>27. QED BY <1>w, <1>1, <1>2, <1>3, <1>4, <1>5, <1>6, <1>7, <1>8, <1>9,
        <1>10, <1>11, <1>12, <1>13, <1>14, <1>15, <1>16, <1>17, <1>18, <1>19,
        <1>20, <1>21, <1>22, <1>23, <1>24, <1>25, <1>26
        DEF SignalStep, Environment, Progress, Stopping, Next

(* Reports and publications are the owner's alone. *)
LEMMA LedgerMoves ==
    ASSUME LedgerInv, [Next]_vars, NEW k \in Jobs
    PROVE  \/ reports'[k] = reports[k] /\ published'[k] = published[k]
           \/ \E u \in Workers : WorkerStep(u) /\ Owns(u, k)
  <1> DEFINE Kept == \/ reports'[k] = reports[k] /\ published'[k] = published[k]
                     \/ \E u \in Workers : WorkerStep(u) /\ Owns(u, k)
  <1> SUFFICES Kept
    OBVIOUS
  <1>w. ASSUME NEW u \in Workers, WorkerStep(u)
        PROVE  Kept
    BY <1>w, OnlyOwnerTouches DEF SameRun, LedgerInv, RunInv
  <1> USE DEF SigGoto, OnlyStore, DbFails, DeleteJobs, InsertJob,
        BumpJobPriority, SetPausedRow, MarkProcessingAsFailed
  <1>1. ASSUME NEW s \in Signallers, CancelContext(s) PROVE Kept
    BY <1>1 DEF CancelContext
  <1>2. ASSUME NEW s \in Signallers, Interrupt(s) PROVE Kept
    BY <1>2 DEF Interrupt
  <1>3. ASSUME NEW s \in Signallers, Escalate(s) PROVE Kept
    BY <1>3 DEF Escalate
  <1>4. ASSUME NEW j \in Jobs, FFmpegExits(j) PROVE Kept
    BY <1>4 DEF FFmpegExits
  <1>5. ASSUME NEW j \in Jobs, EscalateKill(j) PROVE Kept
    BY <1>5 DEF EscalateKill, KillAll
  <1>6. ASSUME NEW j \in Jobs, TriggerAdded(j) PROVE Kept
    BY <1>6 DEF TriggerAdded
  <1>7. ASSUME NEW j \in Jobs, Bump(j) PROVE Kept
    BY <1>7 DEF Bump
  <1>8. ASSUME NEW j \in Jobs, StopSignals(j) PROVE Kept
    BY <1>8 DEF StopSignals
  <1>9. ASSUME NEW c \in Cancellers, CancelDelete(c) PROVE Kept
    BY <1>9 DEF CancelDelete
  <1>10. ASSUME NEW c \in Cancellers, NEW j \in Jobs, CancelLookup(c, j) PROVE
        Kept
    BY <1>10 DEF CancelLookup
  <1>11. ASSUME NEW j \in Jobs, NEW p \in {0, RequeuePriority}, AddJob(j, p)
        PROVE Kept
    BY <1>11 DEF AddJob
  <1>12. ASSUME NEW S \in SUBSET Jobs, PurgeFolder(S) PROVE Kept
    BY <1>12 DEF PurgeFolder
  <1>13. ASSUME NEW b \in BOOLEAN, PauseRow(b) PROVE Kept
    BY <1>13 DEF PauseRow
  <1>14. CASE PauseField
    BY <1>14 DEF PauseField
  <1>15. CASE ResumeTrigger
    BY <1>15 DEF ResumeTrigger
  <1>16. CASE ScheduleTrigger
    BY <1>16 DEF ScheduleTrigger
  <1>17. CASE StopBegins
    BY <1>17 DEF StopBegins
  <1>18. CASE StopCloses
    BY <1>18 DEF StopCloses
  <1>19. CASE StopDrained
    BY <1>19 DEF StopDrained
  <1>20. CASE StopTimesOut
    BY <1>20 DEF StopTimesOut, KillAll
  <1>21. CASE StopGivesUp
    BY <1>21 DEF StopGivesUp
  <1>22. CASE Crash
    BY <1>22 DEF Crash, ProcessDies
  <1>23. CASE Exit
    BY <1>23 DEF Exit, ProcessDies
  <1>24. CASE StartMarks
    BY <1>24 DEF StartMarks
  <1>25. CASE StartWorkers
    BY <1>25 DEF StartWorkers, OnlyStarts, LoadSchedule
  <1>26. CASE UNCHANGED vars
    BY <1>26 DEF vars
  <1>27. QED BY <1>w, <1>1, <1>2, <1>3, <1>4, <1>5, <1>6, <1>7, <1>8, <1>9,
        <1>10, <1>11, <1>12, <1>13, <1>14, <1>15, <1>16, <1>17, <1>18, <1>19,
        <1>20, <1>21, <1>22, <1>23, <1>24, <1>25, <1>26
        DEF SignalStep, Environment, Progress, Stopping, Next

LEMMA FreshStep ==
    ASSUME LedgerInv, [Next]_vars
    PROVE  JobsFresh'
  <1> SUFFICES ASSUME NEW k \in Jobs, ~Taken(k)'
               PROVE  reports'[k] = {} /\ ~published'[k]
    BY DEF JobsFresh, Taken
  <1>1. ~Taken(k)
    BY TakenForGood DEF LedgerInv, RunInv, OwnerInv
  <1>2. \A u \in Workers : ~Owns(u, k)
    BY <1>1 DEF LedgerInv, RunInv, OwnerInv, OwnedTaken, Owns
  <1>3. QED BY <1>1, <1>2, LedgerMoves DEF LedgerInv, JobsFresh

LEMMA LedgerInvariant == Spec => []LedgerInv
  <1>1. Init => LedgersOK /\ JobsFresh
    BY DEF Init, StoreInit, LedgersOK, JobsFresh, Owning, Unregistered, Running,
       FFmpegRunning, Settling
  <1>2. LedgerInv /\ [Next]_vars => LedgersOK' /\ JobsFresh'
    BY LedgersStep, FreshStep
  <1>3. QED BY <1>1, <1>2, RunInvariant, PTL DEF Spec, LedgerInv

(* As long as no statement fails, the history of a run that ends says       *)
(* "success" exactly when the file was published, and is empty only for a  *)
(* cancelled job.                                                          *)
THEOREM HistoryTrue == Spec => []RunLeavesVerdict
  <1>1. LedgerInv => RunLeavesVerdict
    BY DEF LedgerInv, LedgersOK, LedgerOK, RunLeavesVerdict, Owns, Owning,
      Settling
  <1>2. QED BY <1>1, LedgerInvariant, PTL

(* Outside a shutdown a job's verdict is final. *)
THEOREM VerdictFinal == Spec => VerdictStands
  <1>1. LedgerInv /\ [Next]_vars =>
           [~shuttingDown => \A j \in Jobs : reports[j] # {} => reports'[j] =
             reports[j]]_vars
    <2> SUFFICES ASSUME LedgerInv, [Next]_vars, ~shuttingDown,
                        NEW k \in Jobs, reports[k] # {}
                 PROVE  reports'[k] = reports[k]
      OBVIOUS
    <2>1. ASSUME NEW u \in Workers, WorkerStep(u), Owns(u, k)
          PROVE  reports'[k] = reports[k]
      BY <2>1, OwnLedgerStep DEF Owns
    <2>2. QED BY <2>1, LedgerMoves
  <1>2. QED BY <1>1, LedgerInvariant, PTL DEF Spec, VerdictStands

-----------------------------------------------------------------------------
(* Rows shown as "processing".                                             *)

ClaimedBy(w, k) == /\ pc[w] = "claim" /\ job[w] = k /\ row[k] = "pending"
                   /\ pc'[w] = "wakeNext" /\ job'[w] = k

(* A row becomes "processing" only by a claim. *)
LEMMA RowMoves ==
    ASSUME TypeOK, [Next]_vars, NEW k \in Jobs, row'[k] = "processing"
    PROVE  row[k] = "processing" \/ \E w \in Workers : ClaimedBy(w, k)
  <1> DEFINE Claimed == \/ row[k] = "processing"
                        \/ \E w \in Workers : ClaimedBy(w, k)
  <1> SUFFICES Claimed
    OBVIOUS
  <1> USE StoreAssumption, QueueAssumption DEF TypeOK, StoreTypeOK,
        WorkerTypeOK, Statuses, Owning, Unregistered, Running, Settling,
        SigGoto, Goto, Finish, Idle, OnlyWorker, OnlyStore, SetStatus, DbFails,
        ClaimJob, UpdateJobStatusFailed, BumpJobPriority, InsertJob, DeleteJobs,
        MarkProcessingAsFailed, AddJobReport, SetPausedRow
  <1>1. ASSUME NEW u \in Workers, LoadPending(u) PROVE Claimed
    BY <1>1 DEF LoadPending, FirstPending, Pending
  <1>2. ASSUME NEW u \in Workers, Claim(u) PROVE Claimed
    BY <1>2 DEF Claim, ClaimedBy
  <1>3. ASSUME NEW u \in Workers, Probe(u) PROVE Claimed
    BY <1>3 DEF Probe
  <1>4. ASSUME NEW u \in Workers, FinishOutput(u) PROVE Claimed
    BY <1>4 DEF FinishOutput
  <1>5. ASSUME NEW u \in Workers, ReportSuccess(u) PROVE Claimed
    BY <1>5 DEF ReportSuccess
  <1>6. ASSUME NEW u \in Workers, MarkFailed(u) PROVE Claimed
    BY <1>6 DEF MarkFailed
  <1>7. ASSUME NEW u \in Workers, ReportFailed(u) PROVE Claimed
    BY <1>7 DEF ReportFailed
  <1>8. ASSUME NEW u \in Workers, DeleteOwnJob(u) PROVE Claimed
    BY <1>8 DEF DeleteOwnJob
  <1>9. ASSUME NEW c \in Cancellers, CancelDelete(c) PROVE Claimed
    BY <1>9 DEF CancelDelete
  <1>10. ASSUME NEW j \in Jobs, NEW p \in {0, RequeuePriority}, AddJob(j, p)
        PROVE Claimed
    BY <1>10 DEF AddJob
  <1>11. ASSUME NEW j \in Jobs, Bump(j) PROVE Claimed
    BY <1>11 DEF Bump
  <1>12. ASSUME NEW S \in SUBSET Jobs, PurgeFolder(S) PROVE Claimed
    BY <1>12 DEF PurgeFolder
  <1>13. ASSUME NEW b \in BOOLEAN, PauseRow(b) PROVE Claimed
    BY <1>13 DEF PauseRow
  <1>14. CASE StartMarks
    BY <1>14 DEF StartMarks
  <1>15. CASE StartWorkers
    BY <1>15 DEF StartWorkers, OnlyStarts, LoadSchedule
  <1>16. CASE UNCHANGED storeVars
    BY <1>16
  <1> HIDE DEF TypeOK, StoreTypeOK, WorkerTypeOK, Statuses, Owning,
        Unregistered, Running, Settling, SigGoto, Goto, Finish, Idle, SetStatus,
        DbFails, ClaimJob, UpdateJobStatusFailed, BumpJobPriority, InsertJob,
        DeleteJobs, MarkProcessingAsFailed, AddJobReport, SetPausedRow, Claimed
  <1>17. QED BY <1>1, <1>2, <1>3, <1>4, <1>5, <1>6, <1>7, <1>8, <1>9, <1>10,
        <1>11, <1>12, <1>13, <1>14, <1>15, <1>16, ZenonT(30)
        DEF WorkerStep, SignalStep, Environment, Progress, Stopping, Next, vars,
          Wake, WorkerStops, CheckStop, CheckAllowed, WakeNext, Begin, Prepare,
          CopyStarts, CopyEnds, CheckBeforeStart, StartFFmpeg, SetCurrentCmd,
          CheckAfterStart, FFmpegDone, CleanupTemps, Settle, CheckInterrupted,
          EndJob, Retrigger, CancelContext, Interrupt, Escalate, FFmpegExits,
          EscalateKill, TriggerAdded, StopSignals, CancelLookup, PauseField,
          ResumeTrigger, ScheduleTrigger, StopBegins, StopCloses, StopDrained,
          StopTimesOut, StopGivesUp, Crash, Exit, BeginJob, KillAll, Outcome,
          ProcessDies

LEMMA ErrorsCount ==
    ASSUME TypeOK, [Next]_vars, dbErrs' = 0
    PROVE  dbErrs = 0
  <1> SUFFICES dbErrs = 0
    OBVIOUS
  <1> USE StoreAssumption, QueueAssumption DEF TypeOK, StoreTypeOK,
        WorkerTypeOK, SigGoto, Goto, Finish, Idle, OnlyWorker, OnlyStore,
        SetStatus, DbFails, ClaimJob, UpdateJobStatusFailed, BumpJobPriority,
        InsertJob, DeleteJobs, MarkProcessingAsFailed, AddJobReport,
        SetPausedRow
  <1>1. ASSUME NEW u \in Workers, LoadPending(u) PROVE dbErrs = 0
    BY <1>1 DEF LoadPending, FirstPending, Pending
  <1>2. ASSUME NEW u \in Workers, Claim(u) PROVE dbErrs = 0
    BY <1>2 DEF Claim
  <1>3. ASSUME NEW u \in Workers, Probe(u) PROVE dbErrs = 0
    BY <1>3 DEF Probe
  <1>4. ASSUME NEW u \in Workers, FinishOutput(u) PROVE dbErrs = 0
    BY <1>4 DEF FinishOutput
  <1>5. ASSUME NEW u \in Workers, ReportSuccess(u) PROVE dbErrs = 0
    BY <1>5 DEF ReportSuccess
  <1>6. ASSUME NEW u \in Workers, MarkFailed(u) PROVE dbErrs = 0
    BY <1>6 DEF MarkFailed
  <1>7. ASSUME NEW u \in Workers, ReportFailed(u) PROVE dbErrs = 0
    BY <1>7 DEF ReportFailed
  <1>8. ASSUME NEW u \in Workers, DeleteOwnJob(u) PROVE dbErrs = 0
    BY <1>8 DEF DeleteOwnJob
  <1>9. ASSUME NEW c \in Cancellers, CancelDelete(c) PROVE dbErrs = 0
    BY <1>9 DEF CancelDelete
  <1>10. ASSUME NEW j \in Jobs, NEW p \in {0, RequeuePriority}, AddJob(j, p)
        PROVE dbErrs = 0
    BY <1>10 DEF AddJob
  <1>11. ASSUME NEW j \in Jobs, Bump(j) PROVE dbErrs = 0
    BY <1>11 DEF Bump
  <1>12. ASSUME NEW S \in SUBSET Jobs, PurgeFolder(S) PROVE dbErrs = 0
    BY <1>12 DEF PurgeFolder
  <1>13. ASSUME NEW b \in BOOLEAN, PauseRow(b) PROVE dbErrs = 0
    BY <1>13 DEF PauseRow
  <1>14. CASE StartMarks
    BY <1>14 DEF StartMarks
  <1>15. CASE StartWorkers
    BY <1>15 DEF StartWorkers, OnlyStarts, LoadSchedule
  <1>16. CASE UNCHANGED storeVars
    BY <1>16
  <1> HIDE DEF TypeOK, StoreTypeOK, WorkerTypeOK, SigGoto, Goto, Finish, Idle,
        SetStatus, DbFails, ClaimJob, UpdateJobStatusFailed, BumpJobPriority,
        InsertJob, DeleteJobs, MarkProcessingAsFailed, AddJobReport,
        SetPausedRow
  <1>17. QED BY <1>1, <1>2, <1>3, <1>4, <1>5, <1>6, <1>7, <1>8, <1>9, <1>10,
        <1>11, <1>12, <1>13, <1>14, <1>15, <1>16, ZenonT(30)
        DEF WorkerStep, SignalStep, Environment, Progress, Stopping, Next, vars,
          Wake, WorkerStops, CheckStop, CheckAllowed, WakeNext, Begin, Prepare,
          CopyStarts, CopyEnds, CheckBeforeStart, StartFFmpeg, SetCurrentCmd,
          CheckAfterStart, FFmpegDone, CleanupTemps, Settle, CheckInterrupted,
          EndJob, Retrigger, CancelContext, Interrupt, Escalate, FFmpegExits,
          EscalateKill, TriggerAdded, StopSignals, CancelLookup, PauseField,
          ResumeTrigger, ScheduleTrigger, StopBegins, StopCloses, StopDrained,
          StopTimesOut, StopGivesUp, Crash, Exit, BeginJob, KillAll, Outcome,
          ProcessDies

(* A worker keeps its job until endJob, which its row precedes. *)
LEMMA OwnerStays ==
    ASSUME TypeOK, [Next]_vars, Serving', Serving, NEW w \in Workers, pc[w] \in
      Owning
    PROVE  pc[w] = "end" \/ (pc'[w] \in Owning /\ job'[w] = job[w])
  <1> DEFINE Stays == pc[w] = "end" \/ (pc'[w] \in Owning /\ job'[w] = job[w])
  <1> SUFFICES Stays
    OBVIOUS
  <1> USE StoreAssumption, QueueAssumption DEF TypeOK, WorkerTypeOK, Serving,
        Goto, Finish, Idle, OnlyWorker, OnlyStore, Owning, Unregistered,
        Running, FFmpegRunning, Settling
  <1>1. ASSUME NEW u \in Workers, Wake(u) PROVE Stays
    BY <1>1 DEF Wake
  <1>2. ASSUME NEW u \in Workers, WorkerStops(u) PROVE Stays
    BY <1>2 DEF WorkerStops
  <1>3. ASSUME NEW u \in Workers, CheckStop(u) PROVE Stays
    BY <1>3 DEF CheckStop
  <1>4. ASSUME NEW u \in Workers, CheckAllowed(u) PROVE Stays
    BY <1>4 DEF CheckAllowed
  <1>5. ASSUME NEW u \in Workers, LoadPending(u) PROVE Stays
    BY <1>5 DEF LoadPending, FirstPending, Pending
  <1>6. ASSUME NEW u \in Workers, Claim(u) PROVE Stays
    BY <1>6 DEF Claim
  <1>7. ASSUME NEW u \in Workers, WakeNext(u) PROVE Stays
    BY <1>7 DEF WakeNext
  <1>8. ASSUME NEW u \in Workers, Begin(u) PROVE Stays
    BY <1>8 DEF Begin, BeginJob
  <1>9. ASSUME NEW u \in Workers, Prepare(u) PROVE Stays
    BY <1>9 DEF Prepare, AddTemps
  <1>p. ASSUME NEW u \in Workers, Probe(u) PROVE Stays
    BY <1>p DEF Probe
  <1>10. ASSUME NEW u \in Workers, CopyStarts(u) PROVE Stays
    BY <1>10 DEF CopyStarts
  <1>11. ASSUME NEW u \in Workers, CopyEnds(u) PROVE Stays
    BY <1>11 DEF CopyEnds
  <1>12. ASSUME NEW u \in Workers, CheckBeforeStart(u) PROVE Stays
    BY <1>12 DEF CheckBeforeStart
  <1>13. ASSUME NEW u \in Workers, StartFFmpeg(u) PROVE Stays
    BY <1>13 DEF StartFFmpeg
  <1>14. ASSUME NEW u \in Workers, SetCurrentCmd(u) PROVE Stays
    BY <1>14 DEF SetCurrentCmd
  <1>15. ASSUME NEW u \in Workers, CheckAfterStart(u) PROVE Stays
    BY <1>15 DEF CheckAfterStart
  <1>16. ASSUME NEW u \in Workers, FFmpegDone(u) PROVE Stays
    BY <1>16 DEF FFmpegDone
  <1>17. ASSUME NEW u \in Workers, FinishOutput(u) PROVE Stays
    BY <1>17 DEF FinishOutput
  <1>18. ASSUME NEW u \in Workers, ReportSuccess(u) PROVE Stays
    BY <1>18 DEF ReportSuccess
  <1>19. ASSUME NEW u \in Workers, CleanupTemps(u) PROVE Stays
    BY <1>19 DEF CleanupTemps
  <1>20. ASSUME NEW u \in Workers, Settle(u) PROVE Stays
    BY <1>20 DEF Settle, Outcome
  <1>21. ASSUME NEW u \in Workers, CheckInterrupted(u) PROVE Stays
    BY <1>21 DEF CheckInterrupted
  <1>22. ASSUME NEW u \in Workers, MarkFailed(u) PROVE Stays
    BY <1>22 DEF MarkFailed
  <1>23. ASSUME NEW u \in Workers, ReportFailed(u) PROVE Stays
    BY <1>23 DEF ReportFailed
  <1>24. ASSUME NEW u \in Workers, DeleteOwnJob(u) PROVE Stays
    BY <1>24 DEF DeleteOwnJob
  <1>25. ASSUME NEW u \in Workers, EndJob(u) PROVE Stays
    BY <1>25 DEF EndJob
  <1>26. ASSUME NEW u \in Workers, Retrigger(u) PROVE Stays
    BY <1>26 DEF Retrigger
  <1>27. CASE Crash
    BY <1>27 DEF Crash, ProcessDies
  <1>28. CASE Exit
    BY <1>28 DEF Exit, ProcessDies
  <1>29. CASE StartWorkers
    BY <1>29 DEF StartWorkers, OnlyStarts, LoadSchedule
  <1>30. CASE UNCHANGED workerVars
    BY <1>30
  <1> HIDE DEF Stays, TypeOK, WorkerTypeOK, Goto, Finish, Idle, Owning,
        Unregistered, Running, FFmpegRunning, Settling
  <1>31. QED BY <1>1, <1>2, <1>3, <1>4, <1>5, <1>6, <1>7, <1>8, <1>9, <1>p, <1>10,
        <1>11, <1>12, <1>13, <1>14, <1>15, <1>16, <1>17, <1>18, <1>19, <1>20,
        <1>21, <1>22, <1>23, <1>24, <1>25, <1>26, <1>27, <1>28, <1>29, <1>30,
        ZenonT(30)
        DEF WorkerStep, SignalStep, Environment, Progress, Stopping, Next, vars,
          CancelContext, Interrupt, Escalate, FFmpegExits, EscalateKill,
          TriggerAdded, Bump, StopSignals, CancelDelete, CancelLookup, AddJob,
          PurgeFolder, PauseRow, PauseField, ResumeTrigger, ScheduleTrigger,
          StopBegins, StopCloses, StopDrained, StopTimesOut, StopGivesUp,
          StartMarks, KillAll

LEMMA EndsDeleted ==
    ASSUME TypeOK, [Next]_vars, NEW w \in Workers, pc'[w] = "end", dbErrs' = 0,
      dbErrs = 0
    PROVE  (pc[w] = "end" /\ job'[w] = job[w]) \/ row'[job'[w]] # "processing"
  <1> DEFINE Ends == (pc[w] = "end" /\ job'[w] = job[w]) \/ row'[job'[w]] #
        "processing"
  <1> SUFFICES Ends
    OBVIOUS
  <1> USE StoreAssumption, QueueAssumption DEF TypeOK, WorkerTypeOK,
        StoreTypeOK, Statuses, Goto, Finish, Idle, OnlyWorker, OnlyStore,
        DbFails, DeleteJobs, Owning, Unregistered, Running, FFmpegRunning,
        Settling, Searching
  <1>1. ASSUME NEW u \in Workers, Wake(u) PROVE Ends
    BY <1>1 DEF Wake
  <1>2. ASSUME NEW u \in Workers, WorkerStops(u) PROVE Ends
    BY <1>2 DEF WorkerStops
  <1>3. ASSUME NEW u \in Workers, CheckStop(u) PROVE Ends
    BY <1>3 DEF CheckStop
  <1>4. ASSUME NEW u \in Workers, CheckAllowed(u) PROVE Ends
    BY <1>4 DEF CheckAllowed
  <1>5. ASSUME NEW u \in Workers, LoadPending(u) PROVE Ends
    BY <1>5 DEF LoadPending, FirstPending, Pending
  <1>6. ASSUME NEW u \in Workers, Claim(u) PROVE Ends
    BY <1>6 DEF Claim
  <1>7. ASSUME NEW u \in Workers, WakeNext(u) PROVE Ends
    BY <1>7 DEF WakeNext
  <1>8. ASSUME NEW u \in Workers, Begin(u) PROVE Ends
    BY <1>8 DEF Begin, BeginJob
  <1>9. ASSUME NEW u \in Workers, Prepare(u) PROVE Ends
    BY <1>9 DEF Prepare, AddTemps
  <1>p. ASSUME NEW u \in Workers, Probe(u) PROVE Ends
    BY <1>p DEF Probe
  <1>10. ASSUME NEW u \in Workers, CopyStarts(u) PROVE Ends
    BY <1>10 DEF CopyStarts
  <1>11. ASSUME NEW u \in Workers, CopyEnds(u) PROVE Ends
    BY <1>11 DEF CopyEnds
  <1>12. ASSUME NEW u \in Workers, CheckBeforeStart(u) PROVE Ends
    BY <1>12 DEF CheckBeforeStart
  <1>13. ASSUME NEW u \in Workers, StartFFmpeg(u) PROVE Ends
    BY <1>13 DEF StartFFmpeg
  <1>14. ASSUME NEW u \in Workers, SetCurrentCmd(u) PROVE Ends
    BY <1>14 DEF SetCurrentCmd
  <1>15. ASSUME NEW u \in Workers, CheckAfterStart(u) PROVE Ends
    BY <1>15 DEF CheckAfterStart
  <1>16. ASSUME NEW u \in Workers, FFmpegDone(u) PROVE Ends
    BY <1>16 DEF FFmpegDone
  <1>17. ASSUME NEW u \in Workers, FinishOutput(u) PROVE Ends
    BY <1>17 DEF FinishOutput
  <1>18. ASSUME NEW u \in Workers, ReportSuccess(u) PROVE Ends
    BY <1>18 DEF ReportSuccess
  <1>19. ASSUME NEW u \in Workers, CleanupTemps(u) PROVE Ends
    BY <1>19 DEF CleanupTemps
  <1>20. ASSUME NEW u \in Workers, Settle(u) PROVE Ends
    BY <1>20 DEF Settle, Outcome
  <1>21. ASSUME NEW u \in Workers, CheckInterrupted(u) PROVE Ends
    BY <1>21 DEF CheckInterrupted
  <1>22. ASSUME NEW u \in Workers, MarkFailed(u) PROVE Ends
    BY <1>22 DEF MarkFailed
  <1>23. ASSUME NEW u \in Workers, ReportFailed(u) PROVE Ends
    BY <1>23 DEF ReportFailed
  <1>24. ASSUME NEW u \in Workers, DeleteOwnJob(u) PROVE Ends
    BY <1>24 DEF DeleteOwnJob
  <1>25. ASSUME NEW u \in Workers, EndJob(u) PROVE Ends
    BY <1>25 DEF EndJob
  <1>26. ASSUME NEW u \in Workers, Retrigger(u) PROVE Ends
    BY <1>26 DEF Retrigger
  <1>27. CASE Crash
    BY <1>27 DEF Crash, ProcessDies
  <1>28. CASE Exit
    BY <1>28 DEF Exit, ProcessDies
  <1>29. CASE StartWorkers
    BY <1>29 DEF StartWorkers, OnlyStarts, LoadSchedule
  <1>30. CASE UNCHANGED workerVars
    BY <1>30
  <1> HIDE DEF Ends, TypeOK, WorkerTypeOK, StoreTypeOK, Goto, Finish, Idle,
        DbFails, DeleteJobs, Owning, Unregistered, Running, FFmpegRunning,
        Settling
  <1>31. QED BY <1>1, <1>2, <1>3, <1>4, <1>5, <1>6, <1>7, <1>8, <1>9, <1>p, <1>10,
        <1>11, <1>12, <1>13, <1>14, <1>15, <1>16, <1>17, <1>18, <1>19, <1>20,
        <1>21, <1>22, <1>23, <1>24, <1>25, <1>26, <1>27, <1>28, <1>29, <1>30,
        ZenonT(30)
        DEF WorkerStep, SignalStep, Environment, Progress, Stopping, Next, vars,
          CancelContext, Interrupt, Escalate, FFmpegExits, EscalateKill,
          TriggerAdded, Bump, StopSignals, CancelDelete, CancelLookup, AddJob,
          PurgeFolder, PauseRow, PauseField, ResumeTrigger, ScheduleTrigger,
          StopBegins, StopCloses, StopDrained, StopTimesOut, StopGivesUp,
          StartMarks, KillAll

(* The process comes up through StartMarks and StartWorkers. *)
LEMMA StageMoves ==
    ASSUME [Next]_vars
    PROVE  /\ Serving' /\ ~Serving => stage = "marked"
           /\ stage' = "marked" =>
                 \/ stage = "marked"
                 \/ MarkProcessingAsFailed
                 \/ dbErrs' = dbErrs + 1
  <1> DEFINE Moves == /\ Serving' /\ ~Serving => stage = "marked"
                      /\ stage' = "marked" =>
                            \/ stage = "marked"
                            \/ MarkProcessingAsFailed
                            \/ dbErrs' = dbErrs + 1
  <1> SUFFICES Moves
    OBVIOUS
  <1> USE StoreAssumption, QueueAssumption DEF Serving, DbFails, OnlyWorker,
        OnlyStore
  <1>1. CASE StopBegins
    BY <1>1 DEF StopBegins
  <1>2. CASE StopCloses
    BY <1>2 DEF StopCloses
  <1>3. CASE StopDrained
    BY <1>3 DEF StopDrained
  <1>4. CASE StopTimesOut
    BY <1>4 DEF StopTimesOut, KillAll
  <1>5. CASE StopGivesUp
    BY <1>5 DEF StopGivesUp
  <1>6. CASE Crash
    BY <1>6 DEF Crash, ProcessDies
  <1>7. CASE Exit
    BY <1>7 DEF Exit, ProcessDies
  <1>8. CASE StartMarks
    BY <1>8 DEF StartMarks
  <1>9. CASE StartWorkers
    BY <1>9 DEF StartWorkers, OnlyStarts, LoadSchedule
  <1>10. CASE UNCHANGED stage
    BY <1>10
  <1> HIDE DEF Moves, Serving, DbFails
  <1>11. QED BY <1>1, <1>2, <1>3, <1>4, <1>5, <1>6, <1>7, <1>8, <1>9, <1>10,
        ZenonT(30)
        DEF WorkerStep, SignalStep, Environment, Progress, Stopping, Next, vars,
          Wake, WorkerStops, CheckStop, CheckAllowed, LoadPending, Claim,
          WakeNext, Begin, Prepare, Probe, CopyStarts, CopyEnds, CheckBeforeStart,
          StartFFmpeg, SetCurrentCmd, CheckAfterStart, FFmpegDone, FinishOutput,
          ReportSuccess, CleanupTemps, Settle, CheckInterrupted, MarkFailed,
          ReportFailed, DeleteOwnJob, EndJob, Retrigger, CancelContext,
          Interrupt, Escalate, FFmpegExits, EscalateKill, TriggerAdded, Bump,
          StopSignals, CancelDelete, CancelLookup, AddJob, PurgeFolder,
          PauseRow, PauseField, ResumeTrigger, ScheduleTrigger, AddTemps,
          BeginJob, FirstPending, KillAll, Outcome, Pending

(* ProcessingIsOwned, strengthened at both ends of a run and for the start *)
(* of the next life.                                                       *)
ProcessingInv ==
    /\ ProcessingIsOwned
    /\ dbErrs = 0 => \A w \in Workers : pc[w] = "end" => row[job[w]] #
      "processing"
    /\ dbErrs = 0 /\ stage = "marked" => \A j \in Jobs : row[j] # "processing"

LEMMA ProcessingStep ==
    ASSUME RunInv, RunInv', ProcessingInv, [Next]_vars
    PROVE  ProcessingInv'
  <1> SUFFICES ASSUME dbErrs' = 0 PROVE ProcessingInv'
    BY DEF ProcessingInv, ProcessingIsOwned
  <1>a. TypeOK /\ dbErrs = 0
    BY ErrorsCount DEF RunInv, OwnerInv
  <1>1. ASSUME NEW k \in Jobs, row'[k] = "processing", Serving'
        PROVE  \E w \in Workers : Owns(w, k)'
    <2>1. CASE \E w \in Workers : pc'[w] = "wakeNext" /\ job'[w] = k
      BY <2>1 DEF Owns, Owning, Unregistered
    <2>2. CASE row[k] = "processing"
      <3>1. Serving
        BY <1>1, <1>a, <2>2, StageMoves DEF ProcessingInv
      <3>2. PICK w \in Workers : Owns(w, k)
        BY <1>a, <2>2, <3>1 DEF ProcessingInv, ProcessingIsOwned
      <3>3. pc[w] # "end"
        BY <1>a, <2>2, <3>2 DEF ProcessingInv, Owns
      <3>4. QED BY <1>1, <1>a, <3>1, <3>2, <3>3, OwnerStays DEF Owns
    <2>3. QED BY <1>1, <1>a, <2>1, <2>2, RowMoves DEF ClaimedBy
  <1>2. ASSUME NEW w \in Workers, pc'[w] = "end"
        PROVE  row'[job'[w]] # "processing"
    <2> SUFFICES ASSUME pc[w] = "end", job'[w] = job[w], row'[job[w]] =
      "processing"
                 PROVE  FALSE
      BY <1>2, <1>a, EndsDeleted
    <2>1. job[w] \in Jobs /\ row[job[w]] # "processing"
      BY <1>a DEF ProcessingInv, TypeOK, WorkerTypeOK, Owning, Settling
    <2>2. PICK v \in Workers : pc'[v] = "wakeNext" /\ job'[v] = job'[w]
      BY <1>a, <2>1, RowMoves DEF ClaimedBy
    <2>3. Owns(v, job[w])' /\ Owns(w, job[w])'
      BY <1>2, <2>2 DEF Owns, Owning, Unregistered, Settling
    <2>4. v = w
      BY <2>1, <2>3 DEF RunInv, OwnerInv, OwnerExclusive
    <2>5. QED BY <1>2, <2>2, <2>4
  <1>3. ASSUME NEW k \in Jobs, stage' = "marked", row'[k] = "processing"
        PROVE  FALSE
    <2>1. CASE MarkProcessingAsFailed
      BY <1>3, <2>1 DEF MarkProcessingAsFailed
    <2>2. CASE stage = "marked"
      <3>1. PICK w \in Workers : pc'[w] = "wakeNext"
        BY <1>3, <1>a, <2>2, RowMoves DEF ProcessingInv, ClaimedBy
      <3>2. pc[w] \in Owning \cup {"claim"}
        BY <1>a, <3>1, OwnerMoves DEF Owning, Unregistered
      <3>3. pc[w] = "down"
        BY <2>2 DEF RunInv, DownOK, Serving
      <3>4. QED BY <3>2, <3>3
              DEF Owning, Unregistered, Running, FFmpegRunning, Settling
    <2>3. QED BY <1>3, <1>a, <2>1, <2>2, StageMoves
  <1>4. QED BY <1>1, <1>2, <1>3 DEF ProcessingInv, ProcessingIsOwned

(* A row is shown as "processing" only while a worker has the job: also     *)
(* after crashes and restarts, as long as no statement failed.             *)
THEOREM NoOrphanRow == Spec => []ProcessingIsOwned
  <1>1. Init => ProcessingInv
    BY DEF Init, StoreInit, ProcessingInv, ProcessingIsOwned
  <1>2. RunInv /\ RunInv' /\ ProcessingInv /\ [Next]_vars => ProcessingInv'
    BY ProcessingStep
  <1>3. ProcessingInv => ProcessingIsOwned
    BY DEF ProcessingInv
  <1>4. QED BY <1>1, <1>2, <1>3, RunInvariant, PTL DEF Spec

-----------------------------------------------------------------------------
(* What a pause stops.                                                     *)

(* Workers that have seen the queue allowed and have not claimed yet. *)
PastGate == {w \in Workers : pc[w] \in {"load", "claim"}}

(* No worker passes the test of a paused queue. *)
LEMMA GateShut ==
    ASSUME TypeOK, [Next]_vars, paused, NEW w \in Workers, pc'[w] \in {"load", "claim"}
    PROVE  pc[w] \in {"load", "claim"}
  <1> DEFINE Past == pc[w] \in {"load", "claim"}
  <1> SUFFICES Past
    OBVIOUS
  <1> USE DEF TypeOK, WorkerTypeOK, Goto, Finish, Idle
  <1>1. ASSUME NEW u \in Workers, Wake(u) PROVE Past
    BY <1>1 DEF Wake
  <1>2. ASSUME NEW u \in Workers, WorkerStops(u) PROVE Past
    BY <1>2 DEF WorkerStops
  <1>3. ASSUME NEW u \in Workers, CheckStop(u) PROVE Past
    BY <1>3 DEF CheckStop
  <1>4. ASSUME NEW u \in Workers, CheckAllowed(u) PROVE Past
    BY <1>4 DEF CheckAllowed
  <1>5. ASSUME NEW u \in Workers, LoadPending(u) PROVE Past
    BY <1>5 DEF LoadPending
  <1>6. ASSUME NEW u \in Workers, Claim(u) PROVE Past
    BY <1>6 DEF Claim
  <1>7. ASSUME NEW u \in Workers, WakeNext(u) PROVE Past
    BY <1>7 DEF WakeNext
  <1>8. ASSUME NEW u \in Workers, Begin(u) PROVE Past
    BY <1>8 DEF Begin
  <1>9. ASSUME NEW u \in Workers, Prepare(u) PROVE Past
    BY <1>9 DEF Prepare
  <1>p. ASSUME NEW u \in Workers, Probe(u) PROVE Past
    BY <1>p DEF Probe
  <1>10. ASSUME NEW u \in Workers, CopyStarts(u) PROVE Past
    BY <1>10 DEF CopyStarts
  <1>11. ASSUME NEW u \in Workers, CopyEnds(u) PROVE Past
    BY <1>11 DEF CopyEnds
  <1>12. ASSUME NEW u \in Workers, CheckBeforeStart(u) PROVE Past
    BY <1>12 DEF CheckBeforeStart
  <1>13. ASSUME NEW u \in Workers, StartFFmpeg(u) PROVE Past
    BY <1>13 DEF StartFFmpeg
  <1>14. ASSUME NEW u \in Workers, SetCurrentCmd(u) PROVE Past
    BY <1>14 DEF SetCurrentCmd
  <1>15. ASSUME NEW u \in Workers, CheckAfterStart(u) PROVE Past
    BY <1>15 DEF CheckAfterStart
  <1>16. ASSUME NEW u \in Workers, FFmpegDone(u) PROVE Past
    BY <1>16 DEF FFmpegDone
  <1>17. ASSUME NEW u \in Workers, FinishOutput(u) PROVE Past
    BY <1>17 DEF FinishOutput
  <1>18. ASSUME NEW u \in Workers, ReportSuccess(u) PROVE Past
    BY <1>18 DEF ReportSuccess
  <1>19. ASSUME NEW u \in Workers, CleanupTemps(u) PROVE Past
    BY <1>19 DEF CleanupTemps
  <1>20. ASSUME NEW u \in Workers, Settle(u) PROVE Past
    BY <1>20 DEF Settle, Outcome
  <1>21. ASSUME NEW u \in Workers, CheckInterrupted(u) PROVE Past
    BY <1>21 DEF CheckInterrupted
  <1>22. ASSUME NEW u \in Workers, MarkFailed(u) PROVE Past
    BY <1>22 DEF MarkFailed
  <1>23. ASSUME NEW u \in Workers, ReportFailed(u) PROVE Past
    BY <1>23 DEF ReportFailed
  <1>24. ASSUME NEW u \in Workers, DeleteOwnJob(u) PROVE Past
    BY <1>24 DEF DeleteOwnJob
  <1>25. ASSUME NEW u \in Workers, EndJob(u) PROVE Past
    BY <1>25 DEF EndJob
  <1>26. ASSUME NEW u \in Workers, Retrigger(u) PROVE Past
    BY <1>26 DEF Retrigger
  <1>27. CASE Crash
    BY <1>27 DEF Crash, ProcessDies
  <1>28. CASE Exit
    BY <1>28 DEF Exit, ProcessDies
  <1>29. CASE StartWorkers
    BY <1>29 DEF StartWorkers, OnlyStarts
  <1>30. CASE UNCHANGED workerVars
    BY <1>30
  <1> HIDE DEF Past, TypeOK, WorkerTypeOK, Goto, Finish, Idle
  <1>31. QED BY <1>1, <1>2, <1>3, <1>4, <1>5, <1>6, <1>7, <1>8, <1>9, <1>p, <1>10,
        <1>11, <1>12, <1>13, <1>14, <1>15, <1>16, <1>17, <1>18, <1>19, <1>20,
        <1>21, <1>22, <1>23, <1>24, <1>25, <1>26, <1>27, <1>28, <1>29, <1>30,
        ZenonT(30)
        DEF WorkerStep, SignalStep, Environment, Progress, Stopping, Next, vars,
          CancelContext, Interrupt, Escalate, FFmpegExits, EscalateKill,
          TriggerAdded, Bump, StopSignals, CancelDelete, CancelLookup, AddJob,
          PurgeFolder, PauseRow, PauseField, ResumeTrigger, ScheduleTrigger,
          StopBegins, StopCloses, StopDrained, StopTimesOut, StopGivesUp,
          StartMarks, KillAll, OnlyStore

(* The dashboard's "no job starts while paused" does not hold; this does:  *)
(* from the pause on, the workers that may still start a job only get      *)
(* fewer, and each of them starts one job at most, the one it was claiming.*)
PausedStartsFew ==
    [][paused => /\ PastGate' \subseteq PastGate
                 /\ \A j \in Jobs : row[j] # "processing" /\ row'[j] = "processing"
                       => \E w \in PastGate \ PastGate' : job[w] = j]_vars

THEOREM PauseCloses == Spec => PausedStartsFew
  <1>1. TypeOK /\ [Next]_vars
          => [paused => /\ PastGate' \subseteq PastGate
                        /\ \A j \in Jobs : row[j] # "processing" /\ row'[j] = "processing"
                              => \E w \in PastGate \ PastGate' : job[w] = j]_vars
    <2> SUFFICES ASSUME TypeOK, [Next]_vars, paused
                 PROVE  /\ PastGate' \subseteq PastGate
                        /\ \A j \in Jobs : row[j] # "processing" /\ row'[j] = "processing"
                              => \E w \in PastGate \ PastGate' : job[w] = j
      OBVIOUS
    <2>1. PastGate' \subseteq PastGate
      BY GateShut DEF PastGate
    <2>2. ASSUME NEW j \in Jobs, row[j] # "processing", row'[j] = "processing"
          PROVE  \E w \in PastGate \ PastGate' : job[w] = j
      <3>1. PICK w \in Workers : ClaimedBy(w, j)
        BY <2>2, RowMoves
      <3>2. QED BY <3>1 DEF ClaimedBy, PastGate
    <2>3. QED BY <2>1, <2>2
  <1>2. QED BY <1>1, TypeCorrect, PTL DEF Spec, PausedStartsFew

=============================================================================
