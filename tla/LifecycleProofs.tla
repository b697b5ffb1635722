-------------------------- MODULE LifecycleProofs --------------------------
(***************************************************************************)
(* EncodeQueue implements JobLifecycle, for every number of jobs, workers, *)
(* requests, crashes and failed statements.  The inductive invariant is    *)
(* LedgerInv of EncodeQueueProofs; what is left is to name, for each step  *)
(* of the queue, the step of the lifecycle it takes.                       *)
(***************************************************************************)
EXTENDS EncodeLifecycle, EncodeQueueProofs

USE DEF storeVars, osVars, chanVars, runVars, workerVars, pauseVars, sigVars,
        stopVars, gateVars, requestVars

(* What the lifecycle sees of a step. *)
LifeStep == [Life!Next]_(Life!vars)

RowColumn == {"new", "pending", "processing", "failed", "gone"}

OwnersKept == \A j \in Jobs : Owned(j)' <=> Owned(j)

DoomsKept == \A j \in Jobs : Doomed(j)' <=> Doomed(j)

LedgersKept == published' = published /\ reports' = reports

Skipped(j) == /\ reports' = [reports EXCEPT ![j] = @ \cup {"skipped"}]
              /\ published' = published

-----------------------------------------------------------------------------
(* The mapping. *)

LEMMA RowsTyped == ASSUME TypeOK PROVE \A j \in Jobs : row[j] \in RowColumn
  BY DEF TypeOK, StoreTypeOK, Statuses, RowColumn

LEMMA OwnedRows ==
    ASSUME OwnerInv, NEW j \in Jobs, Owned(j)
    PROVE  Taken(j)
  BY DEF OwnerInv, OwnedTaken, Owned, Owns

(* A row that was taken never shows as absent or waiting. *)
LEMMA ShownTaken ==
    ASSUME TypeOK, NEW j \in Jobs
    PROVE  /\ Taken(j) <=> Shown[row[j]] = "over"
           /\ row[j] = "new" <=> Shown[row[j]] = "absent"
           /\ row[j] = "pending" <=> Shown[row[j]] = "waiting"
  <1>1. row[j] \in RowColumn
    BY RowsTyped
  <1>2. QED BY <1>1 DEF RowColumn, Shown, Taken

(* Nothing but these decides who owns and who is doomed. *)
LEMMA RunsAside ==
    ASSUME UNCHANGED <<pc, job, erred, cancelled, published>>
    PROVE  OwnersKept /\ DoomsKept
  BY DEF OwnersKept, DoomsKept, Owned, Owns, Doomed, DoomedAt

(* A step that changes rows of owned jobs only is none of the lifecycle's. *)
LEMMA Unseen ==
    ASSUME OwnersKept, DoomsKept, LedgersKept,
           \A j \in Jobs : Owned(j) \/ Shown[row'[j]] = Shown[row[j]]
    PROVE  LifeStep
  <1>1. \A j \in Jobs : StateOf(j)' = StateOf(j)
    BY DEF OwnersKept, DoomsKept, StateOf, Shown
  <1>2. states' = states
    BY <1>1 DEF states
  <1>3. QED BY <1>2 DEF LifeStep, LedgersKept, Life!vars

(* Jobs that were waiting or running are over, the others as before. *)
LEMMA Retired ==
    ASSUME NEW S \in SUBSET Jobs, LedgersKept,
           \A j \in S : /\ StateOf(j) \in {"waiting", "running", "doomed"}
                        /\ StateOf(j)' = "over",
           \A j \in Jobs \ S : StateOf(j)' = StateOf(j)
    PROVE  LifeStep
  <1>1. states' = [j \in Jobs |-> IF j \in S THEN "over" ELSE states[j]]
    BY DEF states
  <1>2. S \in SUBSET Life!Present
    BY DEF states, Life!Present
  <1>3. QED BY <1>1, <1>2 DEF LifeStep, LedgersKept, Life!Next, Life!Retire

(* The step of one job. *)
LEMMA OneMoves ==
    ASSUME NEW k \in Jobs, NEW s, StateOf(k)' = s,
           \A j \in Jobs \ {k} : StateOf(j)' = StateOf(j)
    PROVE  states' = [states EXCEPT ![k] = s]
  BY DEF states

LEMMA SameStates ==
    ASSUME OwnersKept, DoomsKept, row' = row
    PROVE  states' = states
  <1>1. \A j \in Jobs : StateOf(j)' = StateOf(j)
    BY DEF OwnersKept, DoomsKept, StateOf, Shown
  <1>2. QED BY <1>1 DEF states

-----------------------------------------------------------------------------
(* Workers. *)

(* Ownership changes hands in Claim and EndJob only. *)
LEMMA WorkerKeepsOwners ==
    ASSUME RunInv, NEW w \in Workers, WorkerStep(w), pc[w] # "claim", pc[w] # "end"
    PROVE  OwnersKept
  <1>1. TypeOK /\ [Next]_vars
    BY DEF RunInv, OwnerInv, Next
  <1>2. \A v \in Workers : v # w => pc'[v] = pc[v] /\ job'[v] = job[v]
    BY <1>1, OthersStayAway
  <1>3. ASSUME NEW v \in Workers, pc'[v] \in Owning
        PROVE  pc[v] \in Owning /\ job'[v] = job[v]
    <2>1. job'[v] = job[v] /\ (pc[v] \in Owning \/ pc[v] = "claim")
      BY <1>1, <1>3, OwnerMoves
    <2>2. CASE v = w
      BY <2>1, <2>2
    <2>3. CASE v # w
      BY <2>1, <2>3, <1>2, <1>3
    <2>4. QED BY <2>2, <2>3
  <1>4. ASSUME NEW v \in Workers, pc[v] \in Owning
        PROVE  pc'[v] \in Owning /\ job'[v] = job[v]
    <2>1. CASE v # w
      BY <2>1, <1>2, <1>4
    <2>2. CASE v = w
      <3>1. Serving
        BY <2>2, <1>4 DEF RunInv, DownOK, Owning, Unregistered, Running,
          FFmpegRunning, Settling
      <3>2. Serving'
        BY <3>1, <1>1, WorkersKeep DEF Serving
      <3>3. QED BY <2>2, <3>1, <3>2, <1>1, <1>4, OwnerStays
    <2>3. QED BY <2>1, <2>2
  <1>5. QED BY <1>3, <1>4 DEF OwnersKept, Owned, Owns

(* Besides Claim, a worker changes the row of its own job only. *)
LEMMA WorkerKeepsRows ==
    ASSUME TypeOK, NEW w \in Workers, WorkerStep(w), pc[w] # "claim",
           NEW j \in Jobs, ~Owns(w, j)
    PROVE  row'[j] = row[j]
  <1> DEFINE Kept == row'[j] = row[j]
  <1> SUFFICES Kept
    OBVIOUS
  <1> USE DEF TypeOK, StoreTypeOK, WorkerTypeOK, Owns, Goto, Finish, Idle,
        OnlyWorker, SetStatus, DbFails, UpdateJobStatusFailed, DeleteJobs,
        AddJobReport, Owning, Unregistered, Running, Settling
  <1>1. CASE LoadPending(w)
    BY <1>1 DEF LoadPending
  <1>2. CASE Claim(w)
    BY <1>2 DEF Claim
  <1>3. CASE Probe(w)
    BY <1>3 DEF Probe
  <1>4. CASE FinishOutput(w)
    BY <1>4 DEF FinishOutput
  <1>5. CASE ReportSuccess(w)
    BY <1>5 DEF ReportSuccess
  <1>6. CASE MarkFailed(w)
    BY <1>6 DEF MarkFailed
  <1>7. CASE ReportFailed(w)
    BY <1>7 DEF ReportFailed
  <1>8. CASE DeleteOwnJob(w)
    BY <1>8 DEF DeleteOwnJob
  <1>9. CASE UNCHANGED storeVars
    BY <1>9
  <1> HIDE DEF Kept, TypeOK, StoreTypeOK, WorkerTypeOK, Owns, Goto, Finish, Idle,
        SetStatus, DbFails, UpdateJobStatusFailed, DeleteJobs, AddJobReport,
        Owning, Unregistered, Running, Settling
  <1>10. QED BY <1>1, <1>2, <1>3, <1>4, <1>5, <1>6, <1>7, <1>8, <1>9, ZenonT(30)
        DEF WorkerStep, Wake, WorkerStops, CheckStop, CheckAllowed, WakeNext,
          Begin, Prepare, CopyStarts, CopyEnds, CheckBeforeStart, StartFFmpeg,
          SetCurrentCmd, CheckAfterStart, FFmpegDone, CleanupTemps, Settle,
          CheckInterrupted, EndJob, Retrigger

LEMMA WorkerKeepsLedgers ==
    ASSUME TypeOK, NEW w \in Workers, WorkerStep(w), ~Probe(w),
           ~FinishOutput(w), ~ReportSuccess(w), ~ReportFailed(w)
    PROVE  LedgersKept
  <1> SUFFICES LedgersKept
    OBVIOUS
  <1> USE DEF LedgersKept, Goto, Finish, Idle, OnlyWorker, SetStatus, DbFails,
        ClaimJob, UpdateJobStatusFailed, DeleteJobs
  <1>1. CASE LoadPending(w)
    BY <1>1 DEF LoadPending
  <1>2. CASE Claim(w)
    BY <1>2 DEF Claim
  <1>3. CASE MarkFailed(w)
    BY <1>3 DEF MarkFailed
  <1>4. CASE DeleteOwnJob(w)
    BY <1>4 DEF DeleteOwnJob
  <1>5. CASE UNCHANGED <<published, reports>>
    BY <1>5
  <1> HIDE DEF LedgersKept, Goto, Finish, Idle, SetStatus, DbFails, ClaimJob,
        UpdateJobStatusFailed, DeleteJobs
  <1>6. QED BY <1>1, <1>2, <1>3, <1>4, <1>5, ZenonT(30)
        DEF WorkerStep, Wake, WorkerStops, CheckStop, CheckAllowed, WakeNext,
          Begin, Prepare, CopyStarts, CopyEnds, CheckBeforeStart, StartFFmpeg,
          SetCurrentCmd, CheckAfterStart, FFmpegDone, CleanupTemps, Settle,
          CheckInterrupted, EndJob, Retrigger

LEMMA ClaimsOnly ==
    ASSUME NEW w \in Workers, WorkerStep(w), pc[w] = "claim"
    PROVE  Claim(w)
  BY DEF WorkerStep, Wake, WorkerStops, CheckStop, CheckAllowed, LoadPending,
    WakeNext, Begin, Prepare, Probe, CopyStarts, CopyEnds, CheckBeforeStart,
    StartFFmpeg, SetCurrentCmd, CheckAfterStart, FFmpegDone, FinishOutput,
    ReportSuccess, CleanupTemps, Settle, CheckInterrupted, MarkFailed,
    ReportFailed, DeleteOwnJob, EndJob, Retrigger

(* A worker dooms no job but its own, least of all the one it claims. *)
LEMMA OthersDooms ==
    ASSUME LedgerInv, NEW w \in Workers, WorkerStep(w), NEW k \in Jobs, ~Owns(w, k)
    PROVE  Doomed(k)' <=> Doomed(k)
  <1>1. TypeOK /\ OwnerInv /\ [Next]_vars
    BY DEF LedgerInv, RunInv, OwnerInv, Next
  <1>2. cancelled'[k] = cancelled[k] /\ published'[k] = published[k]
    BY <1>1, OnlyOwnerTouches DEF SameRun
  <1>3. \A v \in Workers : v # w =>
            pc'[v] = pc[v] /\ job'[v] = job[v] /\ erred'[v] = erred[v]
    BY <1>1, OthersStayAway
  <1>4. ASSUME Owns(w, k)'
        PROVE  ~DoomedAt(w)'
    <2>1. pc'[w] \in Owning /\ job'[w] = k
      BY <1>4 DEF Owns
    <2>2. pc[w] = "claim"
      BY <1>1, <2>1, OwnerMoves DEF Owns
    <2>3. Claim(w) /\ pc \in [Workers -> Labels]
      BY <1>1, <2>2, ClaimsOnly DEF TypeOK, WorkerTypeOK
    <2>4. pc'[w] \in {"wakeNext", "retrigger"}
      BY <2>3 DEF Claim, Goto
    <2>5. QED BY <2>4 DEF DoomedAt, BeforeOutput, FFmpegRunning, Settling
  <1>5. ASSUME NEW v \in Workers
        PROVE  (Owns(v, k) /\ DoomedAt(v))' <=> (Owns(v, k) /\ DoomedAt(v))
    <2>1. CASE v = w
      BY <2>1, <1>4
    <2>2. CASE v # w
      BY <2>2, <1>2, <1>3 DEF Owns, DoomedAt
    <2>3. QED BY <2>1, <2>2
  <1>6. QED BY <1>5 DEF Doomed

(* A run once doomed is doomed to its end, and its output is not there.    *)
LEMMA OwnDoomStep ==
    ASSUME LedgerInv, NEW w \in Workers, WorkerStep(w),
           pc[w] \in Owning, pc[w] # "end"
    PROVE  /\ DoomedAt(w) => DoomedAt(w)'
           /\ DoomedAt(w)' /\ ~DoomedAt(w) => ~published[job[w]]
  <1> DEFINE Good == /\ DoomedAt(w) => DoomedAt(w)'
                     /\ DoomedAt(w)' /\ ~DoomedAt(w) => ~published[job[w]]
  <1> SUFFICES Good
    OBVIOUS
  <1>a. TypeOK /\ job[w] \in Jobs /\ LedgerOK(w, job[w])
    BY DEF LedgerInv, RunInv, OwnerInv, TypeOK, WorkerTypeOK, LedgersOK
  <1> USE DEF DoomedAt, BeforeOutput, LedgerOK, BeforeVerdict, TypeOK,
        StoreTypeOK, SystemTypeOK, ManagerTypeOK, WorkerTypeOK, Goto, Finish, Idle,
        OnlyWorker, SetStatus, DbFails, UpdateJobStatusFailed, DeleteJobs,
        AddJobReport, Owning, Unregistered, Running, FFmpegRunning, Settling
  <1>1. CASE WakeNext(w)
    BY <1>1, <1>a DEF WakeNext
  <1>2. CASE Begin(w)
    BY <1>2, <1>a DEF Begin, BeginJob
  <1>3. CASE Prepare(w)
    BY <1>3, <1>a DEF Prepare
  <1>p. CASE Probe(w)
    BY <1>p, <1>a DEF Probe
  <1>4. CASE CopyStarts(w)
    BY <1>4, <1>a DEF CopyStarts
  <1>5. CASE CopyEnds(w)
    BY <1>5, <1>a DEF CopyEnds
  <1>6. CASE CheckBeforeStart(w)
    BY <1>6, <1>a DEF CheckBeforeStart
  <1>7. CASE StartFFmpeg(w)
    BY <1>7, <1>a DEF StartFFmpeg
  <1>8. CASE SetCurrentCmd(w)
    BY <1>8, <1>a DEF SetCurrentCmd
  <1>9. CASE CheckAfterStart(w)
    BY <1>9, <1>a DEF CheckAfterStart
  <1>10. CASE FFmpegDone(w)
    BY <1>10, <1>a DEF FFmpegDone
  <1>11. CASE FinishOutput(w)
    BY <1>11, <1>a DEF FinishOutput
  <1>12. CASE ReportSuccess(w)
    BY <1>12, <1>a DEF ReportSuccess
  <1>13. CASE CleanupTemps(w)
    BY <1>13, <1>a DEF CleanupTemps
  <1>14. CASE Settle(w)
    BY <1>14, <1>a DEF Settle, Outcome
  <1>15. CASE CheckInterrupted(w)
    BY <1>15, <1>a DEF CheckInterrupted
  <1>16. CASE MarkFailed(w)
    BY <1>16, <1>a DEF MarkFailed
  <1>17. CASE ReportFailed(w)
    BY <1>17, <1>a DEF ReportFailed
  <1>18. CASE DeleteOwnJob(w)
    BY <1>18, <1>a DEF DeleteOwnJob
  <1> HIDE DEF Good, DoomedAt, BeforeOutput, LedgerOK, BeforeVerdict,
        TypeOK, StoreTypeOK, SystemTypeOK, ManagerTypeOK, WorkerTypeOK, Goto, Finish,
        Idle, OnlyWorker, SetStatus, DbFails, UpdateJobStatusFailed, DeleteJobs,
        AddJobReport
  <1>90. CASE Wake(w) \/ WorkerStops(w) \/ CheckStop(w) \/ CheckAllowed(w)
               \/ LoadPending(w) \/ Claim(w) \/ EndJob(w) \/ Retrigger(w)
    BY <1>90 DEF Wake, WorkerStops, CheckStop, CheckAllowed, LoadPending, Claim,
      EndJob, Retrigger
  <1>91. QED BY <1>1, <1>2, <1>3, <1>p, <1>4, <1>5, <1>6, <1>7, <1>8, <1>9,
        <1>10, <1>11, <1>12, <1>13, <1>14, <1>15, <1>16, <1>17, <1>18, <1>90
        DEF WorkerStep

(* What the lifecycle sees of the job a worker is at work on. *)
LEMMA OwnDooms ==
    ASSUME LedgerInv, NEW w \in Workers, WorkerStep(w), pc[w] # "end",
           NEW j \in Jobs, Owns(w, j)
    PROVE  /\ Doomed(j) <=> DoomedAt(w)
           /\ Doomed(j)' <=> DoomedAt(w)'
           /\ \A k \in Jobs \ {j} : Doomed(k)' <=> Doomed(k)
  <1>1. pc[w] \in Owning /\ j = job[w]
    BY DEF Owns
  <1>2. \A v \in Workers : Owns(v, j) => v = w
    BY DEF LedgerInv, RunInv, OwnerInv, OwnerExclusive
  <1>3. Owns(w, j)' /\ \A v \in Workers : Owns(v, j)' => v = w
    <2>1. TypeOK /\ [Next]_vars /\ OwnerInv
      BY DEF LedgerInv, RunInv, OwnerInv, Next
    <2>2. OwnerExclusive'
      BY <2>1, OwnerExclusiveStep DEF OwnerInv
    <2>3. Serving /\ Serving'
      <3>1. Serving
        BY <1>1 DEF LedgerInv, RunInv, DownOK, Owning, Unregistered, Running,
          FFmpegRunning, Settling
      <3>2. QED BY <3>1, <2>1, WorkersKeep DEF Serving
    <2>4. pc'[w] \in Owning /\ job'[w] = j
      BY <2>1, <2>3, <1>1, OwnerStays
    <2>5. QED BY <2>2, <2>4 DEF OwnerExclusive, Owns
  <1>4. \A k \in Jobs \ {j} : Doomed(k)' <=> Doomed(k)
    BY <1>1, OthersDooms DEF Owns
  <1>5. Doomed(j) <=> DoomedAt(w)
    BY <1>2 DEF Doomed
  <1>6. Doomed(j)' <=> DoomedAt(w)'
    BY <1>3 DEF Doomed
  <1>7. QED BY <1>4, <1>5, <1>6

(* So each worker's step either leaves the lifecycle's states alone or     *)
(* dooms the worker's job.                                                 *)
LEMMA WorkerStates ==
    ASSUME LedgerInv, NEW w \in Workers, WorkerStep(w), pc[w] # "claim", pc[w] # "end"
    PROVE  \/ DoomsKept
           \/ \E j \in Jobs :
                 /\ Owns(w, j)
                 /\ ~published[j]
                 /\ ~Doomed(j) /\ Doomed(j)'
                 /\ \A k \in Jobs \ {j} : Doomed(k)' <=> Doomed(k)
  <1>1. CASE pc[w] \notin Owning
    BY <1>1, OthersDooms DEF DoomsKept, Owns
  <1>2. CASE pc[w] \in Owning
    <2>j. PICK j \in Jobs : j = job[w]
      BY <1>2 DEF LedgerInv, RunInv, OwnerInv, TypeOK, WorkerTypeOK
    <2>1. Owns(w, j)
      BY <1>2, <2>j DEF Owns
    <2>2. /\ Doomed(j) <=> DoomedAt(w)
          /\ Doomed(j)' <=> DoomedAt(w)'
          /\ \A k \in Jobs \ {j} : Doomed(k)' <=> Doomed(k)
      BY <2>1, OwnDooms
    <2>3. /\ DoomedAt(w) => DoomedAt(w)'
          /\ DoomedAt(w)' /\ ~DoomedAt(w) => ~published[j]
      BY <1>2, <2>j, OwnDoomStep
    <2>4. CASE Doomed(j)' <=> Doomed(j)
      BY <2>2, <2>4 DEF DoomsKept
    <2>5. CASE Doomed(j)' /\ ~Doomed(j)
      BY <2>1, <2>2, <2>3, <2>5
    <2>6. QED BY <2>2, <2>3, <2>4, <2>5
  <1>3. QED BY <1>1, <1>2

(* A claim is Take, a lost claim is nothing. *)
LEMMA ClaimImplements ==
    ASSUME LedgerInv, NEW w \in Workers, Claim(w)
    PROVE  LifeStep
  <1>j. PICK j \in Jobs : j = job[w]
    BY DEF LedgerInv, RunInv, OwnerInv, TypeOK, WorkerTypeOK, Claim
  <1>1. TypeOK /\ pc[w] = "claim"
    BY DEF LedgerInv, RunInv, OwnerInv, Claim
  <1>2. pc \in [Workers -> Labels]
    BY <1>1 DEF TypeOK, WorkerTypeOK
  <1>3. LedgersKept
    BY DEF Claim, ClaimJob, SetStatus, DbFails, OnlyWorker, LedgersKept
  <1>4. ASSUME ClaimJob(j), Goto(w, "wakeNext")
        PROVE  LifeStep
    <2>1. row' = [row EXCEPT ![j] = "processing"] /\ row[j] = "pending"
      BY <1>4 DEF ClaimJob, SetStatus
    <2>2. ~Owned(j)
      BY <1>1, <2>1, OwnedRows DEF LedgerInv, RunInv, Taken
    <2>3. Owned(j)'
      BY <1>j, <1>1, <1>2, <1>4 DEF Goto, Owned, Owns, Owning, Unregistered
    <2>4. ASSUME NEW k \in Jobs, k # j
          PROVE  Owned(k)' <=> Owned(k)
      BY <1>j, <1>1, <1>2, <1>4, <2>4 DEF Goto, Owned, Owns
    <2>d. \A k \in Jobs : Doomed(k)' <=> Doomed(k)
      BY <1>1, OthersDooms DEF Owns, Owning, Unregistered, Running, FFmpegRunning,
        Settling, WorkerStep
    <2>5. StateOf(j) = "waiting" /\ StateOf(j)' = "running"
      <3>1. ~Doomed(j)'
        BY <2>2, <2>d DEF Doomed, Owned
      <3>2. QED BY <2>1, <2>2, <2>3, <3>1 DEF StateOf, Shown
    <2>6. ASSUME NEW k \in Jobs \ {j}
          PROVE  StateOf(k)' = StateOf(k)
      <3>1. row'[k] = row[k]
        BY <1>1, <2>1, <2>6 DEF TypeOK, StoreTypeOK
      <3>2. QED BY <2>4, <2>d, <3>1 DEF StateOf, Shown
    <2>7. states' = [states EXCEPT ![j] = "running"]
      BY <1>1, <2>5, <2>6, OneMoves
    <2>8. states[j] = "waiting"
      BY <1>1, <2>5 DEF states
    <2>9. QED BY <1>1, <1>3, <2>7, <2>8 DEF LifeStep, LedgersKept, Life!Next, Life!Take
  <1>5. ASSUME row' = row, Goto(w, "retrigger")
        PROVE  LifeStep
    <2>1. OwnersKept
      BY <1>1, <1>2, <1>5 DEF OwnersKept, Owned, Owns, Goto, Owning, Unregistered,
        Running, FFmpegRunning, Settling
    <2>2. DoomsKept
      BY <1>1, OthersDooms DEF DoomsKept, Owns, Owning, Unregistered, Running,
        FFmpegRunning, Settling, WorkerStep
    <2>3. QED BY <1>3, <1>5, <2>1, <2>2, Unseen
  <1>6. QED BY <1>j, <1>4, <1>5 DEF Claim, DbFails

(* EndJob retires the job: its row can no longer be claimed. *)
LEMMA EndImplements ==
    ASSUME LedgerInv, NEW w \in Workers, EndJob(w)
    PROVE  LifeStep
  <1>j. PICK j \in Jobs : j = job[w]
    BY DEF LedgerInv, RunInv, OwnerInv, TypeOK, WorkerTypeOK, EndJob, Owning, Settling
  <1>1. TypeOK /\ pc[w] = "end" /\ Owns(w, j)
    BY <1>j DEF LedgerInv, RunInv, OwnerInv, EndJob, Owns, Owning, Settling
  <1>2. pc' = [pc EXCEPT ![w] = "retrigger"] /\ job' = job /\ row' = row
    BY DEF EndJob, Goto
  <1>3. LedgersKept
    BY DEF EndJob, LedgersKept
  <1>4. pc \in [Workers -> Labels]
    BY <1>1 DEF TypeOK, WorkerTypeOK
  <1>5. ~Owned(j)'
    <2>1. \A v \in Workers : Owns(v, j) => v = w
      BY <1>1 DEF LedgerInv, RunInv, OwnerInv, OwnerExclusive
    <2>2. pc'[w] \notin Owning
      BY <1>2, <1>4 DEF Owning, Unregistered, Running, FFmpegRunning, Settling
    <2>3. QED BY <1>2, <1>4, <2>1, <2>2 DEF Owned, Owns
  <1>6. ASSUME NEW k \in Jobs, k # j
        PROVE  Owned(k)' <=> Owned(k)
    BY <1>j, <1>2, <1>4, <1>6 DEF Owned, Owns
  <1>d. \A k \in Jobs \ {j} : Doomed(k)' <=> Doomed(k)
    BY <1>1, OthersDooms DEF WorkerStep, Owns
  <1>7. StateOf(j) \in {"running", "doomed"} /\ StateOf(j)' = "over"
    <2>1. Owned(j)
      BY <1>1 DEF Owned
    <2>2. Shown[row[j]] = "over"
      BY <1>1, <2>1, OwnedRows, ShownTaken DEF LedgerInv, RunInv
    <2>3. QED BY <1>2, <1>5, <2>1, <2>2 DEF StateOf, Shown
  <1>8. \A k \in Jobs \ {j} : StateOf(k)' = StateOf(k)
    BY <1>2, <1>6, <1>d DEF StateOf, Shown
  <1>9. /\ {j} \in SUBSET Jobs
        /\ \A k \in {j} : /\ StateOf(k) \in {"waiting", "running", "doomed"}
                           /\ StateOf(k)' = "over"
        /\ \A k \in Jobs \ {j} : StateOf(k)' = StateOf(k)
    BY <1>1, <1>7, <1>8
  <1>10. QED BY <1>3, <1>9, Retired

(* A step of a worker that writes nothing dooms its job or is unseen. *)
LEMMA QuietImplements ==
    ASSUME LedgerInv, NEW w \in Workers, WorkerStep(w), LedgersKept,
           pc[w] # "claim", pc[w] # "end"
    PROVE  LifeStep
  <1>1. TypeOK /\ RunInv
    BY DEF LedgerInv, RunInv, OwnerInv
  <1>2. OwnersKept
    BY <1>1, WorkerKeepsOwners
  <1>3. \A j \in Jobs : Owned(j) \/ Shown[row'[j]] = Shown[row[j]]
    BY <1>1, WorkerKeepsRows DEF Owned
  <1>4. CASE DoomsKept
    BY <1>2, <1>3, <1>4, Unseen
  <1>5. ASSUME NEW j \in Jobs, Owns(w, j), ~published[j], ~Doomed(j), Doomed(j)',
               \A k \in Jobs \ {j} : Doomed(k)' <=> Doomed(k)
        PROVE  LifeStep
    <2>1. Owned(j) /\ Owned(j)'
      BY <1>2, <1>5 DEF OwnersKept, Owned
    <2>3. StateOf(j) = "running" /\ StateOf(j)' = "doomed"
      BY <1>5, <2>1 DEF StateOf
    <2>4. \A k \in Jobs \ {j} : StateOf(k)' = StateOf(k)
      BY <1>2, <1>3, <1>5 DEF OwnersKept, StateOf, Shown
    <2>5. states' = [states EXCEPT ![j] = "doomed"] /\ states[j] = "running"
      BY <2>3, <2>4, OneMoves DEF states
    <2>6. QED BY <1>5, <2>5 DEF LifeStep, LedgersKept, Life!Next, Life!Doom
  <1> HIDE DEF LifeStep
  <1>6. QED BY <1>4, <1>5, WorkerStates

(* The run publishes, or writes a line of its history. *)
LEMMA RunImplements ==
    ASSUME LedgerInv, NEW w \in Workers,
           Probe(w) \/ FinishOutput(w) \/ ReportSuccess(w) \/ ReportFailed(w)
    PROVE  LifeStep
  <1>1. pc[w] \in Owning /\ pc[w] \notin {"claim", "end"} /\ WorkerStep(w)
    BY DEF Probe, FinishOutput, ReportSuccess, ReportFailed, WorkerStep, Owning,
      Running, Settling
  <1>j. PICK j \in Jobs : j = job[w]
    BY <1>1 DEF LedgerInv, RunInv, OwnerInv, TypeOK, WorkerTypeOK
  <1> DEFINE Recorded(v) == /\ reports' = [reports EXCEPT ![j] = @ \cup {v}]
                            /\ published' = published
             Published == /\ published' = [published EXCEPT ![j] = TRUE]
                          /\ reports' = reports
  <1>2. TypeOK /\ LedgerOK(w, j)
    BY <1>1, <1>j DEF LedgerInv, LedgersOK, RunInv, OwnerInv
  <1>t. pc \in [Workers -> Labels] /\ published \in [Jobs -> BOOLEAN]
    BY <1>2, Zenon DEF TypeOK, WorkerTypeOK, SystemTypeOK
  <1>3. row' = row
    BY DEF Probe, FinishOutput, ReportSuccess, ReportFailed, AddJobReport, DbFails,
      OnlyWorker
  <1>4. OwnersKept
    BY <1>1, WorkerKeepsOwners DEF LedgerInv
  <1>o. Owns(w, j) /\ Owned(j) /\ Owned(j)'
    BY <1>1, <1>j, <1>4 DEF Owned, Owns, OwnersKept
  <1>m. /\ Doomed(j) <=> DoomedAt(w)
        /\ Doomed(j)' <=> DoomedAt(w)'
        /\ \A k \in Jobs \ {j} : Doomed(k)' <=> Doomed(k)
    BY <1>1, <1>o, OwnDooms
  <1>5. states[j] = IF DoomedAt(w) THEN "doomed" ELSE "running"
    BY <1>o, <1>m DEF states, StateOf
  <1>s. (DoomedAt(w)' <=> DoomedAt(w)) => states' = states
    BY <1>3, <1>4, <1>m, SameStates DEF DoomsKept
  <1>6. ASSUME NEW v \in {"success", "failed"}, Recorded(v),
               DoomedAt(w)' <=> DoomedAt(w), v = "success" => published[j]
        PROVE  LifeStep
    <2>1. states' = states
      BY <1>6, <1>s
    <2>2. Life!Record(j)
      BY <1>5, <1>6, <2>1 DEF Life!Record
    <2>3. QED BY <2>2 DEF LifeStep, Life!Next
  <1>k. ASSUME Skipped(j), ~published[j], DoomedAt(w)'
        PROVE  LifeStep
    <2>1. StateOf(j)' = "doomed"
      BY <1>k, <1>o, <1>m DEF StateOf
    <2>2. \A k \in Jobs \ {j} : StateOf(k)' = StateOf(k)
      BY <1>3, <1>4, <1>m DEF OwnersKept, StateOf, Shown
    <2>3. states' = [states EXCEPT ![j] = "doomed"]
      BY <2>1, <2>2, OneMoves
    <2>4. Life!Skip(j)
      BY <1>5, <1>k, <2>3 DEF Life!Skip, Skipped
    <2>5. QED BY <2>4 DEF LifeStep, Life!Next
  <1>7. ASSUME Published, ~published[j], ~DoomedAt(w), ~DoomedAt(w)'
        PROVE  LifeStep
    <2>1. states' = states
      BY <1>7, <1>s
    <2>2. Life!Replace(j)
      BY <1>5, <1>7, <2>1 DEF Life!Replace
    <2>3. QED BY <2>2 DEF LifeStep, Life!Next
  <1>8. ASSUME LedgersKept
        PROVE  LifeStep
    BY <1>1, <1>3, <1>4, <1>8, QuietImplements
  <1> HIDE DEF LifeStep
  <1>9. CASE Probe(w)
    <2>1. ~published[j]
      BY <1>2, <1>9 DEF LedgerOK, BeforeVerdict, Probe
    <2>2. \/ LedgersKept
          \/ Skipped(j) /\ job'[w] = j /\ pc'[w] = "return"
      BY <1>9, <1>j, <1>t DEF Probe, AddJobReport, DbFails, LedgersKept, Skipped,
        Finish, OnlyWorker
    <2>3. Skipped(j) /\ job'[w] = j /\ pc'[w] = "return" => DoomedAt(w)'
      BY <2>1 DEF DoomedAt, Skipped
    <2>4. QED BY <1>k, <1>8, <2>1, <2>2, <2>3
  <1>10. CASE FinishOutput(w)
    <2>1. ~published[j]
      BY <1>2, <1>10 DEF LedgerOK, BeforeVerdict, FinishOutput
    <2>2. \/ LedgersKept
          \/ Skipped(j) /\ job'[w] = j /\ pc'[w] = "return"
          \/ Published /\ pc'[w] = "report"
      BY <1>10, <1>j, <1>t DEF FinishOutput, AddJobReport, DbFails, LedgersKept,
        Skipped, Finish, Goto
    <2>3. Skipped(j) /\ job'[w] = j /\ pc'[w] = "return" => DoomedAt(w)'
      BY <2>1 DEF DoomedAt, Skipped
    <2>4. ~DoomedAt(w) /\ (pc'[w] = "report" => ~DoomedAt(w)')
      BY <1>10 DEF FinishOutput, DoomedAt, BeforeOutput, FFmpegRunning, Settling
    <2>5. QED BY <1>k, <1>7, <1>8, <2>1, <2>2, <2>3, <2>4
  <1>11. CASE ReportSuccess(w)
    <2>1. published[j] /\ pc[w] = "report"
      BY <1>2, <1>11 DEF LedgerOK, ReportSuccess
    <2>2. \/ LedgersKept
          \/ Recorded("success") /\ job'[w] = j
      BY <1>11, <1>j DEF ReportSuccess, AddJobReport, DbFails, LedgersKept, OnlyWorker,
        Finish
    <2>3. Recorded("success") /\ job'[w] = j => ~DoomedAt(w) /\ ~DoomedAt(w)'
      <3>1. pc'[w] = "return"
        BY <1>11, <1>t DEF ReportSuccess, Finish
      <3>2. QED BY <1>j, <2>1, <3>1 DEF DoomedAt, BeforeOutput, FFmpegRunning, Settling
    <2>4. QED BY <1>6, <1>8, <2>1, <2>2, <2>3
  <1>12. CASE ReportFailed(w)
    <2>1. LedgersKept \/ Recorded("failed")
      BY <1>12, <1>j DEF ReportFailed, AddJobReport, DbFails, LedgersKept, OnlyWorker
    <2>2. /\ pc[w] \in {"reportFailed", "reportInterrupted"} /\ pc'[w] = "delete"
          /\ job' = job /\ published' = published
      BY <1>12, <1>t DEF ReportFailed, Goto, OnlyWorker
    <2>3. DoomedAt(w)' <=> DoomedAt(w)
      BY <2>2 DEF DoomedAt, BeforeOutput, FFmpegRunning, Settling
    <2>4. QED BY <1>6, <1>8, <2>1, <2>3
  <1>13. QED BY <1>9, <1>10, <1>11, <1>12

LEMMA WorkerImplements ==
    ASSUME LedgerInv, NEW w \in Workers, WorkerStep(w)
    PROVE  LifeStep
  <1>1. CASE pc[w] = "claim"
    <2>1. Claim(w)
      BY <1>1, ClaimsOnly
    <2>2. QED BY <2>1, ClaimImplements
  <1>2. CASE pc[w] = "end"
    <2>1. EndJob(w)
      BY <1>2 DEF WorkerStep, Wake, WorkerStops, CheckStop, CheckAllowed, LoadPending,
        Claim, WakeNext, Begin, Prepare, Probe, CopyStarts, CopyEnds, CheckBeforeStart,
        StartFFmpeg, SetCurrentCmd, CheckAfterStart, FFmpegDone, FinishOutput,
        ReportSuccess, CleanupTemps, Settle, CheckInterrupted, MarkFailed,
        ReportFailed, DeleteOwnJob, Retrigger
    <2>2. QED BY <2>1, EndImplements
  <1>3. CASE Probe(w) \/ FinishOutput(w) \/ ReportSuccess(w) \/ ReportFailed(w)
    BY <1>3, RunImplements
  <1>4. CASE /\ pc[w] \notin {"claim", "end"}
             /\ ~(Probe(w) \/ FinishOutput(w) \/ ReportSuccess(w) \/ ReportFailed(w))
    <2>1. TypeOK
      BY DEF LedgerInv, RunInv, OwnerInv
    <2>2. LedgersKept
      BY <1>4, <2>1, WorkerKeepsLedgers
    <2>3. QED BY <1>4, <2>2, QuietImplements
  <1>5. QED BY <1>1, <1>2, <1>3, <1>4

-----------------------------------------------------------------------------
(* Requests, shutdown, crash and start. *)

LEMMA AddImplements ==
    ASSUME LedgerInv, NEW j \in Jobs, NEW p \in {0, RequeuePriority}, AddJob(j, p)
    PROVE  LifeStep
  <1>1. TypeOK /\ LedgersKept
    BY DEF LedgerInv, RunInv, OwnerInv, AddJob, InsertJob, OnlyStore, LedgersKept
  <1>2. OwnersKept /\ DoomsKept
    BY RunsAside DEF AddJob, OnlyStore
  <1>3. row[j] = "new" /\ row' = [row EXCEPT ![j] = "pending"]
    BY DEF AddJob, InsertJob
  <1>4. ~Owned(j)
    BY <1>3, OwnedRows DEF LedgerInv, RunInv, Taken
  <1>5. StateOf(j) = "absent" /\ StateOf(j)' = "waiting"
    BY <1>1, <1>2, <1>3, <1>4 DEF OwnersKept, StateOf, Shown, TypeOK, StoreTypeOK
  <1>6. \A k \in Jobs \ {j} : StateOf(k)' = StateOf(k)
    BY <1>1, <1>2, <1>3 DEF OwnersKept, DoomsKept, StateOf, Shown, TypeOK, StoreTypeOK
  <1>7. states' = [states EXCEPT ![j] = "waiting"] /\ states[j] = "absent"
    BY <1>5, <1>6, OneMoves DEF states
  <1>8. QED BY <1>1, <1>7 DEF LifeStep, LedgersKept, Life!Next, Life!Submit

(* Of the rows a DELETE removes, those of waiting jobs end them. *)
LEMMA DeleteImplements ==
    ASSUME LedgerInv, NEW S \in SUBSET Jobs, DeleteJobs(S),
           UNCHANGED <<pc, job, erred, cancelled, published>>
    PROVE  LifeStep
  <1> DEFINE W == {j \in S : row[j] = "pending"}
  <1>1. TypeOK /\ OwnerInv
    BY DEF LedgerInv, RunInv, OwnerInv
  <1>2. LedgersKept
    BY DEF DeleteJobs, LedgersKept
  <1>3. \A j \in Jobs : (Owned(j)' <=> Owned(j)) /\ (Doomed(j)' <=> Doomed(j))
    BY RunsAside DEF OwnersKept, DoomsKept
  <1>4. \A j \in Jobs : row'[j] = IF j \in S /\ row[j] \in Statuses THEN "gone" ELSE row[j]
    BY DEF DeleteJobs
  <1>5. PICK T \in SUBSET Jobs : T = W
    OBVIOUS
  <1>6. ASSUME NEW j \in T
        PROVE  StateOf(j) = "waiting" /\ StateOf(j)' = "over"
    <2>1. j \in Jobs /\ j \in S /\ row[j] = "pending"
      BY <1>5
    <2>2. ~Owned(j)
      BY <1>1, <2>1, OwnedRows DEF Taken
    <2>3. row'[j] = "gone"
      BY <1>4, <2>1 DEF Statuses
    <2>4. QED BY <1>3, <2>1, <2>2, <2>3 DEF StateOf, Shown
  <1>7. ASSUME NEW j \in Jobs \ T
        PROVE  StateOf(j)' = StateOf(j)
    <2>1. row'[j] = row[j] \/ (row'[j] = "gone" /\ row[j] \in {"processing", "failed"})
      BY <1>4, <1>5 DEF Statuses
    <2>2. QED BY <1>3, <2>1 DEF StateOf, Shown
  <1>8. QED BY <1>2, <1>6, <1>7, Retired

(* A dead process ends the jobs it was running. *)
LEMMA DeathImplements ==
    ASSUME LedgerInv, ProcessDies
    PROVE  LifeStep
  <1>1. TypeOK /\ OwnerInv
    BY DEF LedgerInv, RunInv, OwnerInv
  <1>2. LedgersKept /\ row' = row
    BY DEF ProcessDies, LedgersKept
  <1>3. \A j \in Jobs : ~Owned(j)'
    BY DEF ProcessDies, Owned, Owns, Owning, Unregistered, Running, FFmpegRunning,
      Settling
  <1>4. PICK T \in SUBSET Jobs : T = {j \in Jobs : Owned(j)}
    OBVIOUS
  <1>5. ASSUME NEW j \in T
        PROVE  StateOf(j) \in {"running", "doomed"} /\ StateOf(j)' = "over"
    <2>1. j \in Jobs /\ Owned(j)
      BY <1>4
    <2>2. Shown[row[j]] = "over"
      BY <1>1, <2>1, OwnedRows, ShownTaken
    <2>3. QED BY <1>2, <1>3, <2>1, <2>2 DEF StateOf, Shown
  <1>6. ASSUME NEW j \in Jobs \ T
        PROVE  StateOf(j)' = StateOf(j)
    BY <1>2, <1>3, <1>4 DEF StateOf, Shown
  <1>7. QED BY <1>2, <1>5, <1>6, Retired

LEMMA MarkImplements ==
    ASSUME LedgerInv, StartMarks
    PROVE  LifeStep
  <1>1. LedgersKept
    BY DEF StartMarks, MarkProcessingAsFailed, DbFails, LedgersKept
  <1>2. OwnersKept /\ DoomsKept
    BY RunsAside DEF StartMarks
  <1>3. \A j \in Jobs : row'[j] = row[j] \/ (row[j] = "processing" /\ row'[j] = "failed")
    BY DEF StartMarks, MarkProcessingAsFailed, DbFails
  <1>4. \A j \in Jobs : Shown[row'[j]] = Shown[row[j]]
    BY <1>3 DEF Shown
  <1>5. QED BY <1>1, <1>2, <1>4, Unseen

LEMMA StartImplements ==
    ASSUME LedgerInv, StartWorkers
    PROVE  LifeStep
  <1>1. row' = row /\ LedgersKept
    BY DEF StartWorkers, OnlyStarts, LoadSchedule, DbFails, LedgersKept
  <1>2. \A w \in Workers : pc[w] = "down" /\ pc'[w] = "idle"
    BY DEF StartWorkers, OnlyStarts, LedgerInv, RunInv, DownOK, Serving
  <1>3. OwnersKept
    BY <1>2 DEF OwnersKept, Owned, Owns, Owning, Unregistered, Running,
      FFmpegRunning, Settling
  <1>4. DoomsKept
    BY <1>2 DEF DoomsKept, Doomed, DoomedAt, BeforeOutput, FFmpegRunning, Settling
  <1>5. QED BY <1>1, <1>3, <1>4, Unseen

(* A request, or Stop, cancels the context of a run: that dooms it, unless *)
(* its output is there or about to be.                                     *)
LEMMA CancelImplements ==
    ASSUME LedgerInv, NEW s \in Signallers, CancelContext(s)
    PROVE  LifeStep
  <1> DEFINE j == sigJob[s]
  <1>1. TypeOK /\ OwnerExclusive
    BY DEF LedgerInv, RunInv, OwnerInv
  <1>2. UNCHANGED <<pc, job, erred, row, published, reports>>
    BY DEF CancelContext
  <1>3. OwnersKept /\ LedgersKept
    BY <1>2 DEF OwnersKept, LedgersKept, Owned, Owns
  <1>4. cancelled' = [cancelled EXCEPT ![j] = @ \/ j \in active]
    BY DEF CancelContext
  <1>5. ASSUME NEW k \in Jobs
        PROVE  cancelled[k] => cancelled'[k]
    BY <1>1, <1>4 DEF TypeOK, ManagerTypeOK
  <1>6. ASSUME NEW k \in Jobs, k # j
        PROVE  cancelled'[k] <=> cancelled[k]
    BY <1>1, <1>4, <1>6 DEF TypeOK, ManagerTypeOK
  <1>7. ASSUME NEW k \in Jobs
        PROVE  /\ Doomed(k) => Doomed(k)'
               /\ k # j => (Doomed(k)' <=> Doomed(k))
    BY <1>2, <1>5, <1>6 DEF Doomed, DoomedAt, Owns
  <1>8. CASE DoomsKept
    BY <1>2, <1>3, <1>8, Unseen
  <1>9. CASE ~DoomsKept
    <2>1. PICK i \in Jobs : i = j /\ Doomed(i)' /\ ~Doomed(i)
      BY <1>7, <1>9 DEF DoomsKept
    <2>2. PICK w \in Workers : Owns(w, i)' /\ DoomedAt(w)'
      BY <2>1 DEF Doomed
    <2>3. Owns(w, i)
      BY <1>2, <2>2 DEF Owns
    <2>4. ~published[i]
      <3>1. LedgerOK(w, i)
        BY <2>3 DEF LedgerInv, LedgersOK, Owns
      <3>2. QED BY <1>2, <2>2, <2>3, <3>1 DEF DoomedAt, Owns, LedgerOK, BeforeVerdict,
              BeforeOutput
    <2>5. Owned(i) /\ Owned(i)'
      BY <1>3, <2>3 DEF OwnersKept, Owned
    <2>6. StateOf(i) = "running" /\ StateOf(i)' = "doomed"
      BY <2>1, <2>5 DEF StateOf
    <2>7. \A k \in Jobs \ {i} : StateOf(k)' = StateOf(k)
      BY <1>2, <1>3, <1>7, <2>1 DEF OwnersKept, StateOf, Shown
    <2>8. states' = [states EXCEPT ![i] = "doomed"] /\ states[i] = "running"
      BY <2>6, <2>7, OneMoves DEF states
    <2>9. QED BY <1>3, <2>4, <2>8 DEF LifeStep, LedgersKept, Life!Next, Life!Doom
  <1>10. QED BY <1>8, <1>9

(* What changes neither rows, runs, publications nor history. *)
LEMMA AsideImplements ==
    ASSUME UNCHANGED <<pc, job, erred, cancelled, row, published, reports>>
    PROVE  LifeStep
  <1>1. OwnersKept /\ DoomsKept /\ LedgersKept
    BY RunsAside DEF LedgersKept
  <1>2. QED BY <1>1, Unseen DEF Shown

LEMMA StepImplements ==
    ASSUME LedgerInv, [Next]_vars
    PROVE  LifeStep
  <1>1. ASSUME NEW w \in Workers, WorkerStep(w) PROVE LifeStep
    BY <1>1, WorkerImplements
  <1>2. ASSUME NEW j \in Jobs, NEW p \in {0, RequeuePriority}, AddJob(j, p)
        PROVE LifeStep
    BY <1>2, AddImplements
  <1>3. ASSUME NEW S \in SUBSET Jobs, PurgeFolder(S) PROVE LifeStep
    BY <1>3, DeleteImplements DEF PurgeFolder, OnlyStore
  <1>4. ASSUME NEW c \in Cancellers, CancelDelete(c) PROVE LifeStep
    <2>2. CASE DeleteJobs({sigJob[c]})
      <3>1. PICK S \in SUBSET Jobs : S = {sigJob[c]} \cap Jobs
        OBVIOUS
      <3>2. DeleteJobs(S)
        BY <2>2, <3>1 DEF DeleteJobs
      <3>3. QED BY <1>4, <3>2, DeleteImplements DEF CancelDelete
    <2>3. CASE DbFails
      BY <1>4, <2>3, AsideImplements DEF CancelDelete, DbFails
    <2>4. QED BY <1>4, <2>2, <2>3 DEF CancelDelete
  <1>5. CASE Crash \/ Exit
    BY <1>5, DeathImplements DEF Crash, Exit
  <1>6. CASE StartMarks
    BY <1>6, MarkImplements
  <1>7. CASE StartWorkers
    BY <1>7, StartImplements
  <1>8. ASSUME NEW j \in Jobs, Bump(j) PROVE LifeStep
    BY <1>8, AsideImplements DEF Bump, BumpJobPriority, OnlyStore
  <1>9. ASSUME NEW b \in BOOLEAN, PauseRow(b) PROVE LifeStep
    BY <1>9, AsideImplements DEF PauseRow, SetPausedRow, DbFails
  <1>10. CASE UNCHANGED <<pc, job, erred, cancelled, row, published, reports>>
    BY <1>10, AsideImplements
  <1>12. ASSUME NEW s \in Signallers, CancelContext(s) PROVE LifeStep
    BY <1>12, CancelImplements
  <1> HIDE DEF LifeStep
  <1>11. QED BY <1>1, <1>2, <1>3, <1>4, <1>5, <1>6, <1>7, <1>8, <1>9, <1>10, <1>12,
        ZenonT(30)
        DEF SignalStep, Environment, Progress, Stopping, Next, vars,
          Interrupt, Escalate, FFmpegExits, EscalateKill,
          TriggerAdded, StopSignals, CancelLookup, PauseField, ResumeTrigger,
          ScheduleTrigger, StopBegins, StopCloses, StopDrained, StopTimesOut,
          StopGivesUp, KillAll

-----------------------------------------------------------------------------
(* The encode queue implements the lifecycle of a job: a job is taken      *)
(* once, replaces its file at most once and only as long as a worker owns  *)
(* it, and never comes back from being over, whatever the number of        *)
(* workers, cancels, purges, crashes, restarts and failed statements.      *)
THEOREM Refinement == Spec => ImplementsLifecycle
  <1>1. Init => Life!Init
    <2> SUFFICES ASSUME Init PROVE Life!Init
      OBVIOUS
    <2>1. \A j \in Jobs : StateOf(j) = "absent"
      BY DEF Init, StoreInit, StateOf, Owned, Owns, Shown, Owning, Unregistered,
        Running, FFmpegRunning, Settling
    <2>2. states = [j \in Jobs |-> "absent"]
      BY <2>1 DEF states
    <2>3. QED BY <2>2 DEF Init, StoreInit, Life!Init
  <1>2. LedgerInv /\ [Next]_vars => [Life!Next]_(Life!vars)
    BY StepImplements DEF LifeStep
  <1>3. QED BY <1>1, <1>2, LedgerInvariant, PTL DEF Spec, ImplementsLifecycle, Life!Spec

-----------------------------------------------------------------------------
(* What follows for the queue from what holds of the lifecycle.            *)

LEMMA LifeTyped ==
    ASSUME TypeOK
    PROVE  /\ states = [j \in Jobs |-> states[j]]
           /\ published \in [Jobs -> BOOLEAN]
           /\ reports \in [Jobs -> SUBSET Verdicts]
  <1>1. states = [j \in Jobs |-> states[j]]
    BY DEF states
  <1>2. published \in [Jobs -> BOOLEAN]
    BY Zenon DEF TypeOK, SystemTypeOK
  <1>3. reports \in [Jobs -> SUBSET Verdicts]
    BY DEF TypeOK, StoreTypeOK
  <1>4. QED BY <1>1, <1>2, <1>3

LEMMA TruthfulStep ==
    ASSUME TypeOK, Life!Truthful, LifeStep
    PROVE  Life!Truthful'
  <1> USE LifeTyped DEF Life!Truthful
  <1>1. ASSUME NEW j \in Jobs, Life!Record(j) PROVE Life!Truthful'
    BY <1>1 DEF Life!Record
  <1>2. ASSUME NEW j \in Jobs, Life!Replace(j) PROVE Life!Truthful'
    BY <1>2 DEF Life!Replace
  <1>3. ASSUME NEW j \in Jobs, Life!Skip(j) PROVE Life!Truthful'
    BY <1>3 DEF Life!Skip
  <1>4. CASE UNCHANGED <<published, reports>>
    BY <1>4
  <1>5. QED BY <1>1, <1>2, <1>3, <1>4, Zenon DEF LifeStep, Life!Next, Life!vars, Life!Submit,
        Life!Take, Life!Doom, Life!Retire

(* A success in the history is one, also when statements have failed and   *)
(* runs were cut short: HistoryTrue says more, but for a queue without     *)
(* such failures.                                                          *)
THEOREM SuccessIsOne == Spec => []Life!Truthful
  <1>1. Init => Life!Truthful
    BY DEF Init, StoreInit, Life!Truthful
  <1>2. LedgerInv => TypeOK
    BY DEF LedgerInv, RunInv, OwnerInv
  <1>3. LedgerInv /\ [Next]_vars => LifeStep
    BY StepImplements
  <1>4. QED BY <1>1, <1>2, <1>3, TruthfulStep, LedgerInvariant, PTL DEF Spec

(* A job that is over, with its row gone, failed or left behind by a dead  *)
(* process, is never run, published or told of again; and a job whose      *)
(* cancel came in time, or that has failed or been skipped, is never       *)
(* published.                                                              *)
THEOREM EndedForGood == Spec => Life!OverForGood /\ Life!DoomedUntouched
  <1> DEFINE Kept(j) ==
               /\ states[j] = "over" =>
                     states'[j] = "over" /\ published'[j] = published[j]
                       /\ reports'[j] = reports[j]
               /\ states[j] = "doomed" =>
                     states'[j] \in {"doomed", "over"} /\ published'[j] = published[j]
  <1>1. ASSUME TypeOK, LifeStep, NEW j \in Jobs
        PROVE  Kept(j)
    <2> USE <1>1, LifeTyped
    <2>1. ASSUME NEW k \in Jobs, Life!Submit(k) PROVE Kept(j)
      BY <2>1 DEF Life!Submit
    <2>2. ASSUME NEW k \in Jobs, Life!Take(k) PROVE Kept(j)
      BY <2>2 DEF Life!Take
    <2>3. ASSUME NEW k \in Jobs, Life!Replace(k) PROVE Kept(j)
      BY <2>3 DEF Life!Replace
    <2>4. ASSUME NEW k \in Jobs, Life!Doom(k) PROVE Kept(j)
      BY <2>4 DEF Life!Doom
    <2>5. ASSUME NEW k \in Jobs, Life!Record(k) PROVE Kept(j)
      BY <2>5 DEF Life!Record
    <2>s. ASSUME NEW k \in Jobs, Life!Skip(k) PROVE Kept(j)
      BY <2>s DEF Life!Skip
    <2>6. ASSUME NEW S, Life!Retire(S) PROVE Kept(j)
      BY <2>6 DEF Life!Retire
    <2>7. CASE UNCHANGED Life!vars
      BY <2>7 DEF Life!vars
    <2> HIDE DEF Kept
    <2>8. QED BY <1>1, <2>1, <2>2, <2>3, <2>4, <2>5, <2>s, <2>6, <2>7, Zenon DEF LifeStep, Life!Next
  <1>2. LedgerInv /\ [Next]_vars
          => /\ [\A j \in Jobs : states[j] = "over" =>
                     /\ states'[j] = "over"
                     /\ published'[j] = published[j] /\ reports'[j] = reports[j]]_(Life!vars)
             /\ [\A j \in Jobs : states[j] = "doomed" =>
                     /\ states'[j] \in {"doomed", "over"}
                     /\ published'[j] = published[j]]_(Life!vars)
    BY <1>1, StepImplements DEF LedgerInv, RunInv, OwnerInv
  <1>3. QED BY <1>2, LedgerInvariant, PTL DEF Spec, Life!OverForGood, Life!DoomedUntouched
=============================================================================
