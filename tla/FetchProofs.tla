----------------------------- MODULE FetchProofs -----------------------------
(***************************************************************************)
(* DownloadQueue implements FetchLifecycle, for every number of downloads, *)
(* workers, cancel requests, crashes and failed statements: for each step  *)
(* of the downloader, the step of the lifecycle it takes.                  *)
(***************************************************************************)
EXTENDS DownloadLifecycle, DownloadProofs

USE DEF tableVars, chanVars, runVars, workerVars, requestVars, stopVars

(* What the lifecycle sees of a step. *)
LifeStep == [Life!Next]_(Life!vars)

(* Only a run that was asked to encode gets as far as handing over. *)
Handing == {"findFolder", "checkKnown", "enqueue"}

AskedToEncode == \A w \in Workers : pc[w] \in Handing => encodes[job[w]]

FetchInv == OwnerInv /\ AskedToEncode

LedgersKept == UNCHANGED <<encodes, known>>

-----------------------------------------------------------------------------
(* The invariant. *)

LEMMA AskedStep ==
    ASSUME FetchInv, [Next]_vars
    PROVE  AskedToEncode'
  <1> USE DEF FetchInv, OwnerInv, TypeOK, AskedToEncode, Handing, Goto, Idle
  <1>1. ASSUME NEW w \in Workers, Wake(w) PROVE AskedToEncode'
    BY <1>1 DEF Wake
  <1>2. ASSUME NEW w \in Workers, CheckStop(w) PROVE AskedToEncode'
    BY <1>2 DEF CheckStop, OnlyWorker
  <1>3. ASSUME NEW w \in Workers, LoadPending(w) PROVE AskedToEncode'
    BY <1>3 DEF LoadPending, OnlyWorker, DbFails, Pending
  <1>4. ASSUME NEW w \in Workers, Claim(w) PROVE AskedToEncode'
    BY <1>4 DEF Claim, OnlyWorker, SetRow, DbFails, ClaimDownloadJob
  <1>5. ASSUME NEW w \in Workers, Yield(w) PROVE AskedToEncode'
    BY <1>5 DEF Yield
  <1>6. ASSUME NEW w \in Workers, Register(w) PROVE AskedToEncode'
    BY <1>6 DEF Register
  <1>7. ASSUME NEW w \in Workers, StartYtdlp(w) PROVE AskedToEncode'
    BY <1>7 DEF StartYtdlp
  <1>8. ASSUME NEW w \in Workers, Reap(w) PROVE AskedToEncode'
    BY <1>8 DEF Reap
  <1>9. ASSUME NEW w \in Workers, TellError(w) PROVE AskedToEncode'
    BY <1>9 DEF TellError, OnlyWorker
  <1>10. ASSUME NEW w \in Workers, MarkCancelled(w) PROVE AskedToEncode'
    BY <1>10 DEF MarkCancelled, OnlyWorker, SetRow, DbFails, CancelDownloadJob
  <1>11. ASSUME NEW w \in Workers, MarkFailed(w) PROVE AskedToEncode'
    BY <1>11 DEF MarkFailed, OnlyWorker, SetRow, DbFails, FailDownloadJob
  <1>12. ASSUME NEW w \in Workers, Complete(w) PROVE AskedToEncode'
    <2>1. encodes' = encodes /\ job' = job
      BY <1>12 DEF Complete, OnlyWorker, SetRow, DbFails, CompleteDownloadJob
    <2>2. pc'[w] \in Handing => encodes[job[w]]
      BY <1>12, Zenon DEF Complete
    <2>3. \A v \in Workers : v # w => pc'[v] = pc[v]
      BY <1>12 DEF Complete
    <2>4. QED BY <2>1, <2>2, <2>3
  <1>13. ASSUME NEW w \in Workers, FindFolder(w) PROVE AskedToEncode'
    BY <1>13 DEF FindFolder, OnlyWorker, DbFails
  <1>14. ASSUME NEW w \in Workers, CheckKnown(w) PROVE AskedToEncode'
    BY <1>14 DEF CheckKnown, OnlyWorker, DbFails
  <1>15. ASSUME NEW w \in Workers, Enqueue(w) PROVE AskedToEncode'
    BY <1>15 DEF Enqueue, OnlyWorker, DbFails, AddEncodeJob
  <1>16. ASSUME NEW w \in Workers, Deregister(w) PROVE AskedToEncode'
    BY <1>16 DEF Deregister
  <1>17. ASSUME NEW w \in Workers, Again(w) PROVE AskedToEncode'
    BY <1>17 DEF Again
  <1>18. ASSUME NEW w \in Workers, WorkerStops(w) PROVE AskedToEncode'
    BY <1>18 DEF WorkerStops, OnlyWorker
  <1>19. ASSUME NEW d \in Downloads, NEW b \in BOOLEAN, AddDownload(d, b)
         PROVE AskedToEncode'
    <2>1. row[d] = "new" /\ UNCHANGED <<pc, job>>
      BY <1>19 DEF AddDownload
    <2>2. encodes' = [encodes EXCEPT ![d] = b]
      BY <1>19 DEF AddDownload
    <2>3. ASSUME NEW w \in Workers, pc[w] \in Handing
          PROVE  job[w] # d /\ job[w] \in Downloads
      BY <2>1, <2>3 DEF Taken, Owns, Owning, Registered
    <2>4. QED BY <2>1, <2>2, <2>3
  <1>20. CASE Crash \/ Exit
    BY <1>20 DEF Crash, Exit, ProcessDies
  <1>21. CASE StartWorkers
    BY <1>21 DEF StartWorkers
  <1>22. CASE UNCHANGED <<encodes, pc, job>>
    BY <1>22
  <1> HIDE DEF FetchInv, OwnerInv, TypeOK, AskedToEncode, Handing, Goto, Idle
  <1>30. QED BY <1>1, <1>2, <1>3, <1>4, <1>5, <1>6, <1>7, <1>8, <1>9, <1>10,
    <1>11, <1>12, <1>13, <1>14, <1>15, <1>16, <1>17, <1>18, <1>19, <1>20,
    <1>21, <1>22, ZenonT(30)
    DEF Next, WorkerStep, Environment, Lifetime, vars, TriggerAdded,
    CancelLookup, CancelRow, CancelDownloadJob, SetRow, DbFails, YtdlpEnds,
    WatcherQueues, AddEncodeJob, RemoveFolder, StopBegins, StopCancels,
    StopCloses, StopDrained, StopGivesUp, StartMarks, MarkDownloadingAsFailed

LEMMA FetchInvariant == Spec => []FetchInv
  <1>1. Init => AskedToEncode
    BY DEF Init, AskedToEncode, Handing
  <1>2. FetchInv /\ [Next]_vars => AskedToEncode'
    BY AskedStep
  <1>3. QED BY <1>1, <1>2, OwnerInvariant, PTL DEF Spec, FetchInv

LEMMA RunnersAfter ==
    ASSUME FetchInv, [Next]_vars
    PROVE  OneRunner'
  BY OwnersStep DEF FetchInv, OwnerInv

-----------------------------------------------------------------------------
(* The mapping. *)

LEMMA PhaseOfRun ==
    ASSUME OneRunner, NEW w \in Workers, NEW d \in Downloads, Owns(w, d)
    PROVE  PhaseOf(d) = PhaseAt(pc[w], cancelled[d])
  <1>1. Runner(d) \in Workers /\ Owns(Runner(d), d)
    BY DEF Runner
  <1>2. Runner(d) = w
    BY <1>1 DEF OneRunner
  <1>3. QED BY <1>2 DEF PhaseOf

LEMMA PhaseOfRunAfter ==
    ASSUME OneRunner', NEW w \in Workers, NEW d \in Downloads, Owns(w, d)'
    PROVE  PhaseOf(d)' = PhaseAt(pc'[w], cancelled'[d])
  <1>1. Runner(d)' \in Workers /\ (\A v \in Workers : v = Runner(d)' => Owns(v, d)')
    BY DEF Runner
  <1>2. Runner(d)' = w
    BY <1>1 DEF OneRunner
  <1>3. PhaseOf(d)' = PhaseAt(pc'[Runner(d)'], cancelled'[d])
    BY DEF PhaseOf, PhaseAt
  <1>4. QED BY <1>2, <1>3

LEMMA PhaseOfRow ==
    ASSUME NEW d \in Downloads
    PROVE  /\ ~(\E w \in Workers : Owns(w, d)) => PhaseOf(d) = Shown(row[d])
           /\ ~(\E w \in Workers : Owns(w, d)') => PhaseOf(d)' = Shown(row'[d])
  BY DEF PhaseOf, Shown

LEMMA PhaseUnseen ==
    ASSUME OneRunner, OneRunner', NEW d \in Downloads,
           \A w \in Workers :
               /\ Owns(w, d)' <=> Owns(w, d)
               /\ Owns(w, d) => PhaseAt(pc'[w], cancelled'[d]) = PhaseAt(pc[w], cancelled[d]),
           (\E w \in Workers : Owns(w, d)) \/ Shown(row'[d]) = Shown(row[d])
    PROVE  PhaseOf(d)' = PhaseOf(d)
  <1>1. CASE \E w \in Workers : Owns(w, d)
    <2>1. PICK w \in Workers : Owns(w, d)
      BY <1>1
    <2>2. PhaseOf(d) = PhaseAt(pc[w], cancelled[d])
      BY <2>1, PhaseOfRun
    <2>3. PhaseOf(d)' = PhaseAt(pc'[w], cancelled'[d])
      BY <2>1, PhaseOfRunAfter
    <2>4. QED BY <2>1, <2>2, <2>3
  <1>2. CASE ~(\E w \in Workers : Owns(w, d))
    BY <1>2, PhaseOfRow
  <1>3. QED BY <1>1, <1>2

LEMMA OneMoves ==
    ASSUME NEW d \in Downloads, NEW s, PhaseOf(d)' = s,
           \A k \in Downloads \ {d} : PhaseOf(k)' = PhaseOf(k)
    PROVE  phases' = [phases EXCEPT ![d] = s] /\ phases[d] = PhaseOf(d)
  BY DEF phases

(* The rows decide the verdicts. *)
LEMMA OneVerdict ==
    ASSUME NEW d \in Downloads, NEW v, VerdictOf(d)' = v,
           \A k \in Downloads \ {d} : row'[k] = row[k]
    PROVE  verdicts' = [verdicts EXCEPT ![d] = v] /\ verdicts[d] = VerdictOf(d)
  BY DEF verdicts, VerdictOf

LEMMA RowsAside ==
    ASSUME \A k \in Downloads : row'[k] = row[k]
    PROVE  verdicts' = verdicts
  BY DEF verdicts, VerdictOf

LEMMA Quiet ==
    ASSUME \A k \in Downloads : PhaseOf(k)' = PhaseOf(k),
           verdicts' = verdicts, LedgersKept
    PROVE  LifeStep
  <1>1. phases' = phases
    BY DEF phases
  <1>2. QED BY <1>1 DEF LifeStep, LedgersKept, Life!vars

(* Steps after which every worker is where it was. *)
LEMMA Unseen ==
    ASSUME FetchInv, [Next]_vars, UNCHANGED <<row, encodes, known, pc, job, cancelled>>
    PROVE  LifeStep
  <1>1. OneRunner /\ OneRunner'
    BY RunnersAfter DEF FetchInv, OwnerInv
  <1>2. \A d \in Downloads : PhaseOf(d)' = PhaseOf(d)
    BY <1>1, PhaseUnseen DEF Owns
  <1>3. QED BY <1>2, RowsAside, Quiet DEF LedgersKept

-----------------------------------------------------------------------------
(* Workers. *)

(* A worker changes the row, the hand-over and the whereabouts of its own  *)
(* download only.                                                          *)
LEMMA OthersStay ==
    ASSUME FetchInv, NEW w \in Workers, WorkerStep(w), pc[w] \in Owning
    PROVE  /\ \A v \in Workers : v # w => pc'[v] = pc[v]
           /\ job[w] \in Downloads /\ Owns(w, job[w])
           /\ job' = job
           /\ \A d \in Downloads : d # job[w] => row'[d] = row[d]
           /\ UNCHANGED <<encodes, cancelled>>
  <1> DEFINE Stay == /\ \A v \in Workers : v # w => pc'[v] = pc[v]
                     /\ job' = job
                     /\ \A d \in Downloads : d # job[w] => row'[d] = row[d]
                     /\ UNCHANGED <<encodes, cancelled>>
  <1>1. job[w] \in Downloads /\ Owns(w, job[w])
    BY DEF FetchInv, OwnerInv, TypeOK, Owns
  <1> SUFFICES Stay
    BY <1>1
  <1> USE DEF FetchInv, OwnerInv, TypeOK, Goto, SetRow, DbFails
  <1>2. CASE Register(w) \/ StartYtdlp(w) \/ Reap(w) \/ Deregister(w)
    BY <1>2 DEF Register, StartYtdlp, Reap, Deregister
  <1>3. CASE TellError(w) \/ FindFolder(w) \/ CheckKnown(w)
    BY <1>3 DEF TellError, FindFolder, CheckKnown, OnlyWorker
  <1>4. CASE MarkCancelled(w) \/ MarkFailed(w)
    BY <1>4 DEF MarkCancelled, MarkFailed, CancelDownloadJob, FailDownloadJob, OnlyWorker
  <1>5. CASE Complete(w)
    BY <1>5 DEF Complete, CompleteDownloadJob, OnlyWorker
  <1>6. CASE Enqueue(w)
    BY <1>6 DEF Enqueue, AddEncodeJob, OnlyWorker
  <1> HIDE DEF Stay, FetchInv, OwnerInv, TypeOK, Goto, SetRow, DbFails
  <1>7. CASE Wake(w) \/ CheckStop(w) \/ LoadPending(w) \/ Claim(w) \/ Yield(w) \/ Again(w)
    BY <1>7 DEF Wake, CheckStop, LoadPending, Claim, Yield, Again, Owning, Registered
  <1>8. QED BY <1>2, <1>3, <1>4, <1>5, <1>6, <1>7 DEF WorkerStep

(* So the run goes from one phase to another and no other run is touched. *)
LEMMA RunMoves ==
    ASSUME FetchInv, NEW w \in Workers, WorkerStep(w), pc[w] \in Owning,
           NEW label \in Owning, Goto(w, label)
    PROVE  /\ phases' = [phases EXCEPT ![job[w]] = PhaseAt(label, cancelled[job[w]])]
           /\ phases[job[w]] = PhaseAt(pc[w], cancelled[job[w]])
           /\ encodes' = encodes
  <1>1. OneRunner /\ OneRunner'
    BY RunnersAfter DEF FetchInv, OwnerInv, Next
  <1>2. PICK d \in Downloads : d = job[w] /\ Owns(w, d)
    BY OthersStay
  <1>3. pc' = [pc EXCEPT ![w] = label] /\ job' = job /\ pc \in [Workers -> Labels]
    BY DEF Goto, FetchInv, OwnerInv, TypeOK
  <1>4. cancelled' = cancelled /\ encodes' = encodes
    BY OthersStay
  <1>5. Owns(w, d)'
    BY <1>2, <1>3 DEF Owns
  <1>6. PhaseOf(d) = PhaseAt(pc[w], cancelled[d])
    BY <1>1, <1>2, PhaseOfRun
  <1>7. PhaseOf(d)' = PhaseAt(label, cancelled[d])
    BY <1>1, <1>3, <1>4, <1>5, PhaseOfRunAfter
  <1>8. ASSUME NEW k \in Downloads \ {d}
        PROVE  PhaseOf(k)' = PhaseOf(k)
    <2>1. row'[k] = row[k]
      BY <1>2, OthersStay
    <2>2. ASSUME NEW v \in Workers
          PROVE  (Owns(v, k)' <=> Owns(v, k)) /\ (Owns(v, k) => pc'[v] = pc[v])
      BY <1>2, <1>3 DEF Owns
    <2>3. QED BY <1>1, <1>4, <2>1, <2>2, PhaseUnseen
  <1>9. QED BY <1>2, <1>4, <1>6, <1>7, <1>8, OneMoves

Follows(p, q) ==
    \/ p = q
    \/ p = "taken" /\ q \in {"fetching", "doomed", "broken"}
    \/ p = "doomed" /\ q = "broken"
    \/ p = "fetching" /\ q \in {"fetched", "broken"}
    \/ p \in {"fetched", "broken"} /\ q = "over"

(* The run goes on, its row and the encode queue are left alone. *)
LEMMA AdvanceImplements ==
    ASSUME FetchInv, NEW w \in Workers, WorkerStep(w), pc[w] \in Owning,
           NEW label \in Owning, Goto(w, label), UNCHANGED <<row, known>>,
           Follows(PhaseAt(pc[w], cancelled[job[w]]), PhaseAt(label, cancelled[job[w]]))
    PROVE  LifeStep
  <1>1. PICK d \in Downloads : d = job[w]
    BY OthersStay
  <1>p. PICK p : p = PhaseAt(pc[w], cancelled[job[w]])
    OBVIOUS
  <1>q. PICK q : q = PhaseAt(label, cancelled[job[w]])
    OBVIOUS
  <1>2. phases' = [phases EXCEPT ![d] = q] /\ phases[d] = p /\ encodes' = encodes
    BY <1>1, <1>p, <1>q, RunMoves
  <1>3. verdicts' = verdicts
    BY RowsAside
  <1>4. CASE p = q
    <2>1. phases' = phases
      BY <1>2, <1>4 DEF phases
    <2>2. QED BY <1>2, <1>3, <2>1 DEF LifeStep, Life!vars
  <1>5. CASE p # q
    <2>1. Life!Advance(d)
      BY <1>p, <1>q, <1>2, <1>3, <1>5 DEF Follows, Life!Advance, Life!Move
    <2>2. QED BY <2>1 DEF LifeStep, Life!Next
  <1>6. QED BY <1>4, <1>5

(* yt-dlp is started, reaped and judged. *)
LEMMA FetchImplements ==
    ASSUME FetchInv, NEW w \in Workers,
           Register(w) \/ StartYtdlp(w) \/ Reap(w) \/ TellError(w)
    PROVE  LifeStep
  <1>1. WorkerStep(w) /\ pc[w] \in {"register", "start", "wait", "error"}
    BY DEF WorkerStep, Register, StartYtdlp, Reap, TellError
  <1>2. pc[w] \in Owning
    BY <1>1 DEF Owning, Registered
  <1>3. UNCHANGED <<row, known>>
    BY DEF Register, StartYtdlp, Reap, TellError, OnlyWorker
  <1>9. ASSUME NEW label \in {"start", "wait", "error", "complete", "markCancelled",
                             "markFailed"},
               Goto(w, label),
               \/ pc[w] = "register" /\ label = "start"
               \/ pc[w] = "start" /\ label = "wait" /\ ~cancelled[job[w]]
               \/ pc[w] = "start" /\ label = "error"
               \/ pc[w] = "wait" /\ label \in {"complete", "error"}
               \/ pc[w] = "error" /\ label \in {"markCancelled", "markFailed"}
        PROVE  LifeStep
    <2>1. Follows(PhaseAt(pc[w], cancelled[job[w]]), PhaseAt(label, cancelled[job[w]]))
      BY <1>9 DEF Follows, PhaseAt
    <2>2. label \in Owning
      BY DEF Owning, Registered
    <2>3. QED BY <1>1, <1>2, <1>3, <1>9, <2>1, <2>2, AdvanceImplements
  <1>4. CASE Register(w)
    <2>1. Goto(w, "start") /\ pc[w] = "register"
      BY <1>4 DEF Register
    <2>2. QED BY <2>1, <1>9
  <1>5. CASE StartYtdlp(w)
    <2>1. PICK label \in {"wait", "error"} :
              /\ Goto(w, label) /\ pc[w] = "start"
              /\ label = "wait" => ~cancelled[job[w]]
      BY <1>5 DEF StartYtdlp
    <2>2. QED BY <2>1, <1>9
  <1>6. CASE Reap(w)
    <2>1. PICK label \in {"complete", "error"} : Goto(w, label) /\ pc[w] = "wait"
      BY <1>6 DEF Reap
    <2>2. QED BY <2>1, <1>9
  <1>7. CASE TellError(w)
    <2>1. PICK label \in {"markCancelled", "markFailed"} : Goto(w, label) /\ pc[w] = "error"
      BY <1>7 DEF TellError
    <2>2. QED BY <2>1, <1>9
  <1>8. QED BY <1>4, <1>5, <1>6, <1>7

(* The run writes its verdict: what it finds in the row is none, or a      *)
(* cancel that has not reached it.                                         *)
LEMMA VerdictImplements ==
    ASSUME FetchInv, NEW w \in Workers,
           Complete(w) \/ MarkFailed(w) \/ MarkCancelled(w)
    PROVE  LifeStep
  <1>1. WorkerStep(w) /\ pc[w] \in {"complete", "markFailed", "markCancelled"}
    BY DEF WorkerStep, Complete, MarkFailed, MarkCancelled
  <1>2. pc[w] \in Owning
    BY <1>1 DEF Owning, Registered
  <1>3. PICK d \in Downloads : d = job[w]
    BY <1>1, <1>2, OthersStay
  <1>4. \A k \in Downloads : k # d => row'[k] = row[k]
    BY <1>1, <1>2, <1>3, OthersStay
  <1>5. row[d] \in {"downloading", "cancelled"} /\ row \in [Downloads -> Statuses \cup {"new"}]
    BY <1>1, <1>3 DEF FetchInv, OwnerInv, RowOfRun, Before, TypeOK
  <1>6. verdicts[d] \in {"none", "cancelled"}
    BY <1>5 DEF verdicts, VerdictOf
  <1>7. ASSUME NEW label \in {"deregister", "findFolder"}, Goto(w, label)
        PROVE  /\ phases' = [phases EXCEPT ![d] = PhaseAt(label, cancelled[d])]
               /\ phases[d] = PhaseAt(pc[w], cancelled[d])
               /\ encodes' = encodes
    <2>1. label \in Owning
      BY DEF Owning, Registered
    <2>2. QED BY <1>1, <1>2, <1>3, <1>7, <2>1, RunMoves
  <1>8. ASSUME NEW v \in {"completed", "failed", "cancelled"}, row'[d] = v
        PROVE  verdicts' = [verdicts EXCEPT ![d] = v]
    BY <1>4, <1>8, OneVerdict DEF VerdictOf
  <1>9. ASSUME DbFails, NEW label \in {"deregister", "findFolder"}, Goto(w, label),
               pc[w] = "complete" \/ label = "deregister"
        PROVE  LifeStep
    <2>1. UNCHANGED <<row, known>> /\ label \in Owning
      BY <1>9 DEF DbFails, Owning, Registered
    <2>2. Follows(PhaseAt(pc[w], cancelled[job[w]]), PhaseAt(label, cancelled[job[w]]))
      BY <1>1, <1>9 DEF Follows, PhaseAt
    <2>3. QED BY <1>1, <1>2, <1>9, <2>1, <2>2, AdvanceImplements
  <1> HIDE DEF LifeStep
  <1>10. CASE Complete(w)
    <2>1. PICK label \in {"deregister", "findFolder"} :
              Goto(w, label) /\ (label = "findFolder" => encodes[d])
      <3>1. CASE encodes[d]
        BY <1>10, <1>3, <3>1 DEF Complete
      <3>2. CASE ~encodes[d]
        BY <1>10, <1>3, <3>2 DEF Complete
      <3>3. QED BY <3>1, <3>2
    <2>2. pc[w] = "complete"
      BY <1>10 DEF Complete
    <2>3. CASE DbFails
      BY <2>1, <2>2, <2>3, <1>9
    <2>4. CASE CompleteDownloadJob(d)
      <3>1. row'[d] = "completed" /\ known' = known
        BY <2>4, <1>5 DEF CompleteDownloadJob, SetRow
      <3>2. phases' = [phases EXCEPT ![d] = IF label = "findFolder" THEN "fetched" ELSE "over"]
        BY <1>7, <2>1 DEF PhaseAt
      <3>3. phases[d] = "fetched" /\ encodes' = encodes
        BY <1>7, <2>1, <2>2 DEF PhaseAt
      <3>4. phases' = [phases EXCEPT ![d] = "over"] \/ (encodes[d] /\ phases' = phases)
        BY <2>1, <3>2, <3>3 DEF phases
      <3>5. Life!Complete(d)
        BY <1>6, <1>8, <3>1, <3>3, <3>4 DEF Life!Complete, Life!Open, Life!Move
      <3>6. QED BY <3>5 DEF LifeStep, Life!Next
    <2>5. QED BY <1>3, <1>10, <2>3, <2>4 DEF Complete
  <1>11. CASE MarkFailed(w) \/ MarkCancelled(w)
    <2>1. Goto(w, "deregister") /\ pc[w] \in {"markFailed", "markCancelled"}
      BY <1>11 DEF MarkFailed, MarkCancelled
    <2>2. CASE DbFails
      BY <2>1, <2>2, <1>9
    <2>3. CASE FailDownloadJob(d) \/ CancelDownloadJob(d)
      <3>1. PICK v \in {"failed", "cancelled"} : row'[d] = v /\ known' = known
        BY <2>3, <1>5 DEF FailDownloadJob, CancelDownloadJob, SetRow
      <3>2. phases' = [phases EXCEPT ![d] = "over"] /\ phases[d] = "broken"
              /\ encodes' = encodes
        BY <1>7, <2>1 DEF PhaseAt
      <3>3. Life!Fail(d)
        BY <1>6, <1>8, <3>1, <3>2 DEF Life!Fail, Life!Open, Life!Move
      <3>4. QED BY <3>3 DEF LifeStep, Life!Next
    <2>4. QED BY <1>3, <1>11, <2>2, <2>3 DEF MarkFailed, MarkCancelled
  <1>12. QED BY <1>10, <1>11

(* The file goes to the encode queue, or the watcher was faster. *)
LEMMA HandOverImplements ==
    ASSUME FetchInv, NEW w \in Workers, FindFolder(w) \/ CheckKnown(w) \/ Enqueue(w)
    PROVE  LifeStep
  <1>1. WorkerStep(w) /\ pc[w] \in Handing
    BY DEF WorkerStep, FindFolder, CheckKnown, Enqueue, Handing
  <1>2. pc[w] \in Owning
    BY <1>1 DEF Owning, Registered, Handing
  <1>3. PICK d \in Downloads : d = job[w]
    BY <1>1, <1>2, OthersStay
  <1>4. row' = row
    BY DEF FindFolder, CheckKnown, Enqueue, AddEncodeJob, DbFails
  <1>5. PICK label \in {"checkKnown", "enqueue", "deregister"} : Goto(w, label)
    BY DEF FindFolder, CheckKnown, Enqueue
  <1>6. label \in Owning
    BY DEF Owning, Registered
  <1>7. CASE known' = known
    <2>1. Follows(PhaseAt(pc[w], cancelled[job[w]]), PhaseAt(label, cancelled[job[w]]))
      BY <1>1 DEF Follows, PhaseAt, Handing
    <2>2. QED BY <1>1, <1>2, <1>4, <1>5, <1>6, <1>7, <2>1, AdvanceImplements
  <1>8. CASE known' # known
    <2>1. Enqueue(w) /\ known' = known \cup {d} /\ d \notin known
      BY <1>3, <1>8 DEF FindFolder, CheckKnown, Enqueue, AddEncodeJob, DbFails
    <2>2. Goto(w, "deregister")
      BY <2>1 DEF Enqueue
    <2>3. "deregister" \in Owning
      BY DEF Owning, Registered
    <2>4. phases' = [phases EXCEPT ![d] = "over"] /\ phases[d] = "fetched"
            /\ encodes' = encodes
      <3>1. PICK l \in Owning : l = "deregister"
        BY <2>3
      <3>2. /\ phases' = [phases EXCEPT ![d] = PhaseAt(l, cancelled[d])]
            /\ phases[d] = PhaseAt(pc[w], cancelled[d])
            /\ encodes' = encodes
        BY <1>1, <1>2, <1>3, <2>2, <3>1, RunMoves
      <3>3. QED BY <1>1, <3>1, <3>2 DEF PhaseAt, Handing
    <2>5. encodes[d]
      BY <1>1, <1>3 DEF FetchInv, AskedToEncode
    <2>6. verdicts' = verdicts
      BY <1>4, RowsAside
    <2>7. Life!HandOver(d)
      BY <2>1, <2>4, <2>5, <2>6 DEF Life!HandOver, Life!Move
    <2>8. QED BY <2>7 DEF LifeStep, Life!Next
  <1>9. QED BY <1>7, <1>8

(* A run that has its verdict leaves the registry: over is over. *)
LEMMA DeregisterImplements ==
    ASSUME FetchInv, NEW w \in Workers, Deregister(w)
    PROVE  LifeStep
  <1>1. OneRunner /\ OneRunner'
    BY RunnersAfter DEF FetchInv, OwnerInv, Next, WorkerStep
  <1>2. pc[w] = "deregister" /\ pc \in [Workers -> Labels] /\ job[w] \in Downloads
    BY DEF Deregister, FetchInv, OwnerInv, TypeOK, Owning, Registered
  <1>3. UNCHANGED <<row, encodes, known, cancelled, job>> /\ pc' = [pc EXCEPT ![w] = "again"]
    BY DEF Deregister, Goto
  <1>4. PICK d \in Downloads : d = job[w]
    BY <1>2
  <1>5. Owns(w, d) /\ ~(\E v \in Workers : Owns(v, d)')
    BY <1>1, <1>2, <1>3, <1>4 DEF Owns, Owning, Registered, OneRunner
  <1>6. PhaseOf(d)' = PhaseOf(d)
    <2>1. PhaseOf(d) = "over"
      <3>1. PhaseOf(d) = PhaseAt(pc[w], cancelled[d])
        BY <1>1, <1>5, PhaseOfRun
      <3>2. QED BY <1>2, <3>1 DEF PhaseAt
    <2>2. row[d] \notin {"new", "pending"}
      BY <1>5 DEF FetchInv, OwnerInv, Taken
    <2>3. QED BY <1>3, <1>5, <2>1, <2>2, PhaseOfRow DEF Shown
  <1>7. ASSUME NEW k \in Downloads \ {d}
        PROVE  PhaseOf(k)' = PhaseOf(k)
    <2>1. \A v \in Workers : (Owns(v, k)' <=> Owns(v, k)) /\ (Owns(v, k) => pc'[v] = pc[v])
      BY <1>2, <1>3, <1>4 DEF Owns, Owning, Registered
    <2>2. QED BY <1>1, <1>3, <2>1, PhaseUnseen
  <1>8. QED BY <1>3, <1>6, <1>7, RowsAside, Quiet DEF LedgersKept

(* A worker without a run, before and after. *)
LEMMA IdleImplements ==
    ASSUME FetchInv, [Next]_vars, NEW w \in Workers, pc[w] \notin Owning,
           pc'[w] \notin Owning, UNCHANGED <<row, encodes, known, cancelled>>,
           \A v \in Workers : v # w => pc'[v] = pc[v] /\ job'[v] = job[v]
    PROVE  LifeStep
  <1>1. OneRunner /\ OneRunner'
    BY RunnersAfter DEF FetchInv, OwnerInv
  <1>2. ASSUME NEW d \in Downloads, NEW v \in Workers
        PROVE  (Owns(v, d)' <=> Owns(v, d)) /\ (Owns(v, d) => pc'[v] = pc[v])
    BY DEF Owns
  <1>3. \A d \in Downloads : PhaseOf(d)' = PhaseOf(d)
    BY <1>1, <1>2, PhaseUnseen
  <1>4. QED BY <1>3, RowsAside, Quiet DEF LedgersKept

(* The claim takes a waiting download that nobody owns. *)
LEMMA ClaimImplements ==
    ASSUME FetchInv, NEW w \in Workers, Claim(w)
    PROVE  LifeStep
  <1>1. [Next]_vars /\ OneRunner /\ TypeOK
    BY DEF Next, WorkerStep, FetchInv, OwnerInv
  <1>2. OneRunner'
    BY <1>1, RunnersAfter
  <1>3. pc[w] = "claim" /\ pc \in [Workers -> Labels] /\ job \in [Workers -> Downloads \cup {NoDownload}]
    BY <1>1 DEF Claim, TypeOK
  <1>4. PICK d \in Downloads : d = job[w]
    BY <1>1, <1>3 DEF TypeOK
  <1>5. UNCHANGED <<encodes, known, cancelled>>
    BY DEF Claim, ClaimDownloadJob, SetRow, DbFails, OnlyWorker
  <1>6. CASE ClaimDownloadJob(d) /\ Goto(w, "register")
    <2>1. row[d] = "pending" /\ row' = [row EXCEPT ![d] = "downloading"] /\ row[d] \in Statuses
      BY <1>6 DEF ClaimDownloadJob, SetRow, Statuses
    <2>2. pc' = [pc EXCEPT ![w] = "register"] /\ job' = job
      BY <1>6 DEF Goto
    <2>3. ~(\E v \in Workers : Owns(v, d)) /\ Owns(w, d)'
      BY <1>3, <1>4, <2>1, <2>2 DEF FetchInv, OwnerInv, Taken, Owns, Owning
    <2>4. PhaseOf(d) = "waiting" /\ PhaseOf(d)' = "taken"
      BY <1>2, <1>3, <2>1, <2>2, <2>3, PhaseOfRow, PhaseOfRunAfter DEF Shown, PhaseAt
    <2>5. ASSUME NEW k \in Downloads \ {d}
          PROVE  PhaseOf(k)' = PhaseOf(k)
      <3>1. \A v \in Workers : (Owns(v, k)' <=> Owns(v, k)) /\ (Owns(v, k) => pc'[v] = pc[v])
        BY <1>3, <1>4, <2>2 DEF Owns, Owning, Registered
      <3>2. row'[k] = row[k]
        BY <2>1
      <3>3. QED BY <1>1, <1>2, <1>5, <3>1, <3>2, PhaseUnseen
    <2>6. phases' = [phases EXCEPT ![d] = "taken"] /\ phases[d] = "waiting"
      BY <2>4, <2>5, OneMoves
    <2>7. verdicts' = verdicts
      BY <1>1, <2>1 DEF verdicts, VerdictOf, TypeOK
    <2>8. Life!Advance(d)
      BY <1>5, <2>6, <2>7 DEF Life!Advance, Life!Move
    <2>9. QED BY <2>8 DEF LifeStep, Life!Next
  <1>7. CASE UNCHANGED row /\ (Goto(w, "yield") \/ Idle(w))
    <2>1. pc'[w] \in {"yield", "idle"} /\ \A v \in Workers : v # w => pc'[v] = pc[v] /\ job'[v] = job[v]
      BY <1>3, <1>7 DEF Goto, Idle
    <2>2. QED BY <1>1, <1>3, <1>5, <1>7, <2>1, IdleImplements DEF Owning, Registered
  <1>8. QED BY <1>4, <1>6, <1>7 DEF Claim, DbFails

(* The steps of a worker between two runs. *)
LEMMA BetweenImplements ==
    ASSUME FetchInv, NEW w \in Workers,
           \/ Wake(w) \/ CheckStop(w) \/ LoadPending(w) \/ Yield(w) \/ Again(w)
           \/ WorkerStops(w)
    PROVE  LifeStep
  <1>1. [Next]_vars /\ TypeOK
    BY DEF Next, WorkerStep, FetchInv, OwnerInv
  <1>2. UNCHANGED <<row, encodes, known, cancelled>>
    BY DEF Wake, CheckStop, LoadPending, Yield, Again, WorkerStops, DbFails, OnlyWorker
  <1>3. pc[w] \notin Owning
    BY DEF Wake, CheckStop, LoadPending, Yield, Again, WorkerStops, Owning, Registered
  <1>4. /\ pc'[w] \in {"stopCheck", "load", "claim", "idle", "stopped"}
        /\ \A v \in Workers : v # w => pc'[v] = pc[v] /\ job'[v] = job[v]
    BY <1>1 DEF Wake, CheckStop, LoadPending, Yield, Again, WorkerStops, Goto, Idle, TypeOK
  <1>5. QED BY <1>1, <1>2, <1>3, <1>4, IdleImplements DEF Owning, Registered

LEMMA WorkerImplements ==
    ASSUME FetchInv, NEW w \in Workers, WorkerStep(w) \/ WorkerStops(w)
    PROVE  LifeStep
  BY FetchImplements, VerdictImplements, HandOverImplements, DeregisterImplements,
    ClaimImplements, BetweenImplements DEF WorkerStep

-----------------------------------------------------------------------------
(* Requests, the watcher, Stop, death and start. *)

LEMMA AddImplements ==
    ASSUME FetchInv, NEW d \in Downloads, NEW b \in BOOLEAN, AddDownload(d, b)
    PROVE  LifeStep
  <1>1. [Next]_vars /\ OneRunner /\ TypeOK /\ Taken
    BY DEF Next, Environment, FetchInv, OwnerInv
  <1>2. OneRunner'
    BY <1>1, RunnersAfter
  <1>3. /\ row[d] = "new" /\ row' = [row EXCEPT ![d] = "pending"]
        /\ encodes' = [encodes EXCEPT ![d] = b]
        /\ UNCHANGED <<pc, job, cancelled, known>>
    BY DEF AddDownload
  <1>4. \A v \in Workers, k \in Downloads : Owns(v, k)' <=> Owns(v, k)
    BY <1>3 DEF Owns
  <1>5. ~(\E v \in Workers : Owns(v, d))
    BY <1>1, <1>3 DEF Taken
  <1>6. PhaseOf(d) = "absent" /\ PhaseOf(d)' = "waiting"
    BY <1>1, <1>3, <1>4, <1>5, PhaseOfRow DEF Shown, TypeOK
  <1>7. \A k \in Downloads \ {d} : PhaseOf(k)' = PhaseOf(k)
    BY <1>1, <1>2, <1>3, <1>4, PhaseUnseen DEF TypeOK
  <1>8. phases' = [phases EXCEPT ![d] = "waiting"] /\ phases[d] = "absent"
    BY <1>6, <1>7, OneMoves
  <1>9. verdicts' = verdicts
    BY <1>1, <1>3 DEF verdicts, VerdictOf, TypeOK
  <1>10. Life!Submit(d)
    BY <1>3, <1>8, <1>9 DEF Life!Submit, Life!Move
  <1>11. QED BY <1>10 DEF LifeStep, Life!Next

(* A request whose download had no run when it looked marks the row: for   *)
(* good when it still waits, else for the run to have the last word.       *)
LEMMA CancelRowImplements ==
    ASSUME FetchInv, NEW c \in Cancellers, CancelRow(c)
    PROVE  LifeStep
  <1>1. [Next]_vars /\ OneRunner /\ TypeOK /\ Taken
    BY DEF Next, Environment, FetchInv, OwnerInv
  <1>2. OneRunner'
    BY <1>1, RunnersAfter
  <1>3. PICK d \in Downloads : d = cancelling[c]
    BY <1>1 DEF CancelRow, TypeOK
  <1>4. UNCHANGED <<pc, job, cancelled, known, encodes>>
    BY DEF CancelRow, CancelDownloadJob, SetRow, DbFails
  <1>5. \A v \in Workers, k \in Downloads : Owns(v, k)' <=> Owns(v, k)
    BY <1>4 DEF Owns
  <1>6. CASE row' = row
    <2>1. \A k \in Downloads : PhaseOf(k)' = PhaseOf(k)
      BY <1>1, <1>2, <1>4, <1>5, <1>6, PhaseUnseen
    <2>2. QED BY <1>4, <1>6, <2>1, RowsAside, Quiet DEF LedgersKept
  <1>7. CASE row[d] \in {"pending", "downloading"} /\ row' = [row EXCEPT ![d] = "cancelled"]
    <2>1. \A k \in Downloads \ {d} : PhaseOf(k)' = PhaseOf(k) /\ row'[k] = row[k]
      BY <1>1, <1>2, <1>4, <1>5, <1>7, PhaseUnseen DEF TypeOK
    <2>2. verdicts' = [verdicts EXCEPT ![d] = "cancelled"] /\ verdicts[d] = "none"
      <3>1. VerdictOf(d)' = "cancelled" /\ VerdictOf(d) = "none"
        BY <1>1, <1>7 DEF VerdictOf, TypeOK
      <3>2. QED BY <2>1, <3>1, OneVerdict
    <2>3. CASE row[d] = "pending"
      <3>1. ~(\E v \in Workers : Owns(v, d))
        BY <1>1, <2>3 DEF Taken
      <3>2. PhaseOf(d) = "waiting" /\ PhaseOf(d)' = "over"
        BY <1>1, <1>5, <1>7, <2>3, <3>1, PhaseOfRow DEF Shown, TypeOK
      <3>3. phases' = [phases EXCEPT ![d] = "over"] /\ phases[d] = "waiting"
        BY <2>1, <3>2, OneMoves
      <3>4. Life!Withdraw(d)
        BY <1>4, <2>2, <3>3 DEF Life!Withdraw, Life!Move
      <3>5. QED BY <3>4 DEF LifeStep, Life!Next
    <2>4. CASE row[d] = "downloading"
      <3>1. PhaseOf(d)' = PhaseOf(d) /\ PhaseOf(d) \notin {"absent", "waiting"}
        <4>1. CASE \E v \in Workers : Owns(v, d)
          <5>1. PICK v \in Workers : Owns(v, d)
            BY <4>1
          <5>2. PhaseOf(d) = PhaseAt(pc[v], cancelled[d])
            BY <1>1, <5>1, PhaseOfRun
          <5>3. PhaseOf(d)' = PhaseAt(pc'[v], cancelled'[d])
            BY <1>2, <1>5, <5>1, PhaseOfRunAfter
          <5>4. pc[v] \in Owning
            BY <5>1 DEF Owns
          <5>5. PhaseAt(pc[v], cancelled[d]) \notin {"absent", "waiting"}
            BY <5>4 DEF PhaseAt, Owning, Registered
          <5>6. QED BY <1>4, <5>2, <5>3, <5>5
        <4>2. CASE ~(\E v \in Workers : Owns(v, d))
          BY <1>1, <1>5, <1>7, <2>4, <4>2, PhaseOfRow DEF Shown, TypeOK
        <4>3. QED BY <4>1, <4>2
      <3>2. phases' = phases /\ phases[d] \notin {"absent", "waiting"}
        BY <2>1, <3>1 DEF phases
      <3>3. Life!Withdraw(d)
        BY <1>4, <2>2, <3>2 DEF Life!Withdraw, Life!Move
      <3>4. QED BY <3>3 DEF LifeStep, Life!Next
    <2>5. QED BY <1>7, <2>3, <2>4
  <1>8. CancelDownloadJob(d) \/ DbFails
    BY <1>3 DEF CancelRow
  <1>9. CancelDownloadJob(d) => row' = row \/ (row[d] \in {"pending", "downloading"}
                                            /\ row' = [row EXCEPT ![d] = "cancelled"])
    <2> SUFFICES ASSUME CancelDownloadJob(d), row[d] \notin {"pending", "downloading"}
                 PROVE  row' = row
      BY DEF CancelDownloadJob, SetRow
    <2>1. row' = [row EXCEPT ![d] = row[d]]
      BY DEF CancelDownloadJob, SetRow
    <2>2. QED BY <1>1, <2>1 DEF TypeOK
  <1>10. QED BY <1>6, <1>7, <1>8, <1>9 DEF DbFails

(* A request, or Stop, cancels the context of the run it has found: that   *)
(* dooms a run whose yt-dlp is not started yet.                            *)
LEMMA ContextImplements ==
    ASSUME FetchInv, [Next]_vars, NEW d \in Downloads,
           UNCHANGED <<row, encodes, known, pc, job>>,
           NEW b \in BOOLEAN, cancelled' = [cancelled EXCEPT ![d] = @ \/ b]
    PROVE  LifeStep
  <1>1. OneRunner /\ TypeOK /\ OneRunner'
    BY RunnersAfter DEF FetchInv, OwnerInv
  <1>2. \A v \in Workers, k \in Downloads : Owns(v, k)' <=> Owns(v, k)
    BY DEF Owns
  <1>3. \A k \in Downloads : k # d => cancelled'[k] = cancelled[k]
    BY <1>1 DEF TypeOK
  <1>4. \A k \in Downloads \ {d} : PhaseOf(k)' = PhaseOf(k)
    BY <1>1, <1>2, <1>3, PhaseUnseen
  <1>5. verdicts' = verdicts
    BY RowsAside
  <1>6. CASE PhaseOf(d)' = PhaseOf(d)
    BY <1>4, <1>5, <1>6, Quiet DEF LedgersKept
  <1>7. CASE PhaseOf(d)' # PhaseOf(d)
    <2>1. PICK v \in Workers : Owns(v, d)
      BY <1>2, <1>7, PhaseOfRow
    <2>2. /\ PhaseOf(d) = PhaseAt(pc[v], cancelled[d])
          /\ PhaseOf(d)' = PhaseAt(pc[v], cancelled'[d])
      BY <1>1, <1>2, <2>1, PhaseOfRun, PhaseOfRunAfter
    <2>3. cancelled[d] => cancelled'[d]
      BY <1>1 DEF TypeOK
    <2>4. pc[v] \in Owning
      BY <2>1 DEF Owns
    <2>5. PhaseOf(d) = "taken" /\ PhaseOf(d)' = "doomed"
      BY <1>7, <2>2, <2>3, <2>4 DEF PhaseAt, Owning, Registered
    <2>6. phases' = [phases EXCEPT ![d] = "doomed"] /\ phases[d] = "taken"
      BY <1>4, <2>5, OneMoves
    <2>7. Life!Advance(d)
      BY <1>5, <2>6 DEF Life!Advance, Life!Move
    <2>8. QED BY <2>7 DEF LifeStep, Life!Next
  <1>8. QED BY <1>6, <1>7

LEMMA CancelImplements ==
    ASSUME FetchInv, NEW d \in Downloads,
           StopCancels(d) \/ (\E c \in Cancellers : CancelLookup(c, d))
    PROVE  LifeStep
  <1>1. [Next]_vars /\ TypeOK
    BY DEF Next, Environment, Lifetime, FetchInv, OwnerInv
  <1>2. UNCHANGED <<row, encodes, known, pc, job>>
    BY DEF StopCancels, CancelLookup
  <1>3. CASE cancelled' = cancelled
    BY <1>1, <1>2, <1>3, Unseen
  <1>4. CASE cancelled' = [cancelled EXCEPT ![d] = @ \/ d \in active]
    <2>1. CASE d \in active
      <3>1. cancelled' = [cancelled EXCEPT ![d] = @ \/ TRUE]
        BY <1>4, <2>1
      <3>2. QED BY <1>1, <1>2, <3>1, ContextImplements
    <2>2. CASE d \notin active
      <3>1. cancelled' = [cancelled EXCEPT ![d] = @ \/ FALSE]
        BY <1>4, <2>2
      <3>2. QED BY <1>1, <1>2, <3>1, ContextImplements
    <2>3. QED BY <2>1, <2>2
  <1>5. CASE cancelled' = [cancelled EXCEPT ![d] = TRUE]
    <2>1. cancelled' = [cancelled EXCEPT ![d] = @ \/ TRUE]
      BY <1>5
    <2>2. QED BY <1>1, <1>2, <2>1, ContextImplements
  <1>6. QED BY <1>3, <1>4, <1>5 DEF StopCancels, CancelLookup

(* The watcher comes upon the file of a download that was taken. *)
LEMMA WatcherImplements ==
    ASSUME FetchInv, NEW d \in Downloads, WatcherQueues(d)
    PROVE  LifeStep
  <1>1. [Next]_vars /\ OneRunner
    BY DEF Next, Environment, FetchInv, OwnerInv
  <1>2. OneRunner'
    BY <1>1, RunnersAfter
  <1>3. UNCHANGED <<row, encodes, pc, job, cancelled>> /\ known' = known \cup {d}
    BY DEF WatcherQueues, AddEncodeJob
  <1>4. row[d] \notin {"new", "pending"} /\ d \notin known
    BY DEF WatcherQueues
  <1>5. \A k \in Downloads : PhaseOf(k)' = PhaseOf(k)
    BY <1>1, <1>2, <1>3, PhaseUnseen DEF Owns
  <1>6. PhaseOf(d) \notin {"absent", "waiting"}
    <2>1. CASE \E v \in Workers : Owns(v, d)
      <3>1. PICK v \in Workers : Owns(v, d)
        BY <2>1
      <3>2. PhaseOf(d) = PhaseAt(pc[v], cancelled[d])
        BY <1>1, <3>1, PhaseOfRun
      <3>3. pc[v] \in Owning
        BY <3>1 DEF Owns
      <3>4. QED BY <3>2, <3>3 DEF PhaseAt, Owning, Registered
    <2>2. CASE ~(\E v \in Workers : Owns(v, d))
      BY <1>4, <2>2, PhaseOfRow DEF Shown
    <2>3. QED BY <2>1, <2>2
  <1>7. phases' = phases /\ phases[d] \notin {"absent", "waiting"}
    BY <1>5, <1>6 DEF phases
  <1>8. verdicts' = verdicts
    BY <1>3, RowsAside
  <1>9. Life!Notice(d)
    BY <1>3, <1>4, <1>7, <1>8 DEF Life!Notice
  <1>10. QED BY <1>9 DEF LifeStep, Life!Next

(* Whatever was in hand when the process died is over, without a verdict. *)
LEMMA DeathImplements ==
    ASSUME FetchInv, ProcessDies
    PROVE  LifeStep
  <1>1. OneRunner /\ Taken
    BY DEF FetchInv, OwnerInv
  <1>2. UNCHANGED <<row, encodes, known>>
    BY DEF ProcessDies
  <1>3. ASSUME NEW d \in Downloads
        PROVE  PhaseOf(d)' = Shown(row[d])
    BY <1>2, PhaseOfRow DEF ProcessDies, Owns, Owning, Registered
  <1>4. ASSUME NEW d \in Downloads
        PROVE  PhaseOf(d)' = IF PhaseOf(d) \in Life!InHand THEN "over" ELSE PhaseOf(d)
    <2>1. CASE \E v \in Workers : Owns(v, d)
      <3>1. PICK v \in Workers : Owns(v, d)
        BY <2>1
      <3>2. PhaseOf(d) = PhaseAt(pc[v], cancelled[d])
        BY <1>1, <3>1, PhaseOfRun
      <3>3. pc[v] \in Owning
        BY <3>1 DEF Owns
      <3>4. PhaseOf(d) \in Life!InHand \cup {"over"}
        BY <3>2, <3>3 DEF PhaseAt, Owning, Registered, Life!InHand
      <3>5. Shown(row[d]) = "over"
        BY <1>1, <3>1 DEF Taken, Shown
      <3>6. QED BY <1>3, <3>4, <3>5
    <2>2. CASE ~(\E v \in Workers : Owns(v, d))
      BY <1>3, <2>2, PhaseOfRow DEF Shown, Life!InHand
    <2>3. QED BY <2>1, <2>2
  <1>5. phases' = [d \in Downloads |-> IF phases[d] \in Life!InHand THEN "over" ELSE phases[d]]
    BY <1>4 DEF phases
  <1>6. verdicts' = verdicts
    BY <1>2, RowsAside
  <1>7. Life!Abandon
    BY <1>2, <1>5, <1>6 DEF Life!Abandon
  <1>8. QED BY <1>7 DEF LifeStep, Life!Next

(* The start marks what is over and has no verdict, and nothing else. *)
LEMMA MarkImplements ==
    ASSUME FetchInv, StartMarks
    PROVE  LifeStep
  <1>1. [Next]_vars /\ TypeOK /\ Halted
    BY DEF Next, Lifetime, FetchInv, OwnerInv
  <1>2. UNCHANGED <<encodes, known, pc, job, cancelled>>
    BY DEF StartMarks, MarkDownloadingAsFailed, DbFails
  <1>3. \A d \in Downloads, v \in Workers : ~Owns(v, d) /\ ~Owns(v, d)'
    BY <1>1, <1>2 DEF StartMarks, Halted, Serving, Owns, Owning, Registered
  <1>4. CASE DbFails
    BY <1>1, <1>2, <1>4, Unseen DEF DbFails
  <1>5. CASE MarkDownloadingAsFailed
    <2>1. row' = [d \in Downloads |-> IF row[d] = "downloading" THEN "failed" ELSE row[d]]
      BY <1>5 DEF MarkDownloadingAsFailed
    <2>2. ASSUME NEW d \in Downloads
          PROVE  /\ PhaseOf(d) = Shown(row[d]) /\ PhaseOf(d)' = PhaseOf(d)
                 /\ VerdictOf(d)' = IF PhaseOf(d) = "over" /\ VerdictOf(d) = "none"
                                      THEN "failed" ELSE VerdictOf(d)
      <3>1. PhaseOf(d) = Shown(row[d]) /\ PhaseOf(d)' = Shown(row'[d])
        BY <1>3, PhaseOfRow
      <3>2. row[d] \in {"new", "pending", "downloading", "completed", "failed", "cancelled"}
        BY <1>1 DEF TypeOK, Statuses
      <3>3. row'[d] = IF row[d] = "downloading" THEN "failed" ELSE row[d]
        BY <2>1
      <3>4. QED BY <3>1, <3>2, <3>3 DEF Shown, VerdictOf
    <2>3. phases' = phases /\ \A d \in Downloads : phases[d] \notin Life!InHand
      BY <2>2 DEF phases, Shown, Life!InHand
    <2>4. verdicts' = [d \in Downloads |-> IF phases[d] = "over" /\ verdicts[d] = "none"
                                             THEN "failed" ELSE verdicts[d]]
      BY <2>2 DEF verdicts, phases
    <2>5. Life!Sweep
      BY <1>2, <2>3, <2>4 DEF Life!Sweep
    <2>6. QED BY <2>5 DEF LifeStep, Life!Next
  <1>6. QED BY <1>4, <1>5 DEF StartMarks

LEMMA StartImplements ==
    ASSUME FetchInv, StartWorkers
    PROVE  LifeStep
  <1>1. UNCHANGED <<row, encodes, known, job>>
    BY DEF StartWorkers
  <1>2. \A v \in Workers : pc[v] \notin Owning /\ pc'[v] \notin Owning
    BY DEF StartWorkers, FetchInv, OwnerInv, Halted, Serving, Owning, Registered
  <1>3. \A d \in Downloads : PhaseOf(d)' = PhaseOf(d)
    BY <1>1, <1>2, PhaseOfRow DEF Owns
  <1>4. QED BY <1>1, <1>3, RowsAside, Quiet DEF LedgersKept

LEMMA StepImplements ==
    ASSUME FetchInv, [Next]_vars
    PROVE  LifeStep
  <1>1. CASE UNCHANGED <<row, encodes, known, pc, job, cancelled>>
    BY <1>1, Unseen
  <1>2. CASE Crash \/ Exit
    BY <1>2, DeathImplements DEF Crash, Exit
  <1> HIDE DEF LifeStep
  <1>3. QED BY <1>1, <1>2, WorkerImplements, AddImplements, CancelRowImplements,
    CancelImplements, WatcherImplements, MarkImplements, StartImplements, ZenonT(30)
    DEF Next, Environment, Lifetime, vars, TriggerAdded, YtdlpEnds, RemoveFolder,
    StopBegins, StopCloses, StopDrained, StopGivesUp

-----------------------------------------------------------------------------
(* The downloader implements the lifecycle of a download: it is taken once *)
(* and its yt-dlp started once, not at all when a cancel has reached the   *)
(* run before; "completed" is shown only for a file that has arrived, what *)
(* is completed or failed stays so, and a run hands over only what was     *)
(* asked for, whatever the number of workers, requests, crashes, restarts  *)
(* and failed statements, and whatever the watcher comes upon.             *)
THEOREM DownloadRefinement == Spec => ImplementsLifecycle
  <1>1. Init => Life!Init
    <2> SUFFICES ASSUME Init PROVE Life!Init
      OBVIOUS
    <2>1. \A d \in Downloads : PhaseOf(d) = "absent" /\ VerdictOf(d) = "none"
      BY PhaseOfRow DEF Init, Owns, Owning, Registered, Shown, VerdictOf
    <2>2. phases = [d \in Downloads |-> "absent"] /\ verdicts = [d \in Downloads |-> "none"]
      BY <2>1 DEF phases, verdicts
    <2>3. QED BY <2>2 DEF Init, Life!Init
  <1>2. FetchInv /\ [Next]_vars => [Life!Next]_(Life!vars)
    BY StepImplements DEF LifeStep
  <1>3. QED BY <1>1, <1>2, FetchInvariant, PTL DEF Spec, ImplementsLifecycle, Life!Spec

-----------------------------------------------------------------------------
(* What follows for the downloader from what holds of the lifecycle.       *)

OverStays == \A d \in Downloads : phases[d] = "over" => phases'[d] = "over"

AskedHanded ==
    \A d \in Downloads :
        phases[d] = "fetched" /\ phases'[d] = "over" /\ known' # known
            => encodes[d] /\ known' = known \cup {d}

Settled == Life!OnlyTaken' /\ OverStays /\ AskedHanded

(* A step of the lifecycle takes no download up again, and one that ends a *)
(* run and hands something over does so for what the run was asked.        *)
LEMMA LifeStepSettles ==
    ASSUME phases = [d \in Downloads |-> phases[d]],
           known \subseteq Downloads,
           Life!OnlyTaken, LifeStep
    PROVE  Settled
  <1> USE DEF Life!Move, Life!OnlyTaken, OverStays, AskedHanded, Settled
  <1>1. ASSUME NEW d \in Downloads, Life!Submit(d) PROVE Settled
    BY <1>1 DEF Life!Submit
  <1>2. ASSUME NEW d \in Downloads, Life!Advance(d) PROVE Settled
    BY <1>2 DEF Life!Advance
  <1>3. ASSUME NEW d \in Downloads, Life!Withdraw(d) PROVE Settled
    BY <1>3 DEF Life!Withdraw
  <1>4. ASSUME NEW d \in Downloads, Life!Complete(d) PROVE Settled
    BY <1>4 DEF Life!Complete
  <1>5. ASSUME NEW d \in Downloads, Life!Fail(d) PROVE Settled
    BY <1>5 DEF Life!Fail
  <1>6. ASSUME NEW d \in Downloads, Life!HandOver(d) PROVE Settled
    BY <1>6 DEF Life!HandOver
  <1>7. ASSUME NEW d \in Downloads, Life!Notice(d) PROVE Settled
    BY <1>7 DEF Life!Notice
  <1>8. CASE Life!Abandon
    BY <1>8 DEF Life!Abandon, Life!InHand
  <1>9. CASE Life!Sweep
    BY <1>9 DEF Life!Sweep
  <1>10. CASE UNCHANGED Life!vars
    BY <1>10 DEF Life!vars
  <1> HIDE DEF Settled
  <1>11. QED
    BY <1>1, <1>2, <1>3, <1>4, <1>5, <1>6, <1>7, <1>8, <1>9, <1>10
    DEF LifeStep, Life!Next

(* Nothing goes to the encode queue before it was taken; a run hands over  *)
(* its own file only, and only when it was to be encoded, so that a file   *)
(* only to be downloaded is queued by the watcher or not at all; and a     *)
(* download that is over, in whatever way, is never claimed or fetched     *)
(* again.                                                                  *)
THEOREM FetchedForGood ==
    Spec => []Life!OnlyTaken /\ Life!RunsHandAsked /\ Life!OverForGood
  <1>1. Init => Life!OnlyTaken
    BY DEF Init, Life!OnlyTaken
  <1>2. FetchInv /\ Life!OnlyTaken /\ [Next]_vars
          => Life!OnlyTaken' /\ [OverStays]_(Life!vars) /\ [AskedHanded]_(Life!vars)
    <2> SUFFICES ASSUME FetchInv, Life!OnlyTaken, [Next]_vars
                 PROVE  Settled
      BY DEF Settled
    <2>1. LifeStep
      BY StepImplements
    <2>2. phases = [d \in Downloads |-> phases[d]]
      BY DEF phases
    <2>3. known \subseteq Downloads
      BY DEF FetchInv, OwnerInv, TypeOK
    <2>4. QED BY <2>1, <2>2, <2>3, LifeStepSettles
  <1>3. Spec => /\ []Life!OnlyTaken
                /\ [][OverStays]_(Life!vars)
                /\ [][AskedHanded]_(Life!vars)
    BY <1>1, <1>2, FetchInvariant, PTL DEF Spec
  <1>4. QED BY <1>3, PTL DEF Life!OverForGood, Life!RunsHandAsked, OverStays, AskedHanded
=============================================================================
