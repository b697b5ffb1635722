--------------------------- MODULE DownloadProofs ---------------------------
(***************************************************************************)
(* Theorems about DownloadQueue for any number of downloads, workers,      *)
(* cancel requests, crashes and failed statements.                         *)
(***************************************************************************)
EXTENDS DownloadQueue, TLAPS

USE DEF tableVars, chanVars, runVars, workerVars, requestVars, stopVars

-----------------------------------------------------------------------------
(* The invariants the proofs rest on. *)

(* Nobody works for a process that is down. *)
Halted == ~Serving => active = {} /\ \A w \in Workers : pc[w] = "down"

(* A row once claimed is never pending again. *)
Taken ==
    \A w \in Workers, d \in Downloads :
        Owns(w, d) => row[d] \notin {"new", "pending"}

Before == {"register", "start", "wait", "error", "markCancelled", "markFailed",
           "complete"}
After == {"findFolder", "checkKnown", "enqueue", "deregister"}

(* Until its result is written, the row of a run changes only by a cancel. *)
RowOfRun ==
    \A w \in Workers :
        /\ pc[w] \in Before => row[job[w]] \in {"downloading", "cancelled"}
        /\ pc[w] \in After /\ dbErrs = 0 => row[job[w]] # "downloading"

OwnerInv == TypeOK /\ Halted /\ OneRunner /\ Taken /\ RowOfRun

(* The three parts of RegistryMatchesRuns, the last with its other end: a  *)
(* start has marked what the process before left behind.                   *)
ActiveRuns == active = {job[w] : w \in {v \in Workers : pc[v] \in Registered}}

YtdlpHasWorker ==
    \A d \in Downloads : ytdlp[d] # "none" =>
        \E w \in Workers : pc[w] = "wait" /\ job[w] = d

ShownRowsRun ==
    /\ Serving /\ dbErrs = 0 =>
         \A d \in Downloads :
             row[d] = "downloading" => \E w \in Workers : Owns(w, d)
    /\ stage = "marked" /\ dbErrs = 0 =>
         \A d \in Downloads : row[d] # "downloading"

-----------------------------------------------------------------------------
(* Type correctness. *)

LEMMA TypeInit == Init => TypeOK
  <1> SUFFICES ASSUME Init PROVE TypeOK
    OBVIOUS
  <1> USE DEF Init
  <1>1. dbErrs \in 0 .. MaxDbErrors /\ crashes \in 0 .. MaxCrashes
    BY DownloadAssumption
  <1>2. pc \in [Workers -> Labels] /\ \A w \in Workers : pc[w] = "idle"
    BY DEF Labels
  <1>3. encodes \in [Downloads -> BOOLEAN] /\ cancelled \in [Downloads -> BOOLEAN]
    BY Zenon
  <1>4. QED
    BY <1>1, <1>2, <1>3 DEF TypeOK, Statuses, Owning, Registered

LEMMA TypeStep ==
    ASSUME TypeOK, [Next]_vars
    PROVE  TypeOK'
  <1> USE DownloadAssumption DEF TypeOK, Statuses, Labels, Owning, Registered,
    Goto, Idle
  <1>1. ASSUME NEW w \in Workers, Wake(w) PROVE TypeOK'
    BY <1>1 DEF Wake
  <1>2. ASSUME NEW w \in Workers, CheckStop(w) PROVE TypeOK'
    BY <1>2 DEF CheckStop, OnlyWorker
  <1>3. ASSUME NEW w \in Workers, LoadPending(w) PROVE TypeOK'
    BY <1>3 DEF LoadPending, OnlyWorker, DbFails, Pending
  <1>4. ASSUME NEW w \in Workers, Claim(w) PROVE TypeOK'
    BY <1>4 DEF Claim, OnlyWorker, SetRow, DbFails, ClaimDownloadJob
  <1>5. ASSUME NEW w \in Workers, Yield(w) PROVE TypeOK'
    BY <1>5 DEF Yield
  <1>6. ASSUME NEW w \in Workers, Register(w) PROVE TypeOK'
    BY <1>6 DEF Register
  <1>7. ASSUME NEW w \in Workers, StartYtdlp(w) PROVE TypeOK'
    BY <1>7 DEF StartYtdlp
  <1>8. ASSUME NEW w \in Workers, Reap(w) PROVE TypeOK'
    BY <1>8 DEF Reap
  <1>9. ASSUME NEW w \in Workers, TellError(w) PROVE TypeOK'
    BY <1>9 DEF TellError, OnlyWorker
  <1>10. ASSUME NEW w \in Workers, MarkCancelled(w) PROVE TypeOK'
    BY <1>10 DEF MarkCancelled, OnlyWorker, SetRow, DbFails, CancelDownloadJob
  <1>11. ASSUME NEW w \in Workers, MarkFailed(w) PROVE TypeOK'
    BY <1>11 DEF MarkFailed, OnlyWorker, SetRow, DbFails, FailDownloadJob
  <1>12. ASSUME NEW w \in Workers, Complete(w) PROVE TypeOK'
    BY <1>12 DEF Complete, OnlyWorker, SetRow, DbFails, CompleteDownloadJob
  <1>13. ASSUME NEW w \in Workers, FindFolder(w) PROVE TypeOK'
    BY <1>13 DEF FindFolder, OnlyWorker, DbFails
  <1>14. ASSUME NEW w \in Workers, CheckKnown(w) PROVE TypeOK'
    BY <1>14 DEF CheckKnown, OnlyWorker, DbFails
  <1>15. ASSUME NEW w \in Workers, Enqueue(w) PROVE TypeOK'
    BY <1>15 DEF Enqueue, OnlyWorker, DbFails, AddEncodeJob
  <1>16. ASSUME NEW w \in Workers, Deregister(w) PROVE TypeOK'
    BY <1>16 DEF Deregister
  <1>17. ASSUME NEW w \in Workers, Again(w) PROVE TypeOK'
    BY <1>17 DEF Again
  <1>18. ASSUME NEW w \in Workers, WorkerStops(w) PROVE TypeOK'
    BY <1>18 DEF WorkerStops, OnlyWorker
  <1>19. ASSUME NEW d \in Downloads, NEW b \in BOOLEAN, AddDownload(d, b) PROVE
    TypeOK'
    BY <1>19 DEF AddDownload, Serving
  <1>20. ASSUME NEW d \in Downloads, TriggerAdded(d) PROVE TypeOK'
    BY <1>20 DEF TriggerAdded
  <1>21. ASSUME NEW c \in Cancellers, NEW d \in Downloads, CancelLookup(c, d)
    PROVE TypeOK'
    <2>1. cancelled' \in [Downloads -> BOOLEAN]
      BY <1>21 DEF CancelLookup
    <2>2. QED BY <1>21, <2>1 DEF CancelLookup
  <1>22. ASSUME NEW c \in Cancellers, CancelRow(c) PROVE TypeOK'
    BY <1>22 DEF CancelRow, SetRow, DbFails, CancelDownloadJob
  <1>23. ASSUME NEW d \in Downloads, YtdlpEnds(d) PROVE TypeOK'
    BY <1>23 DEF YtdlpEnds
  <1>24. ASSUME NEW d \in Downloads, WatcherQueues(d) PROVE TypeOK'
    BY <1>24 DEF WatcherQueues, AddEncodeJob, Serving
  <1>25. CASE RemoveFolder
    BY <1>25 DEF RemoveFolder, Serving
  <1>26. CASE StopBegins
    BY <1>26 DEF StopBegins
  <1>27. ASSUME NEW d \in Downloads, StopCancels(d) PROVE TypeOK'
    BY <1>27 DEF StopCancels
  <1>28. CASE StopCloses
    BY <1>28 DEF StopCloses
  <1>29. CASE StopDrained
    BY <1>29 DEF StopDrained
  <1>30. CASE StopGivesUp
    BY <1>30 DEF StopGivesUp
  <1>31. CASE Crash
    <2>1. crashes' \in 0 .. MaxCrashes
      BY <1>31 DEF Crash
    <2>2. cancelled' \in [Downloads -> BOOLEAN]
      BY <1>31, Zenon DEF Crash, ProcessDies
    <2>3. QED BY <1>31, <2>1, <2>2 DEF Crash, ProcessDies
  <1>32. CASE Exit
    <2>1. cancelled' \in [Downloads -> BOOLEAN]
      BY <1>32, Zenon DEF Exit, ProcessDies
    <2>2. QED BY <1>32, <2>1 DEF Exit, ProcessDies
  <1>33. CASE StartMarks
    BY <1>33 DEF StartMarks, MarkDownloadingAsFailed, DbFails
  <1>34. CASE StartWorkers
    BY <1>34 DEF StartWorkers
  <1>35. CASE UNCHANGED <<row, encodes, folder, known, dbErrs, ytdlp, trigger,
    stopClosed, active, cancelled, pc, job, adding, cancelling, stage, todo,
    shuttingDown, crashes>>
    BY <1>35
  <1> HIDE DEF TypeOK, Statuses, Labels, Owning, Registered, Goto, Idle
  <1>36. QED BY <1>1, <1>2, <1>3, <1>4, <1>5, <1>6, <1>7, <1>8, <1>9, <1>10,
    <1>11, <1>12, <1>13, <1>14, <1>15, <1>16, <1>17, <1>18, <1>19, <1>20,
    <1>21, <1>22, <1>23, <1>24, <1>25, <1>26, <1>27, <1>28, <1>29, <1>30,
    <1>31, <1>32, <1>33, <1>34, <1>35, ZenonT(30) DEF Next, WorkerStep,
    Environment, Lifetime, vars

(* Every variable has its type, for all values of the constants. *)
THEOREM TypeCorrect == Spec => []TypeOK
  <1>1. Init => TypeOK BY TypeInit
  <1>2. TypeOK /\ [Next]_vars => TypeOK' BY TypeStep
  <1>3. QED BY <1>1, <1>2, PTL DEF Spec

-----------------------------------------------------------------------------
(* Owners. *)

LEMMA HaltedStep ==
    ASSUME TypeOK, Halted, [Next]_vars
    PROVE  Halted'
  <1> USE DEF Halted, Serving, TypeOK, Goto, Idle
  <1>1. ASSUME NEW w \in Workers, Wake(w) PROVE Halted'
    BY <1>1 DEF Wake
  <1>2. ASSUME NEW w \in Workers, CheckStop(w) PROVE Halted'
    BY <1>2 DEF CheckStop, OnlyWorker
  <1>3. ASSUME NEW w \in Workers, LoadPending(w) PROVE Halted'
    BY <1>3 DEF LoadPending, OnlyWorker, DbFails
  <1>4. ASSUME NEW w \in Workers, Claim(w) PROVE Halted'
    BY <1>4 DEF Claim, OnlyWorker, SetRow, DbFails, ClaimDownloadJob
  <1>5. ASSUME NEW w \in Workers, Yield(w) PROVE Halted'
    BY <1>5 DEF Yield
  <1>6. ASSUME NEW w \in Workers, Register(w) PROVE Halted'
    BY <1>6 DEF Register
  <1>7. ASSUME NEW w \in Workers, StartYtdlp(w) PROVE Halted'
    BY <1>7 DEF StartYtdlp
  <1>8. ASSUME NEW w \in Workers, Reap(w) PROVE Halted'
    BY <1>8 DEF Reap
  <1>9. ASSUME NEW w \in Workers, TellError(w) PROVE Halted'
    BY <1>9 DEF TellError, OnlyWorker
  <1>10. ASSUME NEW w \in Workers, MarkCancelled(w) PROVE Halted'
    BY <1>10 DEF MarkCancelled, OnlyWorker, SetRow, DbFails, CancelDownloadJob
  <1>11. ASSUME NEW w \in Workers, MarkFailed(w) PROVE Halted'
    BY <1>11 DEF MarkFailed, OnlyWorker, SetRow, DbFails, FailDownloadJob
  <1>12. ASSUME NEW w \in Workers, Complete(w) PROVE Halted'
    BY <1>12 DEF Complete, OnlyWorker, SetRow, DbFails, CompleteDownloadJob
  <1>13. ASSUME NEW w \in Workers, FindFolder(w) PROVE Halted'
    BY <1>13 DEF FindFolder, OnlyWorker, DbFails
  <1>14. ASSUME NEW w \in Workers, CheckKnown(w) PROVE Halted'
    BY <1>14 DEF CheckKnown, OnlyWorker, DbFails
  <1>15. ASSUME NEW w \in Workers, Enqueue(w) PROVE Halted'
    BY <1>15 DEF Enqueue, OnlyWorker, DbFails, AddEncodeJob
  <1>16. ASSUME NEW w \in Workers, Deregister(w) PROVE Halted'
    BY <1>16 DEF Deregister
  <1>17. ASSUME NEW w \in Workers, Again(w) PROVE Halted'
    BY <1>17 DEF Again
  <1>18. ASSUME NEW w \in Workers, WorkerStops(w) PROVE Halted'
    BY <1>18 DEF WorkerStops, OnlyWorker
  <1>19. CASE StopBegins
    BY <1>19 DEF StopBegins
  <1>20. CASE StopCloses
    BY <1>20 DEF StopCloses
  <1>21. CASE StopDrained
    BY <1>21 DEF StopDrained
  <1>22. CASE StopGivesUp
    BY <1>22 DEF StopGivesUp
  <1>23. CASE Crash
    BY <1>23 DEF Crash, ProcessDies
  <1>24. CASE Exit
    BY <1>24 DEF Exit, ProcessDies
  <1>25. CASE StartMarks
    BY <1>25 DEF StartMarks, MarkDownloadingAsFailed, DbFails
  <1>26. CASE StartWorkers
    BY <1>26 DEF StartWorkers
  <1>27. CASE UNCHANGED <<active, pc, stage>>
    BY <1>27
  <1> HIDE DEF Halted, Serving, TypeOK, Goto, Idle
  <1>28. QED BY <1>1, <1>2, <1>3, <1>4, <1>5, <1>6, <1>7, <1>8, <1>9, <1>10,
    <1>11, <1>12, <1>13, <1>14, <1>15, <1>16, <1>17, <1>18, <1>19, <1>20,
    <1>21, <1>22, <1>23, <1>24, <1>25, <1>26, <1>27, ZenonT(30) DEF Next,
    WorkerStep, Environment, Lifetime, vars, AddDownload, TriggerAdded,
    CancelLookup, CancelRow, YtdlpEnds, WatcherQueues, RemoveFolder,
    StopCancels, AddEncodeJob, CancelDownloadJob, DbFails, Serving, SetRow

(* A claim, of a pending row, is the only way to come to own a download. *)
LEMMA OwnersStep ==
    ASSUME TypeOK, Halted, OneRunner, Taken, [Next]_vars
    PROVE  (OneRunner /\ Taken)'
  <1> USE DEF TypeOK, OneRunner, Taken, Owns, Owning, Registered, Goto, Idle
  <1>1. ASSUME NEW w \in Workers, Wake(w) PROVE (OneRunner /\ Taken)'
    BY <1>1 DEF Wake
  <1>2. ASSUME NEW w \in Workers, CheckStop(w) PROVE (OneRunner /\ Taken)'
    BY <1>2 DEF CheckStop, OnlyWorker
  <1>3. ASSUME NEW w \in Workers, LoadPending(w) PROVE (OneRunner /\ Taken)'
    BY <1>3 DEF LoadPending, OnlyWorker, DbFails, Pending
  <1>4. ASSUME NEW w \in Workers, Claim(w) PROVE (OneRunner /\ Taken)'
    BY <1>4 DEF Claim, OnlyWorker, SetRow, DbFails, ClaimDownloadJob
  <1>5. ASSUME NEW w \in Workers, Yield(w) PROVE (OneRunner /\ Taken)'
    BY <1>5 DEF Yield
  <1>6. ASSUME NEW w \in Workers, Register(w) PROVE (OneRunner /\ Taken)'
    BY <1>6 DEF Register
  <1>7. ASSUME NEW w \in Workers, StartYtdlp(w) PROVE (OneRunner /\ Taken)'
    BY <1>7 DEF StartYtdlp
  <1>8. ASSUME NEW w \in Workers, Reap(w) PROVE (OneRunner /\ Taken)'
    BY <1>8 DEF Reap
  <1>9. ASSUME NEW w \in Workers, TellError(w) PROVE (OneRunner /\ Taken)'
    BY <1>9 DEF TellError, OnlyWorker
  <1>10. ASSUME NEW w \in Workers, MarkCancelled(w) PROVE (OneRunner /\ Taken)'
    BY <1>10 DEF MarkCancelled, OnlyWorker, SetRow, DbFails, CancelDownloadJob
  <1>11. ASSUME NEW w \in Workers, MarkFailed(w) PROVE (OneRunner /\ Taken)'
    BY <1>11 DEF MarkFailed, OnlyWorker, SetRow, DbFails, FailDownloadJob
  <1>12. ASSUME NEW w \in Workers, Complete(w) PROVE (OneRunner /\ Taken)'
    BY <1>12 DEF Complete, OnlyWorker, SetRow, DbFails, CompleteDownloadJob
  <1>13. ASSUME NEW w \in Workers, FindFolder(w) PROVE (OneRunner /\ Taken)'
    BY <1>13 DEF FindFolder, OnlyWorker, DbFails
  <1>14. ASSUME NEW w \in Workers, CheckKnown(w) PROVE (OneRunner /\ Taken)'
    BY <1>14 DEF CheckKnown, OnlyWorker, DbFails
  <1>15. ASSUME NEW w \in Workers, Enqueue(w) PROVE (OneRunner /\ Taken)'
    BY <1>15 DEF Enqueue, OnlyWorker, DbFails, AddEncodeJob
  <1>16. ASSUME NEW w \in Workers, Deregister(w) PROVE (OneRunner /\ Taken)'
    BY <1>16 DEF Deregister
  <1>17. ASSUME NEW w \in Workers, Again(w) PROVE (OneRunner /\ Taken)'
    BY <1>17 DEF Again
  <1>18. ASSUME NEW w \in Workers, WorkerStops(w) PROVE (OneRunner /\ Taken)'
    BY <1>18 DEF WorkerStops, OnlyWorker
  <1>19. ASSUME NEW d \in Downloads, NEW b \in BOOLEAN, AddDownload(d, b) PROVE
    (OneRunner /\ Taken)'
    BY <1>19 DEF AddDownload, Serving
  <1>20. ASSUME NEW c \in Cancellers, CancelRow(c) PROVE (OneRunner /\ Taken)'
    BY <1>20 DEF CancelRow, SetRow, DbFails, CancelDownloadJob
  <1>21. CASE Crash
    BY <1>21 DEF Crash, ProcessDies
  <1>22. CASE Exit
    BY <1>22 DEF Exit, ProcessDies
  <1>23. CASE StartMarks
    BY <1>23 DEF StartMarks, MarkDownloadingAsFailed, DbFails, Halted, Serving
  <1>24. CASE StartWorkers
    BY <1>24 DEF StartWorkers, Halted, Serving
  <1>25. CASE UNCHANGED <<row, pc, job>>
    BY <1>25
  <1> HIDE DEF TypeOK, OneRunner, Taken, Owns, Owning, Registered, Goto, Idle
  <1>26. QED BY <1>1, <1>2, <1>3, <1>4, <1>5, <1>6, <1>7, <1>8, <1>9, <1>10,
    <1>11, <1>12, <1>13, <1>14, <1>15, <1>16, <1>17, <1>18, <1>19, <1>20,
    <1>21, <1>22, <1>23, <1>24, <1>25, ZenonT(30) DEF Next, WorkerStep,
    Environment, Lifetime, vars, TriggerAdded, CancelLookup, YtdlpEnds,
    WatcherQueues, RemoveFolder, StopBegins, StopCancels, StopCloses,
    StopDrained, StopGivesUp, AddEncodeJob, Serving

LEMMA RowOfRunStep ==
    ASSUME TypeOK, Halted, OneRunner, Taken, RowOfRun, [Next]_vars
    PROVE  RowOfRun'
  <1> USE DEF TypeOK, RowOfRun, Before, After, Labels, Owning, Registered,
    Goto, Idle
  <1>1. ASSUME NEW w \in Workers, Wake(w) PROVE RowOfRun'
    BY <1>1 DEF Wake
  <1>2. ASSUME NEW w \in Workers, CheckStop(w) PROVE RowOfRun'
    BY <1>2 DEF CheckStop, OnlyWorker
  <1>3. ASSUME NEW w \in Workers, LoadPending(w) PROVE RowOfRun'
    BY <1>3 DEF LoadPending, OnlyWorker, DbFails, Pending
  <1>4. ASSUME NEW w \in Workers, Claim(w) PROVE RowOfRun'
    BY <1>4 DEF Claim, OnlyWorker, SetRow, DbFails, ClaimDownloadJob, Taken,
      Owns
  <1>5. ASSUME NEW w \in Workers, Yield(w) PROVE RowOfRun'
    BY <1>5 DEF Yield
  <1>6. ASSUME NEW w \in Workers, Register(w) PROVE RowOfRun'
    BY <1>6 DEF Register
  <1>7. ASSUME NEW w \in Workers, StartYtdlp(w) PROVE RowOfRun'
    BY <1>7 DEF StartYtdlp
  <1>8. ASSUME NEW w \in Workers, Reap(w) PROVE RowOfRun'
    BY <1>8 DEF Reap
  <1>9. ASSUME NEW w \in Workers, TellError(w) PROVE RowOfRun'
    BY <1>9 DEF TellError, OnlyWorker
  <1>10. ASSUME NEW w \in Workers, MarkCancelled(w) PROVE RowOfRun'
    BY <1>10 DEF MarkCancelled, OnlyWorker, SetRow, DbFails, CancelDownloadJob,
      OneRunner, Owns
  <1>11. ASSUME NEW w \in Workers, MarkFailed(w) PROVE RowOfRun'
    BY <1>11 DEF MarkFailed, OnlyWorker, SetRow, DbFails, FailDownloadJob,
      OneRunner, Owns
  <1>12. ASSUME NEW w \in Workers, Complete(w) PROVE RowOfRun'
    BY <1>12 DEF Complete, OnlyWorker, SetRow, DbFails, CompleteDownloadJob,
      OneRunner, Owns
  <1>13. ASSUME NEW w \in Workers, FindFolder(w) PROVE RowOfRun'
    BY <1>13 DEF FindFolder, OnlyWorker, DbFails
  <1>14. ASSUME NEW w \in Workers, CheckKnown(w) PROVE RowOfRun'
    BY <1>14 DEF CheckKnown, OnlyWorker, DbFails
  <1>15. ASSUME NEW w \in Workers, Enqueue(w) PROVE RowOfRun'
    BY <1>15 DEF Enqueue, OnlyWorker, DbFails, AddEncodeJob
  <1>16. ASSUME NEW w \in Workers, Deregister(w) PROVE RowOfRun'
    BY <1>16 DEF Deregister
  <1>17. ASSUME NEW w \in Workers, Again(w) PROVE RowOfRun'
    BY <1>17 DEF Again
  <1>18. ASSUME NEW w \in Workers, WorkerStops(w) PROVE RowOfRun'
    BY <1>18 DEF WorkerStops, OnlyWorker
  <1>19. ASSUME NEW d \in Downloads, NEW b \in BOOLEAN, AddDownload(d, b) PROVE
    RowOfRun'
    BY <1>19 DEF AddDownload, Serving, Taken, Owns
  <1>20. ASSUME NEW c \in Cancellers, CancelRow(c) PROVE RowOfRun'
    BY <1>20 DEF CancelRow, SetRow, DbFails, CancelDownloadJob
  <1>21. CASE Crash
    BY <1>21 DEF Crash, ProcessDies
  <1>22. CASE Exit
    BY <1>22 DEF Exit, ProcessDies
  <1>23. CASE StartMarks
    BY <1>23 DEF StartMarks, MarkDownloadingAsFailed, DbFails, Halted, Serving
  <1>24. CASE StartWorkers
    BY <1>24 DEF StartWorkers, Halted, Serving
  <1>25. CASE UNCHANGED <<row, dbErrs, pc, job>>
    BY <1>25 DEF TypeOK, RowOfRun, Before, After, Labels, Owning, Registered,
      Goto, Idle
  <1> HIDE DEF TypeOK, RowOfRun, Before, After, Labels, Owning, Registered,
    Goto, Idle
  <1>26. QED BY <1>1, <1>2, <1>3, <1>4, <1>5, <1>6, <1>7, <1>8, <1>9, <1>10,
    <1>11, <1>12, <1>13, <1>14, <1>15, <1>16, <1>17, <1>18, <1>19, <1>20,
    <1>21, <1>22, <1>23, <1>24, <1>25, ZenonT(30) DEF Next, WorkerStep,
    Environment, Lifetime, vars, TriggerAdded, CancelLookup, YtdlpEnds,
    WatcherQueues, RemoveFolder, StopBegins, StopCancels, StopCloses,
    StopDrained, StopGivesUp, AddEncodeJob, Serving

LEMMA OwnerInvariant == Spec => []OwnerInv
  <1>1. Init => OwnerInv
    BY TypeInit DEF OwnerInv, Init, Halted, OneRunner, Taken, RowOfRun, Before,
      After, Owns, Owning, Registered, Serving
  <1>2. OwnerInv /\ [Next]_vars => OwnerInv'
    BY TypeStep, HaltedStep, OwnersStep, RowOfRunStep DEF OwnerInv
  <1>3. QED BY <1>1, <1>2, PTL DEF Spec

(* Two workers never run one download, whatever requests, a shutdown and   *)
(* crashes do: ClaimDownloadJob is enough, and nothing un-claims a row.    *)
THEOREM OneOwner == Spec => []OneRunner
  <1>1. OwnerInv => OneRunner BY DEF OwnerInv
  <1>2. QED BY <1>1, OwnerInvariant, PTL

-----------------------------------------------------------------------------
(* The registry. *)

LEMMA ActiveStep ==
    ASSUME TypeOK, Halted, OneRunner, Taken, ActiveRuns, [Next]_vars
    PROVE  ActiveRuns'
  <1> USE DEF TypeOK, ActiveRuns, Owning, Registered, Goto, Idle
  <1>1. ASSUME NEW w \in Workers, Wake(w) PROVE ActiveRuns'
    BY <1>1 DEF Wake
  <1>2. ASSUME NEW w \in Workers, CheckStop(w) PROVE ActiveRuns'
    BY <1>2 DEF CheckStop, OnlyWorker
  <1>3. ASSUME NEW w \in Workers, LoadPending(w) PROVE ActiveRuns'
    BY <1>3 DEF LoadPending, OnlyWorker, DbFails
  <1>4. ASSUME NEW w \in Workers, Claim(w) PROVE ActiveRuns'
    BY <1>4 DEF Claim, OnlyWorker, SetRow, DbFails, ClaimDownloadJob
  <1>5. ASSUME NEW w \in Workers, Yield(w) PROVE ActiveRuns'
    BY <1>5 DEF Yield
  <1>6. ASSUME NEW w \in Workers, Register(w) PROVE ActiveRuns'
    BY <1>6 DEF Register
  <1>7. ASSUME NEW w \in Workers, StartYtdlp(w) PROVE ActiveRuns'
    BY <1>7 DEF StartYtdlp
  <1>8. ASSUME NEW w \in Workers, Reap(w) PROVE ActiveRuns'
    BY <1>8 DEF Reap
  <1>9. ASSUME NEW w \in Workers, TellError(w) PROVE ActiveRuns'
    BY <1>9 DEF TellError, OnlyWorker
  <1>10. ASSUME NEW w \in Workers, MarkCancelled(w) PROVE ActiveRuns'
    BY <1>10 DEF MarkCancelled, OnlyWorker, SetRow, DbFails, CancelDownloadJob
  <1>11. ASSUME NEW w \in Workers, MarkFailed(w) PROVE ActiveRuns'
    BY <1>11 DEF MarkFailed, OnlyWorker, SetRow, DbFails, FailDownloadJob
  <1>12. ASSUME NEW w \in Workers, Complete(w) PROVE ActiveRuns'
    BY <1>12 DEF Complete, OnlyWorker, SetRow, DbFails, CompleteDownloadJob
  <1>13. ASSUME NEW w \in Workers, FindFolder(w) PROVE ActiveRuns'
    BY <1>13 DEF FindFolder, OnlyWorker, DbFails
  <1>14. ASSUME NEW w \in Workers, CheckKnown(w) PROVE ActiveRuns'
    BY <1>14 DEF CheckKnown, OnlyWorker, DbFails
  <1>15. ASSUME NEW w \in Workers, Enqueue(w) PROVE ActiveRuns'
    BY <1>15 DEF Enqueue, OnlyWorker, DbFails, AddEncodeJob
  <1>16. ASSUME NEW w \in Workers, Deregister(w) PROVE ActiveRuns'
    BY <1>16 DEF Deregister, OneRunner, Owns
  <1>17. ASSUME NEW w \in Workers, Again(w) PROVE ActiveRuns'
    BY <1>17 DEF Again
  <1>18. ASSUME NEW w \in Workers, WorkerStops(w) PROVE ActiveRuns'
    BY <1>18 DEF WorkerStops, OnlyWorker
  <1>19. CASE Crash
    BY <1>19 DEF Crash, ProcessDies
  <1>20. CASE Exit
    BY <1>20 DEF Exit, ProcessDies
  <1>21. CASE StartWorkers
    BY <1>21 DEF StartWorkers, Halted, Serving
  <1>22. CASE UNCHANGED <<active, pc, job>>
    BY <1>22
  <1> HIDE DEF TypeOK, ActiveRuns, Owning, Registered, Goto, Idle
  <1>23. QED BY <1>1, <1>2, <1>3, <1>4, <1>5, <1>6, <1>7, <1>8, <1>9, <1>10,
    <1>11, <1>12, <1>13, <1>14, <1>15, <1>16, <1>17, <1>18, <1>19, <1>20,
    <1>21, <1>22, ZenonT(30) DEF Next, WorkerStep, Environment, Lifetime, vars,
    AddDownload, TriggerAdded, CancelLookup, CancelRow, YtdlpEnds,
    WatcherQueues, RemoveFolder, StopBegins, StopCancels, StopCloses,
    StopDrained, StopGivesUp, StartMarks, AddEncodeJob, CancelDownloadJob,
    DbFails, MarkDownloadingAsFailed, Serving, SetRow

LEMMA YtdlpStep ==
    ASSUME TypeOK, Halted, OneRunner, Taken, YtdlpHasWorker, [Next]_vars
    PROVE  YtdlpHasWorker'
  <1> USE DEF TypeOK, YtdlpHasWorker, Owning, Registered, Goto, Idle
  <1>1. ASSUME NEW w \in Workers, Wake(w) PROVE YtdlpHasWorker'
    BY <1>1 DEF Wake
  <1>2. ASSUME NEW w \in Workers, CheckStop(w) PROVE YtdlpHasWorker'
    BY <1>2 DEF CheckStop, OnlyWorker
  <1>3. ASSUME NEW w \in Workers, LoadPending(w) PROVE YtdlpHasWorker'
    BY <1>3 DEF LoadPending, OnlyWorker, DbFails
  <1>4. ASSUME NEW w \in Workers, Claim(w) PROVE YtdlpHasWorker'
    BY <1>4 DEF Claim, OnlyWorker, SetRow, DbFails, ClaimDownloadJob
  <1>5. ASSUME NEW w \in Workers, Yield(w) PROVE YtdlpHasWorker'
    BY <1>5 DEF Yield
  <1>6. ASSUME NEW w \in Workers, Register(w) PROVE YtdlpHasWorker'
    BY <1>6 DEF Register
  <1>7. ASSUME NEW w \in Workers, StartYtdlp(w) PROVE YtdlpHasWorker'
    BY <1>7 DEF StartYtdlp
  <1>8. ASSUME NEW w \in Workers, Reap(w) PROVE YtdlpHasWorker'
    BY <1>8 DEF Reap, OneRunner, Owns
  <1>9. ASSUME NEW w \in Workers, TellError(w) PROVE YtdlpHasWorker'
    BY <1>9 DEF TellError, OnlyWorker
  <1>10. ASSUME NEW w \in Workers, MarkCancelled(w) PROVE YtdlpHasWorker'
    BY <1>10 DEF MarkCancelled, OnlyWorker, SetRow, DbFails, CancelDownloadJob
  <1>11. ASSUME NEW w \in Workers, MarkFailed(w) PROVE YtdlpHasWorker'
    BY <1>11 DEF MarkFailed, OnlyWorker, SetRow, DbFails, FailDownloadJob
  <1>12. ASSUME NEW w \in Workers, Complete(w) PROVE YtdlpHasWorker'
    BY <1>12 DEF Complete, OnlyWorker, SetRow, DbFails, CompleteDownloadJob
  <1>13. ASSUME NEW w \in Workers, FindFolder(w) PROVE YtdlpHasWorker'
    BY <1>13 DEF FindFolder, OnlyWorker, DbFails
  <1>14. ASSUME NEW w \in Workers, CheckKnown(w) PROVE YtdlpHasWorker'
    BY <1>14 DEF CheckKnown, OnlyWorker, DbFails
  <1>15. ASSUME NEW w \in Workers, Enqueue(w) PROVE YtdlpHasWorker'
    BY <1>15 DEF Enqueue, OnlyWorker, DbFails, AddEncodeJob
  <1>16. ASSUME NEW w \in Workers, Deregister(w) PROVE YtdlpHasWorker'
    BY <1>16 DEF Deregister
  <1>17. ASSUME NEW w \in Workers, Again(w) PROVE YtdlpHasWorker'
    BY <1>17 DEF Again
  <1>18. ASSUME NEW w \in Workers, WorkerStops(w) PROVE YtdlpHasWorker'
    BY <1>18 DEF WorkerStops, OnlyWorker
  <1>19. ASSUME NEW d \in Downloads, YtdlpEnds(d) PROVE YtdlpHasWorker'
    BY <1>19 DEF YtdlpEnds
  <1>20. CASE Crash
    BY <1>20 DEF Crash, ProcessDies
  <1>21. CASE Exit
    BY <1>21 DEF Exit, ProcessDies
  <1>22. CASE StartWorkers
    BY <1>22 DEF StartWorkers, Halted, Serving
  <1>23. CASE UNCHANGED <<ytdlp, pc, job>>
    BY <1>23
  <1> HIDE DEF TypeOK, YtdlpHasWorker, Owning, Registered, Goto, Idle
  <1>24. QED BY <1>1, <1>2, <1>3, <1>4, <1>5, <1>6, <1>7, <1>8, <1>9, <1>10,
    <1>11, <1>12, <1>13, <1>14, <1>15, <1>16, <1>17, <1>18, <1>19, <1>20,
    <1>21, <1>22, <1>23, ZenonT(30) DEF Next, WorkerStep, Environment,
    Lifetime, vars, AddDownload, TriggerAdded, CancelLookup, CancelRow,
    WatcherQueues, RemoveFolder, StopBegins, StopCancels, StopCloses,
    StopDrained, StopGivesUp, StartMarks, AddEncodeJob, CancelDownloadJob,
    DbFails, MarkDownloadingAsFailed, Serving, SetRow

LEMMA ShownStep ==
    ASSUME TypeOK, Halted, OneRunner, Taken, RowOfRun, ShownRowsRun, [Next]_vars
    PROVE  ShownRowsRun'
  <1> USE DEF TypeOK, ShownRowsRun, Serving, Owns, Owning, Registered, Goto,
    Idle
  <1>1. ASSUME NEW w \in Workers, Wake(w) PROVE ShownRowsRun'
    BY <1>1 DEF Wake
  <1>2. ASSUME NEW w \in Workers, CheckStop(w) PROVE ShownRowsRun'
    BY <1>2 DEF CheckStop, OnlyWorker
  <1>3. ASSUME NEW w \in Workers, LoadPending(w) PROVE ShownRowsRun'
    BY <1>3 DEF LoadPending, OnlyWorker, DbFails, Pending
  <1>4. ASSUME NEW w \in Workers, Claim(w) PROVE ShownRowsRun'
    <2>1. \A v \in Workers, d \in Downloads : Owns(v, d) => Owns(v, d)'
      BY <1>4 DEF Claim
    <2>2. \A d \in Downloads : row'[d] = "downloading" =>
              row[d] = "downloading" \/ Owns(w, d)'
      BY <1>4 DEF Claim, SetRow, DbFails, ClaimDownloadJob
    <2>3. stage' = stage /\ (dbErrs' = 0 => dbErrs = 0)
      BY <1>4 DEF Claim, OnlyWorker, SetRow, DbFails, ClaimDownloadJob
    <2>4. stage # "marked"
      BY <1>4 DEF Claim, Halted
    <2>5. QED BY <2>1, <2>2, <2>3, <2>4 DEF ShownRowsRun, Serving
  <1>5. ASSUME NEW w \in Workers, Yield(w) PROVE ShownRowsRun'
    BY <1>5 DEF Yield
  <1>6. ASSUME NEW w \in Workers, Register(w) PROVE ShownRowsRun'
    BY <1>6 DEF Register
  <1>7. ASSUME NEW w \in Workers, StartYtdlp(w) PROVE ShownRowsRun'
    BY <1>7 DEF StartYtdlp
  <1>8. ASSUME NEW w \in Workers, Reap(w) PROVE ShownRowsRun'
    BY <1>8 DEF Reap
  <1>9. ASSUME NEW w \in Workers, TellError(w) PROVE ShownRowsRun'
    BY <1>9 DEF TellError, OnlyWorker
  <1>10. ASSUME NEW w \in Workers, MarkCancelled(w) PROVE ShownRowsRun'
    BY <1>10 DEF MarkCancelled, OnlyWorker, SetRow, DbFails, CancelDownloadJob
  <1>11. ASSUME NEW w \in Workers, MarkFailed(w) PROVE ShownRowsRun'
    BY <1>11 DEF MarkFailed, OnlyWorker, SetRow, DbFails, FailDownloadJob
  <1>12. ASSUME NEW w \in Workers, Complete(w) PROVE ShownRowsRun'
    BY <1>12 DEF Complete, OnlyWorker, SetRow, DbFails, CompleteDownloadJob
  <1>13. ASSUME NEW w \in Workers, FindFolder(w) PROVE ShownRowsRun'
    BY <1>13 DEF FindFolder, OnlyWorker, DbFails
  <1>14. ASSUME NEW w \in Workers, CheckKnown(w) PROVE ShownRowsRun'
    BY <1>14 DEF CheckKnown, OnlyWorker, DbFails
  <1>15. ASSUME NEW w \in Workers, Enqueue(w) PROVE ShownRowsRun'
    BY <1>15 DEF Enqueue, OnlyWorker, DbFails, AddEncodeJob
  <1>16. ASSUME NEW w \in Workers, Deregister(w) PROVE ShownRowsRun'
    BY <1>16 DEF Deregister, RowOfRun, After
  <1>17. ASSUME NEW w \in Workers, Again(w) PROVE ShownRowsRun'
    BY <1>17 DEF Again
  <1>18. ASSUME NEW w \in Workers, WorkerStops(w) PROVE ShownRowsRun'
    BY <1>18 DEF WorkerStops, OnlyWorker
  <1>19. ASSUME NEW d \in Downloads, NEW b \in BOOLEAN, AddDownload(d, b) PROVE
    ShownRowsRun'
    BY <1>19 DEF AddDownload
  <1>20. ASSUME NEW c \in Cancellers, CancelRow(c) PROVE ShownRowsRun'
    BY <1>20 DEF CancelRow, SetRow, DbFails, CancelDownloadJob
  <1>21. CASE StopBegins
    BY <1>21 DEF StopBegins
  <1>22. CASE StopCloses
    BY <1>22 DEF StopCloses
  <1>23. CASE StopDrained
    BY <1>23 DEF StopDrained
  <1>24. CASE StopGivesUp
    BY <1>24 DEF StopGivesUp
  <1>25. CASE Crash
    BY <1>25 DEF Crash, ProcessDies
  <1>26. CASE Exit
    BY <1>26 DEF Exit, ProcessDies
  <1>27. CASE StartMarks
    BY <1>27 DEF StartMarks, MarkDownloadingAsFailed, DbFails
  <1>28. CASE StartWorkers
    BY <1>28 DEF StartWorkers, Halted
  <1>29. CASE UNCHANGED <<row, dbErrs, pc, job, stage>>
    BY <1>29 DEF TypeOK, ShownRowsRun, Serving, Owns, Owning, Registered, Goto,
      Idle
  <1> HIDE DEF TypeOK, ShownRowsRun, Serving, Owns, Owning, Registered, Goto,
    Idle
  <1>30. QED BY <1>1, <1>2, <1>3, <1>4, <1>5, <1>6, <1>7, <1>8, <1>9, <1>10,
    <1>11, <1>12, <1>13, <1>14, <1>15, <1>16, <1>17, <1>18, <1>19, <1>20,
    <1>21, <1>22, <1>23, <1>24, <1>25, <1>26, <1>27, <1>28, <1>29, ZenonT(30)
    DEF Next, WorkerStep, Environment, Lifetime, vars, TriggerAdded,
    CancelLookup, YtdlpEnds, WatcherQueues, RemoveFolder, StopCancels,
    AddEncodeJob, Serving

(* Manager.active holds exactly the runs a cancel can stop, yt-dlp works   *)
(* only for a worker that waits for it, and as long as no statement failed *)
(* a row shown as "downloading" has a worker, after restarts too.          *)
THEOREM RegistryExact == Spec => []RegistryMatchesRuns
  <1> DEFINE RegInv == ActiveRuns /\ YtdlpHasWorker /\ ShownRowsRun
  <1>1. Init => RegInv
    BY DEF Init, ActiveRuns, YtdlpHasWorker, ShownRowsRun, Registered
  <1>2. OwnerInv /\ RegInv /\ [Next]_vars => RegInv'
    BY ActiveStep, YtdlpStep, ShownStep DEF OwnerInv
  <1>3. RegInv => RegistryMatchesRuns
    BY DEF ActiveRuns, YtdlpHasWorker, ShownRowsRun, RegistryMatchesRuns
  <1> HIDE DEF RegInv
  <1>4. QED BY <1>1, <1>2, <1>3, OwnerInvariant, PTL DEF Spec

-----------------------------------------------------------------------------
(* Wakeups. *)

LEMMA TokenStep ==
    ASSUME TypeOK, Halted, NoForgottenDownload, [Next]_vars
    PROVE  NoForgottenDownload'
  <1> USE DEF TypeOK, NoForgottenDownload, Pending, Serving, Goto, Idle
  <1>1. ASSUME NEW w \in Workers, Wake(w) PROVE NoForgottenDownload'
    BY <1>1 DEF Wake
  <1>2. ASSUME NEW w \in Workers, CheckStop(w) PROVE NoForgottenDownload'
    BY <1>2 DEF CheckStop, OnlyWorker
  <1>3. ASSUME NEW w \in Workers, LoadPending(w) PROVE NoForgottenDownload'
    BY <1>3 DEF LoadPending, OnlyWorker, DbFails, OnlyWorker
  <1>4. ASSUME NEW w \in Workers, Claim(w) PROVE NoForgottenDownload'
    BY <1>4 DEF Claim, OnlyWorker, SetRow, DbFails, ClaimDownloadJob
  <1>5. ASSUME NEW w \in Workers, Yield(w) PROVE NoForgottenDownload'
    BY <1>5 DEF Yield
  <1>6. ASSUME NEW w \in Workers, Register(w) PROVE NoForgottenDownload'
    BY <1>6 DEF Register
  <1>7. ASSUME NEW w \in Workers, StartYtdlp(w) PROVE NoForgottenDownload'
    BY <1>7 DEF StartYtdlp
  <1>8. ASSUME NEW w \in Workers, Reap(w) PROVE NoForgottenDownload'
    BY <1>8 DEF Reap
  <1>9. ASSUME NEW w \in Workers, TellError(w) PROVE NoForgottenDownload'
    BY <1>9 DEF TellError, OnlyWorker
  <1>10. ASSUME NEW w \in Workers, MarkCancelled(w) PROVE NoForgottenDownload'
    BY <1>10 DEF MarkCancelled, OnlyWorker, SetRow, DbFails, CancelDownloadJob
  <1>11. ASSUME NEW w \in Workers, MarkFailed(w) PROVE NoForgottenDownload'
    BY <1>11 DEF MarkFailed, OnlyWorker, SetRow, DbFails, FailDownloadJob
  <1>12. ASSUME NEW w \in Workers, Complete(w) PROVE NoForgottenDownload'
    BY <1>12 DEF Complete, OnlyWorker, SetRow, DbFails, CompleteDownloadJob
  <1>13. ASSUME NEW w \in Workers, FindFolder(w) PROVE NoForgottenDownload'
    BY <1>13 DEF FindFolder, OnlyWorker, DbFails
  <1>14. ASSUME NEW w \in Workers, CheckKnown(w) PROVE NoForgottenDownload'
    BY <1>14 DEF CheckKnown, OnlyWorker, DbFails
  <1>15. ASSUME NEW w \in Workers, Enqueue(w) PROVE NoForgottenDownload'
    BY <1>15 DEF Enqueue, OnlyWorker, DbFails, AddEncodeJob
  <1>16. ASSUME NEW w \in Workers, Deregister(w) PROVE NoForgottenDownload'
    BY <1>16 DEF Deregister
  <1>17. ASSUME NEW w \in Workers, Again(w) PROVE NoForgottenDownload'
    BY <1>17 DEF Again
  <1>18. ASSUME NEW w \in Workers, WorkerStops(w) PROVE NoForgottenDownload'
    BY <1>18 DEF WorkerStops, OnlyWorker
  <1>19. ASSUME NEW d \in Downloads, NEW b \in BOOLEAN, AddDownload(d, b) PROVE
    NoForgottenDownload'
    BY <1>19 DEF AddDownload
  <1>20. ASSUME NEW d \in Downloads, TriggerAdded(d) PROVE NoForgottenDownload'
    BY <1>20 DEF TriggerAdded
  <1>21. ASSUME NEW c \in Cancellers, CancelRow(c) PROVE NoForgottenDownload'
    BY <1>21 DEF CancelRow, SetRow, DbFails, CancelDownloadJob
  <1>22. CASE StopBegins
    BY <1>22 DEF StopBegins
  <1>23. CASE StopCloses
    BY <1>23 DEF StopCloses
  <1>24. CASE StopDrained
    BY <1>24 DEF StopDrained
  <1>25. CASE StopGivesUp
    BY <1>25 DEF StopGivesUp
  <1>26. CASE Crash
    BY <1>26 DEF Crash, ProcessDies
  <1>27. CASE Exit
    BY <1>27 DEF Exit, ProcessDies
  <1>28. CASE StartMarks
    BY <1>28 DEF StartMarks, MarkDownloadingAsFailed, DbFails
  <1>29. CASE StartWorkers
    BY <1>29 DEF StartWorkers
  <1>30. CASE UNCHANGED <<row, dbErrs, trigger, pc, adding, stage,
    shuttingDown>>
    BY <1>30
  <1> HIDE DEF TypeOK, NoForgottenDownload, Pending, Serving, Goto, Idle
  <1>31. QED BY <1>1, <1>2, <1>3, <1>4, <1>5, <1>6, <1>7, <1>8, <1>9, <1>10,
    <1>11, <1>12, <1>13, <1>14, <1>15, <1>16, <1>17, <1>18, <1>19, <1>20,
    <1>21, <1>22, <1>23, <1>24, <1>25, <1>26, <1>27, <1>28, <1>29, <1>30,
    ZenonT(30) DEF Next, WorkerStep, Environment, Lifetime, vars, CancelLookup,
    YtdlpEnds, WatcherQueues, RemoveFolder, StopCancels, AddEncodeJob, Serving

(* No pending download is forgotten, for any number of workers: a token    *)
(* that is taken comes back, or nothing is pending.                        *)
THEOREM NoLostWakeup == Spec => []NoForgottenDownload
  <1>1. Init => NoForgottenDownload
    BY DEF Init, NoForgottenDownload, Pending
  <1>2. OwnerInv /\ NoForgottenDownload /\ [Next]_vars => NoForgottenDownload'
    BY TokenStep DEF OwnerInv
  <1>3. QED BY <1>1, <1>2, OwnerInvariant, PTL DEF Spec

-----------------------------------------------------------------------------
(* The hand-over. *)

Handed ==
    \A w \in Workers :
        /\ pc[w] = "deregister" /\ row[job[w]] = "completed"
        /\ encodes[job[w]] /\ folder /\ dbErrs = 0
        => job[w] \in known

LEMMA HandedStep ==
    ASSUME TypeOK, Halted, OneRunner, Taken, RowOfRun, Handed, [Next]_vars
    PROVE  Handed'
  <1>a. SUFFICES ASSUME dbErrs' = 0 PROVE Handed'
    BY DEF Handed
  <1>b. ~DbFails
    BY <1>a DEF TypeOK, DbFails
  <1> USE DEF TypeOK, Handed, Owning, Registered, Goto, Idle
  <1>1. ASSUME NEW w \in Workers, Wake(w) PROVE Handed'
    BY <1>1, <1>b DEF Wake
  <1>2. ASSUME NEW w \in Workers, CheckStop(w) PROVE Handed'
    BY <1>2, <1>b DEF CheckStop, OnlyWorker
  <1>3. ASSUME NEW w \in Workers, LoadPending(w) PROVE Handed'
    BY <1>3, <1>b DEF LoadPending, OnlyWorker, Pending
  <1>4. ASSUME NEW w \in Workers, Claim(w) PROVE Handed'
    <2>1. UNCHANGED <<encodes, folder, known, dbErrs>>
      BY <1>4, <1>b DEF Claim, ClaimDownloadJob, SetRow, OnlyWorker
    <2>2. \A d \in Downloads : row'[d] = "completed" => row[d] = "completed"
      BY <1>4, <1>b DEF Claim, ClaimDownloadJob, SetRow
    <2>3. \A v \in Workers : pc'[v] = "deregister" =>
              job'[v] = job[v] /\ pc[v] = "deregister"
      BY <1>4 DEF Claim, OnlyWorker
    <2>4. QED BY <2>1, <2>2, <2>3
  <1>5. ASSUME NEW w \in Workers, Yield(w) PROVE Handed'
    BY <1>5, <1>b DEF Yield
  <1>6. ASSUME NEW w \in Workers, Register(w) PROVE Handed'
    BY <1>6, <1>b DEF Register
  <1>7. ASSUME NEW w \in Workers, StartYtdlp(w) PROVE Handed'
    BY <1>7, <1>b DEF StartYtdlp
  <1>8. ASSUME NEW w \in Workers, Reap(w) PROVE Handed'
    BY <1>8, <1>b DEF Reap
  <1>9. ASSUME NEW w \in Workers, TellError(w) PROVE Handed'
    BY <1>9, <1>b DEF TellError, OnlyWorker
  <1>10. ASSUME NEW w \in Workers, MarkCancelled(w) PROVE Handed'
    <2>1. UNCHANGED <<encodes, folder, known, dbErrs>>
      BY <1>10, <1>b DEF MarkCancelled, CancelDownloadJob, SetRow, OnlyWorker
    <2>2. /\ row'[job[w]] # "completed"
          /\ \A d \in Downloads : row'[d] = "completed" => row[d] = "completed"
      BY <1>10, <1>b DEF MarkCancelled, CancelDownloadJob, SetRow, RowOfRun, Before
    <2>3. \A v \in Workers : pc'[v] = "deregister" =>
              job'[v] = job[v] /\ (v = w \/ pc[v] = "deregister")
      BY <1>10 DEF MarkCancelled, OnlyWorker
    <2>4. QED BY <2>1, <2>2, <2>3
  <1>11. ASSUME NEW w \in Workers, MarkFailed(w) PROVE Handed'
    <2>1. UNCHANGED <<encodes, folder, known, dbErrs>>
      BY <1>11, <1>b DEF MarkFailed, FailDownloadJob, SetRow, OnlyWorker
    <2>2. /\ row'[job[w]] # "completed"
          /\ \A d \in Downloads : row'[d] = "completed" => row[d] = "completed"
      BY <1>11, <1>b DEF MarkFailed, FailDownloadJob, SetRow, RowOfRun, Before
    <2>3. \A v \in Workers : pc'[v] = "deregister" =>
              job'[v] = job[v] /\ (v = w \/ pc[v] = "deregister")
      BY <1>11 DEF MarkFailed, OnlyWorker
    <2>4. QED BY <2>1, <2>2, <2>3
  <1>12. ASSUME NEW w \in Workers, Complete(w) PROVE Handed'
    <2>1. UNCHANGED <<encodes, folder, known, dbErrs>>
      BY <1>12, <1>b DEF Complete, CompleteDownloadJob, SetRow, OnlyWorker
    <2>2. \A d \in Downloads : d # job[w] => row'[d] = row[d]
      BY <1>12, <1>b DEF Complete, CompleteDownloadJob, SetRow
    <2>3. \A v \in Workers : pc'[v] = "deregister" =>
              /\ job'[v] = job[v]
              /\ v # w => pc[v] = "deregister" /\ job[v] # job[w]
      BY <1>12 DEF Complete, OnlyWorker, OneRunner, Owns
    <2>4. pc'[w] = "deregister" => ~encodes[job[w]]
      BY <1>12, Zenon DEF Complete
    <2>5. QED BY <2>1, <2>2, <2>3, <2>4
  <1>13. ASSUME NEW w \in Workers, FindFolder(w) PROVE Handed'
    BY <1>13, <1>b DEF FindFolder, OnlyWorker
  <1>14. ASSUME NEW w \in Workers, CheckKnown(w) PROVE Handed'
    BY <1>14, <1>b DEF CheckKnown, OnlyWorker
  <1>15. ASSUME NEW w \in Workers, Enqueue(w) PROVE Handed'
    BY <1>15, <1>b DEF Enqueue, OnlyWorker, AddEncodeJob
  <1>16. ASSUME NEW w \in Workers, Deregister(w) PROVE Handed'
    BY <1>16, <1>b DEF Deregister
  <1>17. ASSUME NEW w \in Workers, Again(w) PROVE Handed'
    BY <1>17, <1>b DEF Again
  <1>18. ASSUME NEW w \in Workers, WorkerStops(w) PROVE Handed'
    BY <1>18, <1>b DEF WorkerStops, OnlyWorker
  <1>19. ASSUME NEW d \in Downloads, NEW b \in BOOLEAN, AddDownload(d, b) PROVE
    Handed'
    BY <1>19, <1>b DEF AddDownload, Serving, Taken, Owns
  <1>20. ASSUME NEW c \in Cancellers, CancelRow(c) PROVE Handed'
    <2>1. UNCHANGED <<encodes, folder, known, dbErrs>>
      BY <1>20, <1>b DEF CancelRow, CancelDownloadJob, SetRow, OnlyWorker
    <2>2. \A d \in Downloads : row'[d] = "completed" => row[d] = "completed"
      BY <1>20, <1>b DEF CancelRow, CancelDownloadJob, SetRow
    <2>3. \A v \in Workers : pc'[v] = "deregister" =>
              job'[v] = job[v] /\ pc[v] = "deregister"
      BY <1>20 DEF CancelRow, OnlyWorker
    <2>4. QED BY <2>1, <2>2, <2>3
  <1>21. ASSUME NEW d \in Downloads, WatcherQueues(d) PROVE Handed'
    BY <1>21, <1>b DEF WatcherQueues, AddEncodeJob, Serving
  <1>22. CASE RemoveFolder
    BY <1>22, <1>b DEF RemoveFolder, Serving
  <1>23. CASE Crash
    BY <1>23, <1>b DEF Crash, ProcessDies
  <1>24. CASE Exit
    BY <1>24, <1>b DEF Exit, ProcessDies
  <1>25. CASE StartMarks
    BY <1>25, <1>b DEF StartMarks, MarkDownloadingAsFailed, Halted, Serving
  <1>26. CASE StartWorkers
    BY <1>26, <1>b DEF StartWorkers, Halted, Serving
  <1>27. CASE UNCHANGED <<row, encodes, folder, known, dbErrs, pc, job>>
    BY <1>27, <1>b
  <1> HIDE DEF TypeOK, Handed, Owning, Registered, Goto, Idle
  <1>28. QED BY <1>1, <1>2, <1>3, <1>4, <1>5, <1>6, <1>7, <1>8, <1>9, <1>10,
    <1>11, <1>12, <1>13, <1>14, <1>15, <1>16, <1>17, <1>18, <1>19, <1>20,
    <1>21, <1>22, <1>23, <1>24, <1>25, <1>26, <1>27, ZenonT(30) DEF Next,
    WorkerStep, Environment, Lifetime, vars, TriggerAdded, CancelLookup,
    YtdlpEnds, StopBegins, StopCancels, StopCloses, StopDrained, StopGivesUp,
    Serving

(* A worker that leaves a completed download which was to be encoded leaves *)
(* it known to the encode queue, unless the folder went or a statement      *)
(* failed.                                                                  *)
THEOREM HandedOver == Spec => []HandoverComplete
  <1>1. Init => Handed
    BY DEF Init, Handed
  <1>2. OwnerInv /\ Handed /\ [Next]_vars => Handed'
    BY HandedStep DEF OwnerInv
  <1>3. OwnerInv /\ Handed => HandoverComplete
    BY DEF Handed, HandoverComplete
  <1>4. QED BY <1>1, <1>2, <1>3, OwnerInvariant, PTL DEF Spec

-----------------------------------------------------------------------------
(* What the page shows is final. *)

StayFinal ==
    \A d \in Downloads :
        /\ row[d] \in {"completed", "failed"} => row'[d] = row[d]
        /\ row[d] = "cancelled" /\ ~(\E w \in Workers : Owns(w, d)) =>
               row'[d] = "cancelled"

LEMMA FinalStep ==
    ASSUME TypeOK, Halted, OneRunner, Taken, RowOfRun, [Next]_vars
    PROVE  StayFinal
  <1> USE DEF TypeOK, StayFinal, Owning, Registered
  <1>1. ASSUME NEW w \in Workers, Claim(w) PROVE StayFinal
    BY <1>1 DEF Claim, Goto, Idle, OnlyWorker, SetRow, DbFails,
      ClaimDownloadJob
  <1>2. ASSUME NEW w \in Workers, MarkCancelled(w) PROVE StayFinal
    BY <1>2 DEF MarkCancelled, Goto, OnlyWorker, SetRow, DbFails,
      CancelDownloadJob, Owns, RowOfRun, Before
  <1>3. ASSUME NEW w \in Workers, MarkFailed(w) PROVE StayFinal
    BY <1>3 DEF MarkFailed, Goto, OnlyWorker, SetRow, DbFails, FailDownloadJob,
      Owns, RowOfRun, Before
  <1>4. ASSUME NEW w \in Workers, Complete(w) PROVE StayFinal
    BY <1>4 DEF Complete, Goto, OnlyWorker, SetRow, DbFails,
      CompleteDownloadJob, Owns, RowOfRun, Before
  <1>5. ASSUME NEW d \in Downloads, NEW b \in BOOLEAN, AddDownload(d, b) PROVE
    StayFinal
    BY <1>5 DEF AddDownload, Serving
  <1>6. ASSUME NEW c \in Cancellers, CancelRow(c) PROVE StayFinal
    BY <1>6 DEF CancelRow, SetRow, DbFails, CancelDownloadJob
  <1>7. CASE StartMarks
    BY <1>7 DEF StartMarks, MarkDownloadingAsFailed, DbFails
  <1>8. CASE UNCHANGED row
    BY <1>8
  <1> HIDE DEF TypeOK, StayFinal, Owning, Registered
  <1>9. QED BY <1>1, <1>2, <1>3, <1>4, <1>5, <1>6, <1>7, <1>8, ZenonT(30) DEF
    Next, WorkerStep, Environment, Lifetime, vars, Wake, CheckStop,
    LoadPending, Yield, Register, StartYtdlp, Reap, TellError, FindFolder,
    CheckKnown, Enqueue, Deregister, Again, WorkerStops, TriggerAdded,
    CancelLookup, YtdlpEnds, WatcherQueues, RemoveFolder, StopBegins,
    StopCancels, StopCloses, StopDrained, StopGivesUp, Crash, Exit,
    StartWorkers, AddEncodeJob, DbFails, Goto, Idle, OnlyWorker, ProcessDies,
    Serving

(* A completed or failed download never changes, and a cancelled one only  *)
(* while a run the cancel missed is still at work on it.                   *)
THEOREM RowsFinal == Spec => FinalRows
  <1>1. OwnerInv /\ [Next]_vars => [StayFinal]_vars
    BY FinalStep DEF OwnerInv
  <1>2. Spec => [][StayFinal]_vars
    BY <1>1, OwnerInvariant, PTL DEF Spec
  <1>3. QED BY <1>2 DEF FinalRows, StayFinal
=============================================================================
