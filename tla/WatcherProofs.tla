---------------------------- MODULE WatcherProofs ----------------------------
(***************************************************************************)
(* Theorems about Watcher for any number of files, folders, workers,       *)
(* timers, requests and faults.                                            *)
(***************************************************************************)
EXTENDS Watcher, TLAPS

USE DEF storeVars, fsVars, timerVars, runVars, walkVars, scanVars, requestVars, historyVars

(* The type invariant in parts, each with one lemma: a step of Next that   *)
(* touches none of its variables keeps it, and each of the others does     *)
(* too.                                                                    *)
RunTypes ==
    /\ pc \in [Runners -> {"idle", "wait", "check", "folder", "record", "stopped"}]
    /\ file \in [Runners -> Files \cup {NoFile}]
    /\ \A w \in Runners : (file[w] = NoFile) <=> (pc[w] \in {"idle", "stopped"})
    /\ grew \in [Runners -> BOOLEAN]

(* A worker counts the polls since the last write, whenever it would be    *)
(* right about the next one.                                               *)
QuietTypes ==
    /\ same \in [Runners -> BOOLEAN]
    /\ count \in [Runners -> 0 .. StableNeeded - 1]
    /\ quiet \in [Runners -> 0 .. StableNeeded]
    /\ \A w \in Runners : same[w] => quiet[w] = count[w]
    /\ \A w \in Runners : pc[w] = "idle" => quiet[w] = 0 /\ count[w] = 0
    /\ \A w \in Runners : ~same[w] => quiet[w] = 0

ChanTypes == processChan \in Seq(Files) /\ Len(processChan) <= ChanCap

TimerTypes ==
    /\ entry \in [Files -> {"none", "live", "fired"}]
    /\ orphans \in [Files -> 0 .. MaxTimers]
    /\ callbacks \in [Files -> 0 .. MaxTimers]
    /\ \A f \in Files : Timers(f) <= MaxTimers
    /\ \A f \in Files : entry[f] = "fired" => callbacks[f] > 0

TableTypes ==
    /\ StoreTypeOK
    /\ requeuing \in Files \cup {NoFile}
    /\ handing \in [file : Files \cup {NoFile}, checked : BOOLEAN]
    /\ handing # NoHand => handing.file \in Files
    /\ requests \in 0 .. MaxRequests

AdminTypes ==
    /\ admin \in [kind : Kinds, root : Roots \cup {NoRoot}, to : Roots \cup {NoRoot}]
    /\ step \in {"idle", "row", "drop", "reload", "walking", "purge"}
    /\ step # "idle" => admin.root \in Roots /\ admin.to \in Roots
    /\ (step = "idle") <=> (admin.kind = "none")

RestTypes ==
    /\ fs \in [Files -> {"absent", "growing", "whole", "gone"}]
    /\ watched \in SUBSET Roots
    /\ walk \in {"none", "periodic", "reload", "replace"}
    /\ walkOn \in SUBSET Roots
    /\ walkFiles \in SUBSET Files
    /\ ask \in [step : {"none", "query", "lock"}, root : Roots \cup {NoRoot},
                force : BOOLEAN, files : SUBSET Files]
    /\ ask.files \subseteq Under(ask.root)
    /\ scan \in {"idle", "walk", "queue"}
    /\ scanForce \in BOOLEAN
    /\ scanFiles \in SUBSET Files
    /\ stopped \in BOOLEAN
    /\ raced \in SUBSET Files
    /\ stray \in SUBSET Files

(* A function into BOOLEAN stays one when a flag is set. *)
LEMMA FlagSet ==
    ASSUME NEW S, NEW g \in [S -> BOOLEAN], NEW s \in S, NEW b \in BOOLEAN
    PROVE  [g EXCEPT ![s] = b] \in [S -> BOOLEAN]
  OBVIOUS

(* The ways a worker moves from label to label keep its types. *)
LEMMA BeginTypes ==
    ASSUME RunTypes, NEW w \in Runners, pc[w] = "idle", NEW f \in Files,
           NEW label \in {"wait", "check"}, Begin(w, f, label)
    PROVE  RunTypes'
  BY WatcherAssumption DEF RunTypes, Begin

LEMMA GotoTypes ==
    ASSUME RunTypes, NEW w \in Runners, pc[w] \in {"wait", "check", "folder"},
           NEW label \in {"check", "folder", "record"}, Goto(w, label)
    PROVE  RunTypes'
  BY WatcherAssumption DEF RunTypes, Goto

LEMMA ReturnTypes ==
    ASSUME RunTypes, NEW w \in Runners, Return(w)
    PROVE  RunTypes'
  BY WatcherAssumption DEF RunTypes, Return

LEMMA PollTypes ==
    ASSUME RunTypes, NEW w \in Runners, Poll(w)
    PROVE  RunTypes'
  <1>1. CASE Counted(w)
    BY <1>1, GotoTypes DEF Counted, RunTypes, Poll
  <1>2. CASE Return(w)
    BY <1>2, ReturnTypes
  <1>3. CASE UNCHANGED <<pc, file, grew>>
    BY <1>3 DEF RunTypes
  <1>4. QED BY <1>1, <1>2, <1>3 DEF Poll

(* The workers: their label and file agree. *)
LEMMA RunTypesStep ==
    ASSUME RunTypes, ChanTypes, [Next]_vars
    PROVE  RunTypes'
  <1> USE StoreAssumption, WatcherAssumption DEF RunTypes
  <1>1. ASSUME NEW w \in Runners, TakeEvent(w) PROVE RunTypes'
    <2>1. Head(processChan) \in Files
      BY <1>1 DEF TakeEvent, ChanTypes
    <2>2. QED BY <1>1, <2>1, BeginTypes DEF TakeEvent
  <1>2. ASSUME NEW w \in Runners, WorkerStops(w) PROVE RunTypes'
    BY <1>2 DEF WorkerStops, Goto, OnlyRunner
  <1>3. ASSUME NEW w \in Runners, Poll(w) PROVE RunTypes'
    BY <1>3, PollTypes
  <1>4. ASSUME NEW w \in Runners, GiveUp(w) PROVE RunTypes'
    BY <1>4, ReturnTypes DEF GiveUp
  <1>5. ASSUME NEW w \in Runners, Check(w) PROVE RunTypes'
    BY <1>5, GotoTypes, ReturnTypes DEF Check
  <1>6. ASSUME NEW w \in Runners, FindWatchFolder(w) PROVE RunTypes'
    BY <1>6, GotoTypes, ReturnTypes DEF FindWatchFolder
  <1>7. ASSUME NEW w \in Runners, Record(w) PROVE RunTypes'
    BY <1>7, ReturnTypes DEF Record
  <1>8. ASSUME NEW w \in Runners, NEW f \in Files, TakeScan(w, f) PROVE
    RunTypes'
    BY <1>8, BeginTypes DEF TakeScan
  <1>9. ASSUME NEW f \in Files, Grow(f) PROVE RunTypes'
    <2>1. \A w \in Runners : (grew[w] \/ w \in Waiting(f)) \in BOOLEAN
      BY Zenon
    <2>2. grew' \in [Runners -> BOOLEAN]
      BY <1>9, <2>1, Zenon DEF Grow
    <2>3. QED BY <1>9, <2>2 DEF Grow
  <1>10. CASE Restart
    BY <1>10 DEF Restart, Fresh
  <1>11. CASE UNCHANGED <<pc, file, grew>>
    BY <1>11
  <1> HIDE DEF RunTypes
  <1>12. QED BY <1>1, <1>2, <1>3, <1>4, <1>5, <1>6, <1>7, <1>8, <1>9, <1>10,
    <1>11, ZenonT(30) DEF Next, RunnerStep, TimerStep, WalkStep, ScanStep,
    InsertStep, AdminStep, Environment, vars, Appear, WriteEnds, Vanish,
    Dispatch, Fire, Callback, PeriodicWalk, WalkVisit, WalkEnds, ScanFolder,
    ScanQuery, ScanLock, ScanWalk, ScanEnds, AdminBegins, AdminRow, AdminDrop,
    AdminReload, AdminPurge, ClearHistory, RequeueChecked, RequeueInserts,
    HandOverBegins, HandOverChecks, HandOverInserts, RunEnds, StopCloses,
    AddRequeuedRow, AddRow, Change, DbFails, DeleteJobsUnder,
    DeleteReportsUnder, FinishRow, NoteRace, OnlyScan, Opened, Proceed,
    RenameFolder, Request, ScheduleIdle, ScheduleReset, SetFolder, StartWalk,
    WriteRow

(* Beginning and ending a wait. *)
LEMMA BeginQuiet ==
    ASSUME QuietTypes, NEW w \in Runners, pc[w] = "idle", NEW f \in Files,
           NEW label \in {"wait", "check"}, Begin(w, f, label)
    PROVE  QuietTypes'
  <1> USE WatcherAssumption DEF QuietTypes
  <1>1. CASE UNCHANGED runVars
    BY <1>1
  <1>2. CASE /\ pc' = [pc EXCEPT ![w] = label]
             /\ same' = [same EXCEPT ![w] = label = "wait"]
             /\ UNCHANGED <<count, quiet>>
    <2>1. (label = "wait") \in BOOLEAN
      BY Zenon
    <2>2. same' \in [Runners -> BOOLEAN]
      BY <1>2, <2>1, FlagSet, Zenon
    <2>3. \A v \in Runners \ {w} : same'[v] = same[v] /\ (pc'[v] = "idle" => pc[v] = "idle")
      BY <1>2
    <2>4. QED BY <1>2, <2>2, <2>3
  <1>3. QED BY <1>1, <1>2 DEF Begin

LEMMA WaitOver ==
    ASSUME QuietTypes, RunTypes, NEW w \in Runners, NEW label, pc' = [pc EXCEPT ![w] = label],
           same' = [same EXCEPT ![w] = FALSE], count' = [count EXCEPT ![w] = 0],
           quiet' = [quiet EXCEPT ![w] = 0]
    PROVE  QuietTypes'
  BY WatcherAssumption DEF QuietTypes, RunTypes

(* Every write between two polls makes the second one find another size.   *)
LEMMA QuietTypesStep ==
    ASSUME QuietTypes, RunTypes, ChanTypes, [Next]_vars
    PROVE  QuietTypes'
  <1> USE WatcherAssumption
  <1>1. ASSUME NEW w \in Runners, TakeEvent(w) PROVE QuietTypes'
    <2>1. Head(processChan) \in Files
      BY <1>1 DEF TakeEvent, ChanTypes
    <2>2. QED BY <1>1, <2>1, BeginQuiet DEF TakeEvent
  <1>2. ASSUME NEW w \in Runners, WorkerStops(w) PROVE QuietTypes'
    BY <1>2, WaitOver DEF WorkerStops, Goto
  <1>3. ASSUME NEW w \in Runners, Poll(w) PROVE QuietTypes'
    <2>1. CASE Return(w)
      BY <2>1, WaitOver DEF Return
    <2>2. CASE same[w] /\ Counted(w)
      <3>1. CASE Goto(w, "check")
        BY <3>1, WaitOver DEF Goto
      <3>2. CASE /\ count[w] + 1 < StableNeeded
                 /\ count' = [count EXCEPT ![w] = @ + 1]
                 /\ quiet' = [quiet EXCEPT ![w] = @ + 1]
                 /\ UNCHANGED <<pc, file, same, grew>>
        BY <1>3, <2>2, <3>2 DEF Poll, QuietTypes
      <3>3. QED BY <2>2, <3>1, <3>2 DEF Counted, QuietTypes
    <2>3. CASE /\ ~same[w]
               /\ same' = [same EXCEPT ![w] = TRUE]
               /\ count' = [count EXCEPT ![w] = 0]
               /\ UNCHANGED <<pc, file, grew, quiet>>
      BY <2>3 DEF QuietTypes
    <2>4. QED BY <1>3, <2>1, <2>2, <2>3 DEF Poll
  <1>4. ASSUME NEW w \in Runners, GiveUp(w) PROVE QuietTypes'
    BY <1>4, WaitOver DEF GiveUp, Return
  <1>5. ASSUME NEW w \in Runners, Check(w) PROVE QuietTypes'
    BY <1>5, WaitOver DEF Check, Goto, Return
  <1>6. ASSUME NEW w \in Runners, FindWatchFolder(w) PROVE QuietTypes'
    BY <1>6, WaitOver DEF FindWatchFolder, Goto, Return
  <1>7. ASSUME NEW w \in Runners, Record(w) PROVE QuietTypes'
    BY <1>7, WaitOver DEF Record, Return
  <1>8. ASSUME NEW w \in Runners, NEW f \in Files, TakeScan(w, f) PROVE
    QuietTypes'
    BY <1>8, BeginQuiet DEF TakeScan, QuietTypes
  <1>9. ASSUME NEW f \in Files, Grow(f) PROVE QuietTypes'
    <2>1. \A w \in Runners : (same[w] /\ w \notin Waiting(f)) \in BOOLEAN
      BY Zenon
    <2>2. same' \in [Runners -> BOOLEAN]
      BY <1>9, <2>1, Zenon DEF Grow
    <2>3. \A w \in Runners : IF w \in Waiting(f)
                           THEN ~same'[w] /\ quiet'[w] = 0 /\ pc[w] # "idle"
                           ELSE same'[w] = same[w] /\ quiet'[w] = quiet[w]
      BY <1>9 DEF Grow, Waiting, QuietTypes
    <2>4. UNCHANGED <<pc, count>> /\ quiet' \in [Runners -> 0 .. StableNeeded]
      BY <1>9 DEF Grow, QuietTypes
    <2>5. QED BY <2>2, <2>3, <2>4 DEF QuietTypes
  <1>10. CASE Restart
    BY <1>10 DEF Restart, Fresh, QuietTypes
  <1>11. CASE UNCHANGED <<pc, same, count, quiet>>
    BY <1>11 DEF QuietTypes
  <1>12. QED BY <1>1, <1>2, <1>3, <1>4, <1>5, <1>6, <1>7, <1>8, <1>9, <1>10,
    <1>11, ZenonT(30) DEF Next, RunnerStep, TimerStep, WalkStep, ScanStep,
    InsertStep, AdminStep, Environment, vars, Appear, WriteEnds, Vanish,
    Dispatch, Fire, Callback, PeriodicWalk, WalkVisit, WalkEnds, ScanFolder,
    ScanQuery, ScanLock, ScanWalk, ScanEnds, AdminBegins, AdminRow, AdminDrop,
    AdminReload, AdminPurge, ClearHistory, RequeueChecked, RequeueInserts,
    HandOverBegins, HandOverChecks, HandOverInserts, RunEnds, StopCloses,
    AddRequeuedRow, AddRow, Change, DbFails, DeleteJobsUnder,
    DeleteReportsUnder, FinishRow, NoteRace, OnlyScan, Opened, Proceed,
    RenameFolder, Request, ScheduleIdle, ScheduleReset, SetFolder, StartWalk,
    WriteRow

(* The process channel is never longer than its capacity. *)
LEMMA ChanTypesStep ==
    ASSUME ChanTypes, [Next]_vars
    PROVE  ChanTypes'
  <1> USE StoreAssumption, WatcherAssumption DEF ChanTypes
  <1>1. ASSUME NEW f \in Files, Callback(f) PROVE ChanTypes'
    BY <1>1 DEF Callback
  <1>2. ASSUME NEW w \in Runners, TakeEvent(w) PROVE ChanTypes'
    BY <1>2 DEF TakeEvent, Begin, OnlyRunner
  <1>3. CASE Restart
    BY <1>3 DEF Restart
  <1>4. CASE UNCHANGED processChan
    BY <1>4
  <1> HIDE DEF ChanTypes
  <1>5. QED BY <1>1, <1>2, <1>3, <1>4, ZenonT(30) DEF Next, RunnerStep,
    TimerStep, WalkStep, ScanStep, InsertStep, AdminStep, Environment, vars,
    Appear, WriteEnds, Vanish, Grow, Dispatch, Fire, WorkerStops, Poll,
    GiveUp, Check, FindWatchFolder, Record, TakeScan, PeriodicWalk, WalkVisit,
    WalkEnds, ScanFolder, ScanQuery, ScanLock, ScanWalk, ScanEnds,
    AdminBegins, AdminRow, AdminDrop, AdminReload, AdminPurge, ClearHistory,
    RequeueChecked, RequeueInserts, HandOverBegins, HandOverChecks,
    HandOverInserts, RunEnds, StopCloses, AddRequeuedRow, AddRow,
    AddSkipReport, Begin, Change, Counted, DbFails, DeleteJobsUnder,
    DeleteReportsUnder, FinishRow, Goto, NoteRace, OnlyRunner, OnlyScan,
    Opened, Proceed, RenameFolder, Request, Return, ScheduleIdle,
    ScheduleReset, SetFolder, StartWalk, WriteRow

(* The timers of a file, with an entry or without, stay below their bound. *)
LEMMA TimerTypesStep ==
    ASSUME TimerTypes, [Next]_vars
    PROVE  TimerTypes'
  <1> USE StoreAssumption, WatcherAssumption DEF TimerTypes, Timers
  <1>1. ASSUME NEW f \in Files, Dispatch(f) PROVE TimerTypes'
    BY <1>1 DEF Dispatch, ScheduleReset, ScheduleIdle
  <1>2. ASSUME NEW f \in Files, Fire(f) PROVE TimerTypes'
    BY <1>2 DEF Fire
  <1>3. ASSUME NEW f \in Files, Callback(f) PROVE TimerTypes'
    BY <1>3 DEF Callback
  <1>4. ASSUME NEW f \in Files, WalkVisit(f) PROVE TimerTypes'
    BY <1>4 DEF WalkVisit, ScheduleIdle
  <1>5. CASE AdminDrop
    BY <1>5 DEF AdminDrop, Proceed
  <1>6. CASE Restart
    BY <1>6 DEF Restart, Fresh
  <1>7. CASE UNCHANGED <<entry, orphans, callbacks>>
    BY <1>7
  <1> HIDE DEF TimerTypes, Timers
  <1>8. QED BY <1>1, <1>2, <1>3, <1>4, <1>5, <1>6, <1>7, ZenonT(30) DEF Next,
    RunnerStep, TimerStep, WalkStep, ScanStep, InsertStep, AdminStep,
    Environment, vars, Appear, WriteEnds, Vanish, Grow, TakeEvent,
    WorkerStops, Poll, GiveUp, Check, FindWatchFolder, Record, TakeScan,
    PeriodicWalk, WalkEnds, ScanFolder, ScanQuery, ScanLock, ScanWalk,
    ScanEnds, AdminBegins, AdminRow, AdminReload, AdminPurge, ClearHistory,
    RequeueChecked, RequeueInserts, HandOverBegins, HandOverChecks,
    HandOverInserts, RunEnds, StopCloses, AddRequeuedRow, AddRow,
    AddSkipReport, Begin, Change, Counted, DbFails, DeleteJobsUnder,
    DeleteReportsUnder, FinishRow, Goto, NoteRace, OnlyRunner, OnlyScan,
    Opened, Proceed, RenameFolder, Request, Return, SetFolder, StartWalk,
    WriteRow

(* There is a request exactly while there is a next statement for it. *)
LEMMA AdminTypesStep ==
    ASSUME AdminTypes, [Next]_vars
    PROVE  AdminTypes'
  <1> USE StoreAssumption, WatcherAssumption DEF AdminTypes, Kinds, NoRequest
  <1>1. CASE WalkEnds
    BY <1>1 DEF WalkEnds, AfterReload
  <1>2. ASSUME NEW kind \in Kinds, NEW r \in Roots, NEW to \in Roots,
    AdminBegins(kind, r, to) PROVE AdminTypes'
    BY <1>2 DEF AdminBegins, Request
  <1>3. CASE AdminRow
    BY <1>3 DEF AdminRow, Proceed
  <1>4. CASE AdminDrop
    BY <1>4 DEF AdminDrop, Proceed
  <1>5. CASE AdminReload
    BY <1>5 DEF AdminReload, AfterReload, StartWalk, Proceed
  <1>6. CASE AdminPurge
    BY <1>6 DEF AdminPurge, DeleteJobsUnder, Proceed, DbFails
  <1>7. CASE Restart
    BY <1>7 DEF Restart
  <1>8. CASE UNCHANGED <<admin, step>>
    BY <1>8
  <1> HIDE DEF AdminTypes, Kinds, NoRequest
  <1>9. QED BY <1>1, <1>2, <1>3, <1>4, <1>5, <1>6, <1>7, <1>8, ZenonT(30) DEF
    Next, RunnerStep, TimerStep, WalkStep, ScanStep, InsertStep, AdminStep,
    Environment, vars, Appear, WriteEnds, Vanish, Grow, Dispatch, Fire,
    Callback, TakeEvent, WorkerStops, Poll, GiveUp, Check, FindWatchFolder,
    Record, TakeScan, PeriodicWalk, WalkVisit, ScanFolder, ScanQuery,
    ScanLock, ScanWalk, ScanEnds, ClearHistory, RequeueChecked,
    RequeueInserts, HandOverBegins, HandOverChecks, HandOverInserts, RunEnds,
    StopCloses, AddRequeuedRow, AddRow, AddSkipReport, Begin, Change, Counted,
    DbFails, DeleteReportsUnder, FinishRow, Goto, NoteRace, OnlyRunner,
    OnlyScan, Opened, Request, Return, ScheduleIdle, ScheduleReset, StartWalk

(* The row a request writes. *)
LEMMA WriteRowTypes ==
    ASSUME AdminTypes, step = "row", WriteRow, folder \in [Roots -> {"none", "on", "off"}]
    PROVE  /\ folder' \in [Roots -> {"none", "on", "off"}]
           /\ UNCHANGED <<rows, reported, faults>>
  <1>1. admin.root \in Roots /\ admin.to \in Roots
    BY DEF AdminTypes
  <1>2. QED BY <1>1 DEF WriteRow, SetFolder, RenameFolder

(* The tables of WatchStore, and what is about to be inserted into them. *)
LEMMA TableTypesStep ==
    ASSUME TableTypes, AdminTypes, RunTypes, [Next]_vars
    PROVE  TableTypes'
  <1> USE StoreAssumption, WatcherAssumption DEF TableTypes, StoreTypeOK
  <1>1. ASSUME NEW w \in Runners, Check(w) PROVE TableTypes'
    BY <1>1 DEF Check, Goto, Return, NoteRace, DbFails, OnlyRunner
  <1>2. ASSUME NEW w \in Runners, FindWatchFolder(w) PROVE TableTypes'
    BY <1>2 DEF FindWatchFolder, Goto, Return, DbFails, OnlyRunner
  <1>3. ASSUME NEW w \in Runners, Record(w) PROVE TableTypes'
    BY <1>3 DEF Record, Return, AddRow, AddSkipReport, DbFails, OnlyRunner,
      RunTypes
  <1>4. CASE PeriodicWalk
    BY <1>4 DEF PeriodicWalk, Opened, DbFails
  <1>5. ASSUME NEW r \in Roots, NEW force \in BOOLEAN, ScanFolder(r, force)
    PROVE TableTypes'
    BY <1>5 DEF ScanFolder, Request
  <1>6. CASE ScanQuery
    BY <1>6 DEF ScanQuery, OnlyScan, DbFails
  <1>7. ASSUME NEW kind \in Kinds, NEW r \in Roots, NEW to \in Roots,
    AdminBegins(kind, r, to) PROVE TableTypes'
    BY <1>7 DEF AdminBegins, Request
  <1>8. CASE AdminRow
    <2>1. CASE WriteRow
      BY <2>1, <1>8, WriteRowTypes DEF AdminRow, Proceed
    <2>2. CASE DbFails
      BY <2>2, <1>8 DEF AdminRow, DbFails, Proceed
    <2>3. CASE UNCHANGED storeVars
      BY <2>3, <1>8 DEF AdminRow, Proceed
    <2>4. UNCHANGED <<requests, requeuing, handing>>
      BY <1>8 DEF AdminRow, Proceed
    <2>5. QED BY <2>1, <2>2, <2>3, <2>4, <1>8 DEF AdminRow
  <1>9. CASE AdminReload
    BY <1>9 DEF AdminReload, Opened, Proceed, DbFails
  <1>10. CASE AdminPurge
    BY <1>10 DEF AdminPurge, DeleteJobsUnder, Proceed, DbFails
  <1>11. ASSUME NEW r \in Roots, ClearHistory(r) PROVE TableTypes'
    BY <1>11 DEF ClearHistory, Request, DeleteReportsUnder
  <1>12. ASSUME NEW f \in Files, RequeueChecked(f) PROVE TableTypes'
    BY <1>12 DEF RequeueChecked, Request, NoteRace
  <1>13. CASE RequeueInserts
    BY <1>13 DEF RequeueInserts, AddRequeuedRow, DbFails
  <1>14. ASSUME NEW f \in Files, HandOverBegins(f) PROVE TableTypes'
    BY <1>14 DEF HandOverBegins, Request
  <1>15. CASE HandOverChecks
    <2>1. UNCHANGED <<folder, rows, reported, requeuing, requests>>
          /\ faults' \in 0 .. MaxFaults
      BY <1>15 DEF HandOverChecks, DbFails
    <2>2. handing' \in [file : Files \cup {NoFile}, checked : BOOLEAN]
      <3>1. handing' = NoHand \/ handing' = [handing EXCEPT !.checked = TRUE]
        BY <1>15 DEF HandOverChecks
      <3>2. NoHand \in [file : Files \cup {NoFile}, checked : BOOLEAN]
        BY DEF NoHand
      <3>3. [handing EXCEPT !.checked = TRUE] \in [file : Files \cup {NoFile}, checked : BOOLEAN]
        OBVIOUS
      <3>4. QED BY <3>1, <3>2, <3>3, Zenon
    <2>3. handing' # NoHand => handing'.file \in Files
      BY <1>15 DEF HandOverChecks
    <2>4. QED BY <2>1, <2>2, <2>3
  <1>16. CASE HandOverInserts
    BY <1>16 DEF HandOverInserts, NoHand, AddRow, DbFails
  <1>17. ASSUME NEW f \in Files, RunEnds(f) PROVE TableTypes'
    BY <1>17 DEF RunEnds, FinishRow, Request
  <1>18. CASE StopCloses
    BY <1>18 DEF StopCloses
  <1>19. CASE Restart
    BY <1>19 DEF Restart, NoHand
  <1>20. CASE UNCHANGED <<folder, rows, reported, faults, requeuing, handing, requests>>
    BY <1>20
  <1> HIDE DEF TableTypes, StoreTypeOK
  <1>21. QED BY <1>1, <1>2, <1>3, <1>4, <1>5, <1>6, <1>7, <1>8, <1>9, <1>10,
    <1>11, <1>12, <1>13, <1>14, <1>15, <1>16, <1>17, <1>18, <1>19, <1>20,
    ZenonT(30) DEF Next, RunnerStep, TimerStep, WalkStep, ScanStep,
    InsertStep, AdminStep, Environment, vars, Appear, WriteEnds, Vanish, Grow,
    Dispatch, Fire, Callback, TakeEvent, WorkerStops, Poll, GiveUp, TakeScan,
    WalkVisit, WalkEnds, ScanLock, ScanWalk, ScanEnds, AdminDrop, Begin,
    Change, Counted, Goto, OnlyRunner, OnlyScan, Proceed, Return,
    ScheduleIdle, ScheduleReset

(* What a request or the periodic loop does to the watches and the walk.   *)
LEMMA WalkBegins ==
    ASSUME RestTypes, NEW kind \in {"periodic", "reload", "replace"},
           NEW roots \in SUBSET Roots, StartWalk(kind, roots)
    PROVE  /\ walk' \in {"none", "periodic", "reload", "replace"}
           /\ walkOn' \in SUBSET Roots
           /\ walkFiles' \in SUBSET Files
  BY DEF StartWalk, RestTypes

(* All else. *)
LEMMA RestTypesStep ==
    ASSUME RestTypes, AdminTypes, RunTypes, TableTypes, [Next]_vars
    PROVE  RestTypes'
  <1> USE StoreAssumption, WatcherAssumption DEF RestTypes, Enabled, Under
  <1>1. ASSUME NEW f \in Files, Appear(f) PROVE RestTypes'
    BY <1>1 DEF Appear, Change
  <1>2. ASSUME NEW f \in Files, WriteEnds(f) PROVE RestTypes'
    BY <1>2 DEF WriteEnds, Change
  <1>3. ASSUME NEW f \in Files, Vanish(f) PROVE RestTypes'
    BY <1>3 DEF Vanish, Change
  <1>4. ASSUME NEW w \in Runners, Check(w) PROVE RestTypes'
    BY <1>4 DEF Check, Goto, Return, NoteRace, DbFails, OnlyRunner, RunTypes
  <1>5. ASSUME NEW w \in Runners, NEW f \in Files, TakeScan(w, f) PROVE
    RestTypes'
    BY <1>5 DEF TakeScan, Begin, OnlyRunner
  <1>6. CASE PeriodicWalk
    <2>1. PICK roots \in SUBSET Enabled : /\ StartWalk("periodic", roots)
                                         /\ watched' = watched \cup roots
      BY <1>6 DEF PeriodicWalk
    <2>2. UNCHANGED <<fs, scanVars, stopped, historyVars>>
      BY <1>6 DEF PeriodicWalk
    <2> HIDE DEF RestTypes
    <2>3. watched \cup roots \in SUBSET Roots
      BY DEF RestTypes
    <2>4. QED BY <2>1, <2>2, <2>3, WalkBegins DEF RestTypes
  <1>7. ASSUME NEW f \in Files, WalkVisit(f) PROVE RestTypes'
    BY <1>7 DEF WalkVisit, ScheduleIdle
  <1>8. CASE WalkEnds
    BY <1>8 DEF WalkEnds
  <1>9. ASSUME NEW r \in Roots, NEW force \in BOOLEAN, ScanFolder(r, force)
    PROVE RestTypes'
    BY <1>9 DEF ScanFolder
  <1>10. CASE ScanQuery
    <2>1. UNCHANGED <<fsVars, walkVars, scan, scanForce, scanFiles, stopped, historyVars>>
      BY <1>10 DEF ScanQuery, OnlyScan
    <2>2. CASE ask' = NoAsk
      BY <2>1, <2>2 DEF NoAsk
    <2>3. PICK known : ask' = [ask EXCEPT !.step = "lock", !.files = Under(ask.root) \ known]
                       \/ ask' = NoAsk
      BY <1>10 DEF ScanQuery
    <2>4. CASE ask' = [ask EXCEPT !.step = "lock", !.files = Under(ask.root) \ known]
      BY <2>1, <2>4
    <2>5. QED BY <2>2, <2>3, <2>4
  <1>11. CASE ScanLock
    BY <1>11 DEF ScanLock, OnlyScan, NoAsk
  <1>12. CASE ScanWalk
    BY <1>12 DEF ScanWalk, OnlyScan
  <1>13. CASE ScanEnds
    BY <1>13 DEF ScanEnds, OnlyScan
  <1>14. CASE AdminRow
    BY <1>14 DEF AdminRow, WriteRow, SetFolder, RenameFolder, Proceed, DbFails,
      InHand
  <1>15. CASE AdminReload
    <2>1. UNCHANGED <<fs, scanVars, stopped, historyVars>>
      BY <1>15 DEF AdminReload
    <2>2. admin.to \in Roots
      BY <1>15 DEF AdminReload, AdminTypes
    <2>3. \/ \E kind \in {"reload", "replace"}, roots \in SUBSET Roots : StartWalk(kind, roots)
          \/ UNCHANGED walkVars
      BY <1>15, <2>2 DEF AdminReload
    <2>4. watched' \in SUBSET Roots
      BY <1>15, <2>2 DEF AdminReload
    <2> HIDE DEF RestTypes
    <2>5. /\ walk' \in {"none", "periodic", "reload", "replace"}
          /\ walkOn' \in SUBSET Roots
          /\ walkFiles' \in SUBSET Files
      BY <2>3, WalkBegins DEF RestTypes
    <2>6. QED BY <2>1, <2>4, <2>5 DEF RestTypes
  <1>16. ASSUME NEW f \in Files, RequeueChecked(f) PROVE RestTypes'
    BY <1>16 DEF RequeueChecked, Request, NoteRace
  <1>17. CASE RequeueInserts
    BY <1>17 DEF RequeueInserts, AddRequeuedRow, DbFails, TableTypes
  <1>18. CASE HandOverChecks
    BY <1>18 DEF HandOverChecks, NoteRace, TableTypes
  <1>19. CASE HandOverInserts
    BY <1>19 DEF HandOverInserts, AddRow, DbFails, NoHand, TableTypes
  <1>20. CASE StopCloses
    BY <1>20 DEF StopCloses
  <1>21. CASE Restart
    BY <1>21 DEF Restart, NoAsk
  <1>22. CASE UNCHANGED <<fs, watched, walk, walkOn, walkFiles, ask, scan,
    scanForce, scanFiles, stopped, raced, stray>>
    BY <1>22
  <1> HIDE DEF RestTypes, Enabled, Under
  <1>23. QED BY <1>1, <1>2, <1>3, <1>4, <1>5, <1>6, <1>7, <1>8, <1>9, <1>10,
    <1>11, <1>12, <1>13, <1>14, <1>15, <1>16, <1>17, <1>18, <1>19, <1>20,
    <1>21, <1>22, ZenonT(30) DEF Next, RunnerStep, TimerStep, WalkStep,
    ScanStep, InsertStep, AdminStep, Environment, vars, Grow, Dispatch, Fire,
    Callback, TakeEvent, WorkerStops, Poll, GiveUp, FindWatchFolder, Record,
    AdminBegins, AdminDrop, AdminPurge, ClearHistory, HandOverBegins, RunEnds,
    AddRow, AddSkipReport, Begin, Counted, DbFails, DeleteJobsUnder,
    DeleteReportsUnder, FinishRow, Goto, OnlyRunner, Proceed, Request, Return,
    ScheduleIdle, ScheduleReset

(* Init draws the folders and files; all else is fixed. *)
Typed ==
    RunTypes /\ QuietTypes /\ ChanTypes /\ TimerTypes /\ TableTypes /\ AdminTypes /\ RestTypes

LEMMA InitTyped == Init => Typed
  <1> SUFFICES ASSUME Init PROVE Typed
    OBVIOUS
  <1> USE StoreAssumption, WatcherAssumption
  <1>1. RunTypes
    BY DEF Init, Fresh, RunTypes
  <1>2. ChanTypes /\ QuietTypes
    BY DEF Init, Fresh, ChanTypes, QuietTypes
  <1>3. TimerTypes
    BY DEF Init, Fresh, TimerTypes, Timers
  <1>4. TableTypes
    BY DEF Init, NoHand, TableTypes, StoreTypeOK
  <1>5. AdminTypes
    BY DEF Init, AdminTypes, NoRequest, Kinds
  <1>6. RestTypes
    BY DEF Init, NoAsk, RestTypes, Enabled, Under
  <1>7. QED BY <1>1, <1>2, <1>3, <1>4, <1>5, <1>6 DEF Typed

(* The parts together, in every state. *)
LEMMA TypedAlways == Spec => []Typed
  <1>1. Init => Typed
    BY InitTyped
  <1>2. Typed /\ [Next]_vars => Typed'
    BY RunTypesStep, QuietTypesStep, ChanTypesStep, TimerTypesStep, AdminTypesStep,
      TableTypesStep, RestTypesStep DEF Typed
  <1>3. QED BY <1>1, <1>2, PTL DEF Spec

(* Every variable keeps its type: at most MaxTimers timers of a file, as   *)
(* many as have an entry, run without one or have fired, and an entry that *)
(* has fired is that of a callback which has not run yet.                  *)
THEOREM WatcherTyped == Spec => []TypeOK
  <1>1. Typed => TypeOK
    BY DEF Typed, TypeOK, RunTypes, QuietTypes, ChanTypes, TimerTypes, TableTypes,
      AdminTypes, RestTypes
  <1>2. QED BY <1>1, TypedAlways, PTL

(* A worker leaves the wait for the check only when it has counted to the  *)
(* end.                                                                    *)
LEMMA WaitLeft ==
    ASSUME Typed, [Next]_vars, NEW w \in EventWorkers, pc[w] = "wait", pc'[w] = "check"
    PROVE  same[w] /\ quiet[w] + 1 >= StableNeeded
  <1> DEFINE Goal == same[w] /\ quiet[w] + 1 >= StableNeeded
  <1> USE WatcherAssumption
  <1>0. w \in Runners
    BY DEF Runners
  <1>1. ASSUME NEW v \in Runners, TakeEvent(v) PROVE Goal
    BY <1>0, <1>1 DEF TakeEvent, Begin, Typed, RunTypes
  <1>2. ASSUME NEW v \in Runners, WorkerStops(v) PROVE Goal
    BY <1>0, <1>2 DEF WorkerStops, Goto, Typed, RunTypes
  <1>3. ASSUME NEW v \in Runners, Poll(v) PROVE Goal
    <2>1. v = w /\ same[w] /\ Counted(w)
      BY <1>0, <1>3 DEF Poll, Counted, Goto, Return, Typed, RunTypes
    <2>2. count[w] + 1 >= StableNeeded
      BY <1>0, <2>1 DEF Counted, Typed, RunTypes
    <2>3. quiet[w] = count[w]
      BY <1>0, <2>1 DEF Typed, QuietTypes
    <2>4. QED BY <2>1, <2>2, <2>3
  <1>4. ASSUME NEW v \in Runners, GiveUp(v) PROVE Goal
    BY <1>0, <1>4 DEF GiveUp, Return, Typed, RunTypes
  <1>5. ASSUME NEW v \in Runners, Check(v) PROVE Goal
    BY <1>0, <1>5 DEF Check, Goto, Return, Typed, RunTypes
  <1>6. ASSUME NEW v \in Runners, FindWatchFolder(v) PROVE Goal
    BY <1>0, <1>6 DEF FindWatchFolder, Goto, Return, Typed, RunTypes
  <1>7. ASSUME NEW v \in Runners, Record(v) PROVE Goal
    BY <1>0, <1>7 DEF Record, Return, Typed, RunTypes
  <1>8. ASSUME NEW v \in Runners, NEW f \in Files, TakeScan(v, f) PROVE Goal
    BY <1>0, <1>8 DEF TakeScan, Begin, Typed, RunTypes
  <1>9. ASSUME Restart PROVE Goal
    BY <1>0, <1>9 DEF Restart, Fresh
  <1>10. ASSUME UNCHANGED pc PROVE Goal
    BY <1>10
  <1> HIDE DEF Goal
  <1>11. Goal
    BY <1>1, <1>2, <1>3, <1>4, <1>5, <1>6, <1>7, <1>8, <1>9, <1>10,
    ZenonT(30) DEF Next, RunnerStep, TimerStep, WalkStep, ScanStep,
    InsertStep, AdminStep, Environment, vars, Appear, WriteEnds, Vanish, Grow,
    Dispatch, Fire, Callback, PeriodicWalk, WalkVisit, WalkEnds, ScanFolder,
    ScanQuery, ScanLock, ScanWalk, ScanEnds, AdminBegins, AdminRow, AdminDrop,
    AdminReload, AdminPurge, ClearHistory, RequeueChecked, RequeueInserts,
    HandOverBegins, HandOverChecks, HandOverInserts, RunEnds, StopCloses,
    AddRequeuedRow, AddRow, Change, DbFails, DeleteJobsUnder,
    DeleteReportsUnder, FinishRow, NoteRace, OnlyScan, Opened, Proceed,
    RenameFolder, Request, ScheduleIdle, ScheduleReset, SetFolder, StartWalk,
    WriteRow
  <1>12. QED BY <1>11 DEF Goal

(* No event worker goes on with a file that has been written to during the *)
(* last StableNeeded polls, however many workers, writes and timers there  *)
(* are and however often the wait was upset before.                        *)
THEOREM AfterQuiet == Spec => QueuedAfterQuiet
  <1>1. Typed /\ [Next]_vars =>
          [\A w \in EventWorkers :
             pc[w] = "wait" /\ pc'[w] = "check"
               => same[w] /\ quiet[w] + 1 >= StableNeeded]_vars
    BY WaitLeft
  <1>2. QED BY <1>1, TypedAlways, PTL DEF Spec, QueuedAfterQuiet

(* While a file is not marked as raced, one at most is between its check   *)
(* and its insert, and then the file has no row yet.                       *)
RaceInv ==
    \A f \in Files \ raced :
        /\ \A x, y \in Checked(f) : x = y
        /\ Checked(f) # {} => rows[f] = 0
        /\ rows[f] <= 1

(* Steps that let nobody past a check and add no row. *)
LEMMA RaceKept ==
    ASSUME RaceInv, Typed, Typed', raced' = raced,
           \A f \in Files : Checked(f)' \subseteq Checked(f) /\ rows'[f] <= rows[f]
    PROVE  RaceInv'
  <1>1. \A f \in Files : rows[f] \in Nat /\ rows'[f] \in Nat
    BY StoreAssumption DEF Typed, TableTypes, StoreTypeOK
  <1>2. QED BY <1>1 DEF RaceInv

(* The two checks mark a race or find no row and nobody past the check;    *)
(* the two inserts leave nobody behind them.                               *)
LEMMA RaceInvStep ==
    ASSUME RaceInv, Typed, Typed', [Next]_vars
    PROVE  RaceInv'
  <1> USE StoreAssumption, WatcherAssumption DEF RaceInv
  <1>1. ASSUME NEW w \in Runners, TakeEvent(w) PROVE RaceInv'
    <2>1. \A f \in Files : Checked(f)' \subseteq Checked(f)
      BY <1>1 DEF TakeEvent, Begin, OnlyRunner, Typed, RunTypes, Checked
    <2>2. \A f \in Files : rows'[f] <= rows[f]
      BY <1>1 DEF TakeEvent, Begin, OnlyRunner, Typed, TableTypes, StoreTypeOK
    <2>3. raced' = raced
      BY <1>1 DEF TakeEvent, Begin, OnlyRunner
    <2>4. QED BY <2>1, <2>2, <2>3, RaceKept
  <1>2. ASSUME NEW w \in Runners, WorkerStops(w) PROVE RaceInv'
    <2>1. \A f \in Files : Checked(f)' \subseteq Checked(f)
      BY <1>2 DEF WorkerStops, Goto, OnlyRunner, Typed, RunTypes, Checked
    <2>2. \A f \in Files : rows'[f] <= rows[f]
      BY <1>2 DEF WorkerStops, Goto, OnlyRunner, Typed, TableTypes, StoreTypeOK
    <2>3. raced' = raced
      BY <1>2 DEF WorkerStops, Goto, OnlyRunner
    <2>4. QED BY <2>1, <2>2, <2>3, RaceKept
  <1>3. ASSUME NEW w \in Runners, Poll(w) PROVE RaceInv'
    <2>1. \A f \in Files : Checked(f)' \subseteq Checked(f)
      BY <1>3 DEF Poll, Counted, Goto, Return, OnlyRunner, Typed, RunTypes, Checked
    <2>2. \A f \in Files : rows'[f] <= rows[f]
      BY <1>3 DEF Poll, Counted, Goto, Return, OnlyRunner, Typed, TableTypes, StoreTypeOK
    <2>3. raced' = raced
      BY <1>3 DEF Poll, Counted, Goto, Return, OnlyRunner
    <2>4. QED BY <2>1, <2>2, <2>3, RaceKept
  <1>4. ASSUME NEW w \in Runners, GiveUp(w) PROVE RaceInv'
    <2>1. \A f \in Files : Checked(f)' \subseteq Checked(f)
      BY <1>4 DEF GiveUp, Return, OnlyRunner, Typed, RunTypes, Checked
    <2>2. \A f \in Files : rows'[f] <= rows[f]
      BY <1>4 DEF GiveUp, Return, OnlyRunner, Typed, TableTypes, StoreTypeOK
    <2>3. raced' = raced
      BY <1>4 DEF GiveUp, Return, OnlyRunner
    <2>4. QED BY <2>1, <2>2, <2>3, RaceKept
  <1>5. ASSUME NEW w \in Runners, Check(w) PROVE RaceInv'
    <2> PICK f \in Files : f = file[w]
      BY <1>5 DEF Check, Typed, RunTypes
    <2>1. CASE Return(w)
      <3>1. \A g \in Files : Checked(g)' \subseteq Checked(g)
        BY <1>5, <2>1 DEF Check, Return, OnlyRunner, DbFails, Checked, Typed, RunTypes
      <3>2. \A g \in Files : rows'[g] <= rows[g]
        BY <1>5, <2>1 DEF Check, Return, Goto, DbFails, Typed, TableTypes, StoreTypeOK, RunTypes
      <3>3. raced' = raced
        BY <1>5, <2>1 DEF Check, Return, Goto, Typed, RunTypes
      <3>4. QED BY <3>1, <3>2, <3>3, RaceKept
    <2>2. CASE /\ ~Known(w) /\ NoteRace(f) /\ UNCHANGED storeVars
               /\ Goto(w, IF w \in ScanWorkers THEN "record" ELSE "folder")
      <3>1. rows[f] = 0
        BY <1>5, <2>2 DEF Check, Known, IsFileQueued, IsFileAlreadyProcessedOrQueued,
          Typed, RunTypes, TableTypes, StoreTypeOK
      <3>2. Checked(f)' = Checked(f) \cup {w}
        BY <1>5, <2>2 DEF Check, Goto, OnlyRunner, Checked, Typed, RunTypes
      <3>3. \A g \in Files \ {f} : Checked(g)' = Checked(g)
        BY <1>5, <2>2 DEF Check, Goto, OnlyRunner, Checked, Typed, RunTypes
      <3>4. QED BY <2>2, <3>1, <3>2, <3>3 DEF NoteRace
    <2>3. QED BY <1>5, <2>1, <2>2 DEF Check
  <1>6. ASSUME NEW w \in Runners, FindWatchFolder(w) PROVE RaceInv'
    <2>1. \A g \in Files : Checked(g)' \subseteq Checked(g)
      BY <1>6 DEF FindWatchFolder, Goto, Return, OnlyRunner, DbFails, Typed, RunTypes, Checked
    <2>2. \A g \in Files : rows'[g] <= rows[g]
      BY <1>6 DEF FindWatchFolder, DbFails, Typed, TableTypes, StoreTypeOK
    <2>3. raced' = raced
      BY <1>6 DEF FindWatchFolder
    <2>4. QED BY <2>1, <2>2, <2>3, RaceKept
  <1>7. ASSUME NEW w \in Runners, Record(w) PROVE RaceInv'
    <2> PICK f \in Files : f = file[w]
      BY <1>7 DEF Record, Typed, RunTypes
    <2>1. pc[w] = "record"
      BY <1>7 DEF Record
    <2>2. Checked(f)' = Checked(f) \ {w}
      BY <1>7, <2>1 DEF Record, Return, OnlyRunner, Checked, Typed, RunTypes, Runners
    <2>3. \A g \in Files \ {f} : Checked(g)' = Checked(g)
      BY <1>7, <2>1 DEF Record, Return, OnlyRunner, Checked, Typed, RunTypes
    <2>4. CASE AddRow(f)
      <3>1. w \in Checked(f)
        BY <2>1 DEF Checked
      <3>2. raced' = raced /\ rows' = [rows EXCEPT ![f] = rows[f] + 1]
        BY <1>7, <2>4 DEF Record, AddRow
      <3>3. f \notin raced => Checked(f)' = {} /\ rows'[f] <= 1
        BY <2>1, <2>2, <3>1, <3>2 DEF Typed, TableTypes, StoreTypeOK
      <3>4. QED BY <2>1, <2>3, <3>2, <3>3 DEF Typed, TableTypes, StoreTypeOK
    <2>5. CASE AddSkipReport(f) \/ DbFails
      <3>1. raced' = raced /\ rows' = rows
        BY <1>7, <2>5 DEF Record, AddSkipReport, DbFails
      <3>2. \A g \in Files : rows[g] \in Nat
        BY DEF Typed, TableTypes, StoreTypeOK
      <3>3. QED BY <2>2, <2>3, <3>1, <3>2, RaceKept
    <2>6. QED BY <1>7, <2>4, <2>5 DEF Record
  <1>8. ASSUME NEW w \in Runners, NEW f \in Files, TakeScan(w, f) PROVE
    RaceInv'
    <2>1. \A g \in Files : Checked(g)' \subseteq Checked(g)
      BY <1>8 DEF TakeScan, Begin, OnlyRunner, Typed, RunTypes, Checked
    <2>2. \A g \in Files : rows'[g] <= rows[g]
      BY <1>8 DEF TakeScan, Begin, OnlyRunner, Typed, TableTypes, StoreTypeOK
    <2>3. raced' = raced
      BY <1>8 DEF TakeScan, Begin, OnlyRunner
    <2>4. QED BY <2>1, <2>2, <2>3, RaceKept
  <1>9. CASE AdminPurge
    <2>1. \A f \in Files : Checked(f)' \subseteq Checked(f)
      BY <1>9 DEF AdminPurge, DeleteJobsUnder, Proceed, DbFails, Checked
    <2>2. \A f \in Files : rows'[f] <= rows[f]
      BY <1>9 DEF AdminPurge, DeleteJobsUnder, Proceed, DbFails, Typed, TableTypes, StoreTypeOK
    <2>3. raced' = raced
      BY <1>9 DEF AdminPurge, DeleteJobsUnder, Proceed, DbFails
    <2>4. QED BY <2>1, <2>2, <2>3, RaceKept
  <1>10. ASSUME NEW f \in Files, RequeueChecked(f) PROVE RaceInv'
    <2>1. rows[f] = 0 /\ UNCHANGED rows
      BY <1>10 DEF RequeueChecked, IsFileQueued, Typed, TableTypes, StoreTypeOK
    <2>2. Checked(f)' = Checked(f) \cup {"requeue"}
      BY <1>10 DEF RequeueChecked, Checked
    <2>3. \A g \in Files \ {f} : Checked(g)' = Checked(g)
      BY <1>10 DEF RequeueChecked, Checked
    <2>4. QED BY <1>10, <2>1, <2>2, <2>3 DEF RequeueChecked, NoteRace
  <1>11. CASE RequeueInserts
    <2> PICK f \in Files : f = requeuing
      BY <1>11 DEF RequeueInserts, Typed, TableTypes
    <2>1. requeuing' = NoFile /\ UNCHANGED <<pc, file, handing, raced>>
      BY <1>11 DEF RequeueInserts
    <2>2. "requeue" \in Checked(f)
      BY DEF Checked
    <2>3. Checked(f)' = Checked(f) \ {"requeue"}
      BY <2>1 DEF Checked, Runners
    <2>4. \A g \in Files \ {f} : Checked(g)' = Checked(g)
      BY <2>1 DEF Checked
    <2>5. CASE AddRequeuedRow(f)
      <3>1. rows' = [rows EXCEPT ![f] = rows[f] + 1]
        BY <2>5 DEF AddRequeuedRow
      <3>2. f \notin raced => Checked(f)' = {} /\ rows'[f] <= 1
        BY <2>1, <2>2, <2>3, <3>1 DEF Typed, TableTypes, StoreTypeOK
      <3>3. QED BY <2>1, <2>4, <3>1, <3>2 DEF Typed, TableTypes, StoreTypeOK
    <2>6. CASE UNCHANGED rows
      <3>1. \A g \in Files : rows[g] \in Nat
        BY DEF Typed, TableTypes, StoreTypeOK
      <3>2. QED BY <2>1, <2>3, <2>4, <2>6, <3>1, RaceKept
    <2>7. QED BY <1>11, <2>5, <2>6 DEF RequeueInserts, DbFails
  <1>12. ASSUME NEW f \in Files, HandOverBegins(f) PROVE RaceInv'
    <2>1. \A g \in Files : Checked(g)' \subseteq Checked(g)
      BY <1>12 DEF HandOverBegins, Typed, RunTypes, Checked
    <2>2. \A g \in Files : rows'[g] <= rows[g]
      BY <1>12 DEF HandOverBegins, Typed, TableTypes, StoreTypeOK
    <2>3. raced' = raced
      BY <1>12 DEF HandOverBegins
    <2>4. QED BY <2>1, <2>2, <2>3, RaceKept
  <1>13. CASE HandOverChecks
    <2> PICK f \in Files : f = handing.file
      BY <1>13 DEF HandOverChecks, Typed, TableTypes
    <2>1. UNCHANGED <<pc, file, requeuing, rows>>
      BY <1>13 DEF HandOverChecks, DbFails
    <2>2. CASE handing' = NoHand /\ UNCHANGED raced
      <3>1. \A g \in Files : Checked(g)' \subseteq Checked(g)
        BY <2>1, <2>2 DEF Checked, NoHand
      <3>2. \A g \in Files : rows'[g] <= rows[g]
        BY <2>1 DEF Typed, TableTypes, StoreTypeOK
      <3>3. QED BY <2>2, <3>1, <3>2, RaceKept
    <2>3. CASE /\ ~IsFileAlreadyProcessedOrQueued(f)
               /\ handing' = [handing EXCEPT !.checked = TRUE]
               /\ NoteRace(f)
      <3>1. rows[f] = 0
        BY <2>3 DEF IsFileAlreadyProcessedOrQueued, Typed, TableTypes, StoreTypeOK
      <3>2. handing' = [file |-> f, checked |-> TRUE] /\ ~handing.checked
        BY <1>13, <2>3 DEF HandOverChecks, Typed, TableTypes
      <3>3. Checked(f)' = Checked(f) \cup {"download"}
        BY <2>1, <3>2 DEF Checked
      <3>4. \A g \in Files \ {f} : Checked(g)' = Checked(g)
        BY <2>1, <3>2 DEF Checked
      <3>5. QED BY <2>1, <2>3, <3>1, <3>3, <3>4 DEF NoteRace
    <2>4. QED BY <1>13, <2>2, <2>3 DEF HandOverChecks
  <1>14. CASE HandOverInserts
    <2>0. handing \in [file : Files \cup {NoFile}, checked : BOOLEAN] /\ handing.file \in Files
      BY <1>14 DEF HandOverInserts, NoHand, Typed, TableTypes
    <2> PICK f \in Files : f = handing.file
      BY <2>0
    <2>1. handing' = NoHand /\ UNCHANGED <<pc, file, requeuing, raced>>
      BY <1>14 DEF HandOverInserts
    <2>2. handing = [file |-> f, checked |-> TRUE]
      BY <1>14, <2>0 DEF HandOverInserts
    <2>3. "download" \in Checked(f)
      BY <2>2 DEF Checked
    <2>4. Checked(f)' = Checked(f) \ {"download"}
      BY <2>1, <2>2 DEF Checked, Runners, NoHand
    <2>5. \A g \in Files \ {f} : Checked(g)' = Checked(g)
      BY <2>1, <2>2 DEF Checked, NoHand
    <2>6. CASE AddRow(f)
      <3>1. rows' = [rows EXCEPT ![f] = rows[f] + 1]
        BY <2>6 DEF AddRow
      <3>2. f \notin raced => Checked(f)' = {} /\ rows'[f] <= 1
        BY <2>1, <2>3, <2>4, <3>1 DEF Typed, TableTypes, StoreTypeOK
      <3>3. QED BY <2>1, <2>5, <3>1, <3>2 DEF Typed, TableTypes, StoreTypeOK
    <2>7. CASE UNCHANGED rows
      <3>1. \A g \in Files : rows[g] \in Nat
        BY DEF Typed, TableTypes, StoreTypeOK
      <3>2. QED BY <2>1, <2>4, <2>5, <2>7, <3>1, RaceKept
    <2>8. QED BY <1>14, <2>6, <2>7 DEF HandOverInserts, DbFails
  <1>15. ASSUME NEW f \in Files, RunEnds(f) PROVE RaceInv'
    <2>1. \A g \in Files : Checked(g)' \subseteq Checked(g)
      BY <1>15 DEF RunEnds, FinishRow, Request, Checked
    <2>2. \A g \in Files : rows'[g] <= rows[g]
      BY <1>15 DEF RunEnds, FinishRow, Request, Typed, TableTypes, StoreTypeOK
    <2>3. raced' = raced
      BY <1>15 DEF RunEnds, FinishRow, Request
    <2>4. QED BY <2>1, <2>2, <2>3, RaceKept
  <1>16. CASE Restart
    <2>1. \A f \in Files : Checked(f)' \subseteq Checked(f)
      BY <1>16 DEF Restart, Fresh, NoHand, Checked
    <2>2. \A f \in Files : rows'[f] <= rows[f]
      BY <1>16 DEF Restart, Fresh, Typed, TableTypes, StoreTypeOK
    <2>3. raced' = raced
      BY <1>16 DEF Restart, Fresh
    <2>4. QED BY <2>1, <2>2, <2>3, RaceKept
  <1>17. CASE UNCHANGED <<pc, file, rows, raced, requeuing,
    handing>>
    BY <1>17 DEF Checked
  <1> HIDE DEF RaceInv
  <1>18. QED BY <1>1, <1>2, <1>3, <1>4, <1>5, <1>6, <1>7, <1>8, <1>9, <1>10,
    <1>11, <1>12, <1>13, <1>14, <1>15, <1>16, <1>17, ZenonT(30) DEF Next,
    RunnerStep, TimerStep, WalkStep, ScanStep, InsertStep, AdminStep,
    Environment, vars, Appear, WriteEnds, Vanish, Grow, Dispatch, Fire,
    Callback, PeriodicWalk, WalkVisit, WalkEnds, ScanFolder, ScanQuery,
    ScanLock, ScanWalk, ScanEnds, AdminBegins, AdminRow, AdminDrop,
    AdminReload, ClearHistory, StopCloses, Change, DbFails,
    DeleteReportsUnder, OnlyScan, Opened, Proceed, RenameFolder, Request,
    ScheduleIdle, ScheduleReset, SetFolder, StartWalk, WriteRow

(* Two rows of one file come only from two inserters that were between     *)
(* their check and their insert at the same time.                          *)
THEOREM OneRow == Spec => []OneRowUnlessRaced
  <1>1. Init => RaceInv
    <2> SUFFICES ASSUME Init PROVE RaceInv
      OBVIOUS
    <2>1. \A f \in Files : Checked(f) = {}
      BY WatcherAssumption DEF Init, Fresh, NoHand, Checked
    <2>2. \A f \in Files : rows[f] = 0
      BY DEF Init
    <2>3. 0 <= 1
      OBVIOUS
    <2>4. QED BY <2>1, <2>2, <2>3, Zenon DEF RaceInv
  <1>2. RaceInv /\ Typed /\ Typed' /\ [Next]_vars => RaceInv'
    BY RaceInvStep
  <1>3. RaceInv /\ Typed => OneRowUnlessRaced
    BY StoreAssumption DEF RaceInv, OneRowUnlessRaced, Typed, TableTypes, StoreTypeOK
  <1>4. QED BY <1>1, <1>2, <1>3, TypedAlways, PTL DEF Spec

(* Who works on a file of a folder that is no longer enabled read the      *)
(* folder before.                                                          *)
HandsKnown == \A r \in Roots \ Enabled : InHand(r) \subseteq stray

(* The request that removes the rows of its folder has not come to it yet. *)
Removing ==
    /\ admin.kind \in {"disable", "delete", "move"}
    /\ \/ step \in {"reload", "walking", "purge"}
       \/ admin.kind = "disable" /\ step = "drop"

RowsGo ==
    \A f \in Files :
        faults = 0 /\ RootOf[f] \notin Enabled /\ rows[f] > 0 /\ f \notin stray
            => admin.root = RootOf[f] /\ Removing

(* A process stops only for a fault. *)
StopIsFault == stopped => faults > 0

LEMMA StopIsFaultStep ==
    ASSUME StopIsFault, Typed, [Next]_vars
    PROVE  StopIsFault'
  <1>1. CASE Restart
    BY <1>1 DEF Restart, StopIsFault
  <1>2. CASE StopCloses
    BY <1>2 DEF StopCloses, StopIsFault, Typed, TableTypes, StoreTypeOK
  <1>3. CASE UNCHANGED stopped /\ (UNCHANGED faults \/ DbFails)
    BY <1>3, StoreAssumption DEF DbFails, StopIsFault, Typed, TableTypes, StoreTypeOK
  <1>4. QED BY <1>1, <1>2, <1>3, ZenonT(30) DEF Next, RunnerStep, TimerStep,
    WalkStep, ScanStep, InsertStep, AdminStep, Environment, vars, Appear,
    WriteEnds, Vanish, Grow, Dispatch, Fire, Callback, TakeEvent, WorkerStops,
    Poll, GiveUp, Check, FindWatchFolder, Record, TakeScan, PeriodicWalk,
    WalkVisit, WalkEnds, ScanFolder, ScanQuery, ScanLock, ScanWalk, ScanEnds,
    AdminBegins, AdminRow, AdminDrop, AdminReload, AdminPurge, ClearHistory,
    RequeueChecked, RequeueInserts, HandOverBegins, HandOverChecks,
    HandOverInserts, RunEnds, AddRequeuedRow, AddRow, AddSkipReport, Begin,
    Change, Counted, DbFails, DeleteJobsUnder, DeleteReportsUnder, FinishRow,
    Goto, NoteRace, OnlyRunner, OnlyScan, Opened, Proceed, RenameFolder,
    Request, Return, ScheduleIdle, ScheduleReset, SetFolder, StartWalk,
    WriteRow

(* Which folders a row written makes or leaves without an enabled one.     *)
LEMMA WriteRowOff ==
    ASSUME Typed, step = "row", WriteRow
    PROVE  /\ \A r \in Roots \ {admin.root} : r \in Enabled => r \in Enabled'
           /\ admin.kind \in {"add", "enable"} => admin.root \in Enabled'
           /\ admin.root \in Roots
  <1>1. admin.root \in Roots /\ admin.to \in Roots
    BY DEF Typed, AdminTypes
  <1>2. QED BY <1>1 DEF WriteRow, SetFolder, RenameFolder, Enabled, Typed,
    TableTypes, StoreTypeOK

(* The row that takes a folder away puts all files in hand among the       *)
(* strays; a worker comes to work on another one only with the folder      *)
(* enabled.                                                                *)
LEMMA HandsKnownStep ==
    ASSUME HandsKnown, Typed, [Next]_vars
    PROVE  HandsKnown'
  <1> USE StoreAssumption, WatcherAssumption DEF HandsKnown
  <1>1. ASSUME NEW w \in Runners, TakeEvent(w) PROVE HandsKnown'
    <2>1. Enabled' = Enabled /\ stray' = stray
      BY <1>1 DEF TakeEvent, Begin, OnlyRunner, Enabled
    <2>2. \A r \in Roots : InHand(r)' \subseteq InHand(r)
      BY <1>1 DEF TakeEvent, Begin, OnlyRunner, InHand, Under, Typed, RunTypes,
        Runners
    <2>3. QED BY <2>1, <2>2 DEF HandsKnown
  <1>2. ASSUME NEW w \in Runners, WorkerStops(w) PROVE HandsKnown'
    <2>1. Enabled' = Enabled /\ stray' = stray
      BY <1>2 DEF WorkerStops, Goto, OnlyRunner, Enabled
    <2>2. \A r \in Roots : InHand(r)' \subseteq InHand(r)
      BY <1>2 DEF WorkerStops, Goto, OnlyRunner, InHand, Under, Typed, RunTypes,
        Runners
    <2>3. QED BY <2>1, <2>2 DEF HandsKnown
  <1>3. ASSUME NEW w \in Runners, Poll(w) PROVE HandsKnown'
    <2>1. Enabled' = Enabled /\ stray' = stray
      BY <1>3 DEF Poll, Counted, Goto, Return, OnlyRunner, Enabled
    <2>2. \A r \in Roots : InHand(r)' \subseteq InHand(r)
      BY <1>3 DEF Poll, Counted, Goto, Return, OnlyRunner, InHand, Under, Typed,
        RunTypes, Runners
    <2>3. QED BY <2>1, <2>2 DEF HandsKnown
  <1>4. ASSUME NEW w \in Runners, GiveUp(w) PROVE HandsKnown'
    <2>1. Enabled' = Enabled /\ stray' = stray
      BY <1>4 DEF GiveUp, Return, OnlyRunner, Enabled
    <2>2. \A r \in Roots : InHand(r)' \subseteq InHand(r)
      BY <1>4 DEF GiveUp, Return, OnlyRunner, InHand, Under, Typed, RunTypes,
        Runners
    <2>3. QED BY <2>1, <2>2 DEF HandsKnown
  <1>5. ASSUME NEW w \in Runners, Check(w) PROVE HandsKnown'
    <2>1. Enabled' = Enabled /\ stray' = stray
      BY <1>5 DEF Check, DbFails, OnlyRunner, Enabled
    <2>2. \A r \in Roots : InHand(r)' \subseteq InHand(r)
      <3>1. CASE Return(w)
        BY <1>5, <3>1 DEF Check, Return, InHand, Under, Typed, RunTypes
      <3>2. CASE Goto(w, IF w \in ScanWorkers THEN "record" ELSE "folder")
        BY <1>5, <3>2 DEF Check, Goto, InHand, Under, Typed, RunTypes
      <3>3. QED BY <1>5, <3>1, <3>2 DEF Check
    <2>3. QED BY <2>1, <2>2 DEF HandsKnown
  <1>6. ASSUME NEW w \in Runners, FindWatchFolder(w) PROVE HandsKnown'
    <2>1. Enabled' = Enabled /\ stray' = stray
      BY <1>6 DEF FindWatchFolder, DbFails, OnlyRunner, Enabled
    <2> PICK f \in Files : f = file[w]
      BY <1>6 DEF FindWatchFolder, Typed, RunTypes
    <2>2. CASE Return(w)
      <3>1. \A r \in Roots : InHand(r)' \subseteq InHand(r)
        BY <1>6, <2>2 DEF FindWatchFolder, Return, InHand, Under, Typed, RunTypes
      <3>2. QED BY <2>1, <3>1 DEF HandsKnown
    <2>3. CASE RootOf[f] \in Enabled /\ Goto(w, "record")
      <3>1. \A r \in Roots : InHand(r)' \subseteq InHand(r) \cup (Under(r) \cap {f})
        BY <1>6, <2>3 DEF FindWatchFolder, Goto, InHand, Under, Typed, RunTypes
      <3>2. \A r \in Roots \ Enabled : f \notin Under(r)
        BY <2>3 DEF Under
      <3>3. QED BY <2>1, <3>1, <3>2 DEF HandsKnown
    <2>4. QED BY <1>6, <2>2, <2>3 DEF FindWatchFolder
  <1>7. ASSUME NEW w \in Runners, Record(w) PROVE HandsKnown'
    <2>1. Enabled' = Enabled /\ stray' = stray
      BY <1>7 DEF Record, Return, AddRow, AddSkipReport, DbFails, OnlyRunner,
        Enabled
    <2>2. \A r \in Roots : InHand(r)' \subseteq InHand(r)
      BY <1>7 DEF Record, Return, AddRow, AddSkipReport, DbFails, OnlyRunner,
        InHand, Under, Typed, RunTypes, Runners
    <2>3. QED BY <2>1, <2>2 DEF HandsKnown
  <1>8. ASSUME NEW w \in Runners, NEW f \in Files, TakeScan(w, f) PROVE
    HandsKnown'
    <2>1. Enabled' = Enabled /\ stray' = stray
      BY <1>8 DEF TakeScan, Begin, OnlyRunner, Enabled
    <2>2. \A r \in Roots : InHand(r)' \subseteq InHand(r)
      BY <1>8 DEF TakeScan, Begin, OnlyRunner, InHand, Under, Typed, RunTypes,
        Runners
    <2>3. QED BY <2>1, <2>2 DEF HandsKnown
  <1>9. ASSUME NEW r \in Roots, NEW force \in BOOLEAN, ScanFolder(r, force)
    PROVE HandsKnown'
    <2>1. Enabled' = Enabled /\ stray' = stray /\ UNCHANGED <<pc, file, scanFiles>>
      BY <1>9 DEF ScanFolder, Enabled
    <2>2. ask'.root = r /\ r \in Enabled
      BY <1>9 DEF ScanFolder
    <2>3. \A q \in Roots \ {r} : InHand(q)' \subseteq InHand(q)
      BY <2>1, <2>2 DEF InHand, Under
    <2>4. QED BY <2>1, <2>2, <2>3 DEF HandsKnown
  <1>10. CASE ScanQuery
    <2>1. Enabled' = Enabled /\ stray' = stray
      BY <1>10 DEF ScanQuery, OnlyScan, DbFails, Enabled
    <2>2. UNCHANGED <<pc, file, scanFiles>>
      BY <1>10 DEF ScanQuery, OnlyScan
    <2>3. ask'.root \in {ask.root, NoRoot}
      <3>1. ask \in [step : {"none", "query", "lock"}, root : Roots \cup {NoRoot},
                    force : BOOLEAN, files : SUBSET Files]
        BY DEF Typed, RestTypes
      <3>2. \/ \E files : ask' = [ask EXCEPT !.step = "lock", !.files = files]
            \/ ask' = NoAsk
        BY <1>10 DEF ScanQuery
      <3>3. CASE ask' = NoAsk
        <4>1. NoAsk.root = NoRoot
          BY DEF NoAsk
        <4>2. QED BY <3>3, <4>1, Zenon
      <3>4. ASSUME NEW files, ask' = [ask EXCEPT !.step = "lock", !.files = files]
            PROVE  ask'.root = ask.root
        BY <3>1, <3>4
      <3>5. QED BY <3>2, <3>3, <3>4, Zenon
    <2>4. \A r \in Roots : InHand(r)' \subseteq InHand(r)
      BY <2>2, <2>3 DEF InHand, Under
    <2>5. QED BY <2>1, <2>4 DEF HandsKnown
  <1>11. CASE ScanLock
    <2>1. Enabled' = Enabled /\ stray' = stray
      BY <1>11 DEF ScanLock, OnlyScan, Enabled
    <2>2. \A r \in Roots : InHand(r)' \subseteq InHand(r)
      BY <1>11 DEF ScanLock, OnlyScan, NoAsk, InHand, Under, Typed, RunTypes, RestTypes, Runners
    <2>3. QED BY <2>1, <2>2 DEF HandsKnown
  <1>12. CASE ScanWalk
    <2>1. Enabled' = Enabled /\ stray' = stray
      BY <1>12 DEF ScanWalk, OnlyScan, Enabled
    <2>2. \A r \in Roots : InHand(r)' \subseteq InHand(r)
      BY <1>12 DEF ScanWalk, OnlyScan, NoAsk, InHand, Under, Typed, RunTypes, RestTypes, Runners
    <2>3. QED BY <2>1, <2>2 DEF HandsKnown
  <1>13. CASE AdminRow
    <2>1. \A r \in Roots : InHand(r)' = InHand(r)
      BY <1>13 DEF AdminRow, InHand, Under
    <2>2. CASE WriteRow /\ stray' = IF folder'[admin.root] = "on" THEN stray
                                   ELSE stray \cup InHand(admin.root)
      <3>1. CASE admin.root \in Enabled'
        BY <1>13, <2>1, <2>2, <3>1, WriteRowOff DEF HandsKnown, AdminRow, Enabled
      <3>2. CASE admin.root \notin Enabled'
        <4>1. admin.root \in Roots /\ stray' = stray \cup InHand(admin.root)
          BY <1>13, <2>2, <3>2, WriteRowOff DEF AdminRow, Enabled
        <4>2. QED BY <1>13, <2>1, <2>2, <4>1, WriteRowOff DEF HandsKnown, AdminRow
      <3>3. QED BY <3>1, <3>2
    <2>3. CASE UNCHANGED <<folder, stray>>
      BY <2>1, <2>3 DEF HandsKnown, Enabled
    <2>4. QED BY <1>13, <2>2, <2>3 DEF AdminRow, DbFails
  <1>14. CASE RequeueInserts
    <2>1. Enabled' = Enabled /\ stray \subseteq stray'
      BY <1>14 DEF RequeueInserts, AddRequeuedRow, DbFails, Enabled
    <2>2. \A r \in Roots : InHand(r)' = InHand(r)
      BY <1>14 DEF RequeueInserts, InHand, Under
    <2>3. QED BY <2>1, <2>2 DEF HandsKnown
  <1>15. CASE HandOverInserts
    <2>1. Enabled' = Enabled /\ stray \subseteq stray'
      BY <1>15 DEF HandOverInserts, AddRow, DbFails, Enabled
    <2>2. \A r \in Roots : InHand(r)' = InHand(r)
      BY <1>15 DEF HandOverInserts, InHand, Under
    <2>3. QED BY <2>1, <2>2 DEF HandsKnown
  <1>16. CASE Restart
    <2>1. Enabled' = Enabled /\ stray' = stray
      BY <1>16 DEF Restart, Fresh, Enabled
    <2>2. \A r \in Roots : InHand(r)' \subseteq InHand(r)
      BY <1>16 DEF Restart, Fresh, NoAsk, InHand, Under, Runners
    <2>3. QED BY <2>1, <2>2 DEF HandsKnown
  <1>17. CASE UNCHANGED <<folder, pc, file, ask, scanFiles, stray>>
    BY <1>17 DEF InHand, Under, Enabled
  <1> HIDE DEF HandsKnown
  <1>18. QED BY <1>1, <1>2, <1>3, <1>4, <1>5, <1>6, <1>7, <1>8, <1>9, <1>10,
    <1>11, <1>12, <1>13, <1>14, <1>15, <1>16, <1>17, ZenonT(30) DEF Next,
    RunnerStep, TimerStep, WalkStep, ScanStep, InsertStep, AdminStep,
    Environment, vars, Appear, WriteEnds, Vanish, Grow, Dispatch, Fire,
    Callback, PeriodicWalk, WalkVisit, WalkEnds, ScanEnds, AdminBegins,
    AdminDrop, AdminReload, AdminPurge, ClearHistory, RequeueChecked,
    HandOverBegins, HandOverChecks, RunEnds, StopCloses, Change, DbFails,
    DeleteJobsUnder, DeleteReportsUnder, FinishRow, NoteRace, OnlyScan,
    Opened, Proceed, Request, ScheduleIdle, ScheduleReset, StartWalk

(* Steps that add no row, change no folder and leave the request alone.    *)
LEMMA RowsGoKept ==
    ASSUME RowsGo, Typed, Typed', UNCHANGED <<folder, stray, admin, step>>,
           faults' = 0 => faults = 0, \A f \in Files : rows'[f] <= rows[f]
    PROVE  RowsGo'
  <1>1. \A f \in Files : rows[f] \in Nat /\ rows'[f] \in Nat
    BY StoreAssumption DEF Typed, TableTypes, StoreTypeOK
  <1>2. \A f \in Files : rows'[f] > 0 => rows[f] > 0
    BY <1>1
  <1>3. QED BY <1>2 DEF RowsGo, Removing, Enabled

(* A statement that fails is counted. *)
LEMMA FaultCounts ==
    ASSUME Typed, DbFails
    PROVE  faults' # 0
  BY StoreAssumption DEF DbFails, Typed, TableTypes, StoreTypeOK

(* A row comes to a folder that is not enabled only as a stray, or with    *)
(* the request that disables it and will purge it.                         *)
LEMMA RowsGoStep ==
    ASSUME RowsGo, HandsKnown, StopIsFault, Typed, Typed', [Next]_vars
    PROVE  RowsGo'
  <1> USE StoreAssumption, WatcherAssumption DEF RowsGo
  <1>1. ASSUME NEW w \in Runners, Check(w) PROVE RowsGo'
    <2>1. UNCHANGED <<folder, stray, admin, step>>
      BY <1>1 DEF Check, Goto, Return, DbFails, OnlyRunner
    <2>2. faults' = 0 => faults = 0
      BY <1>1 DEF Check, Goto, Return, DbFails, OnlyRunner, Typed, TableTypes,
        StoreTypeOK
    <2>3. \A g \in Files : rows'[g] <= rows[g]
      BY <1>1 DEF Check, Goto, Return, DbFails, OnlyRunner, Typed, TableTypes,
        StoreTypeOK
    <2>4. QED BY <2>1, <2>2, <2>3, RowsGoKept
  <1>2. ASSUME NEW w \in Runners, FindWatchFolder(w) PROVE RowsGo'
    <2>1. UNCHANGED <<folder, stray, admin, step>>
      BY <1>2 DEF FindWatchFolder, DbFails, OnlyRunner
    <2>2. faults' = 0 => faults = 0
      BY <1>2, FaultCounts DEF FindWatchFolder, DbFails, OnlyRunner
    <2>3. \A g \in Files : rows'[g] <= rows[g]
      BY <1>2 DEF FindWatchFolder, DbFails, OnlyRunner, Typed, TableTypes, StoreTypeOK
    <2>4. QED BY <2>1, <2>2, <2>3, RowsGoKept
  <1>3. ASSUME NEW w \in Runners, Record(w) PROVE RowsGo'
    <2> PICK f \in Files : f = file[w]
      BY <1>3 DEF Record, Typed, RunTypes
    <2>1. UNCHANGED <<folder, stray, admin, step>>
      BY <1>3 DEF Record, AddRow, AddSkipReport, DbFails, OnlyRunner
    <2>2. CASE AddRow(f)
      <3>1. faults' = faults /\ rows' = [rows EXCEPT ![f] = rows[f] + 1]
        BY <2>2 DEF AddRow
      <3>2. RootOf[f] \notin Enabled => f \in stray
        BY <1>3 DEF Record, HandsKnown, InHand, Under
      <3>3. \A g \in Files \ {f} : rows'[g] = rows[g]
        BY <3>1 DEF Typed, TableTypes, StoreTypeOK
      <3>4. QED BY <2>1, <3>1, <3>2, <3>3 DEF Removing, Enabled
    <2>3. CASE AddSkipReport(f) \/ DbFails
      <3>1. rows' = rows /\ (faults' = 0 => faults = 0)
        BY <2>3, FaultCounts DEF AddSkipReport, DbFails
      <3>2. \A g \in Files : rows[g] \in Nat
        BY DEF Typed, TableTypes, StoreTypeOK
      <3>3. QED BY <2>1, <3>1, <3>2, RowsGoKept
    <2>4. QED BY <1>3, <2>2, <2>3 DEF Record
  <1>4. CASE PeriodicWalk
    <2>1. UNCHANGED <<folder, stray, admin, step>>
      BY <1>4 DEF PeriodicWalk, Opened, DbFails
    <2>2. faults' = 0 => faults = 0
      BY <1>4, FaultCounts DEF PeriodicWalk, Opened, DbFails
    <2>3. \A g \in Files : rows'[g] <= rows[g]
      BY <1>4 DEF PeriodicWalk, Opened, DbFails, Typed, TableTypes, StoreTypeOK
    <2>4. QED BY <2>1, <2>2, <2>3, RowsGoKept
  <1>5. CASE WalkEnds
    <2>1. UNCHANGED <<folder, rows, faults, stray>>
      BY <1>5 DEF WalkEnds
    <2>2. Removing => Removing' /\ admin' = admin
      BY <1>5 DEF WalkEnds, AfterReload, Removing
    <2>3. QED BY <2>1, <2>2 DEF Enabled
  <1>6. CASE ScanQuery
    <2>1. UNCHANGED <<folder, stray, admin, step>>
      BY <1>6 DEF ScanQuery, OnlyScan, DbFails
    <2>2. faults' = 0 => faults = 0
      BY <1>6, FaultCounts DEF ScanQuery, OnlyScan, DbFails
    <2>3. \A g \in Files : rows'[g] <= rows[g]
      BY <1>6 DEF ScanQuery, OnlyScan, DbFails, Typed, TableTypes, StoreTypeOK
    <2>4. QED BY <2>1, <2>2, <2>3, RowsGoKept
  <1>7. ASSUME NEW kind \in Kinds, NEW r \in Roots, NEW to \in Roots,
    AdminBegins(kind, r, to) PROVE RowsGo'
    <2>1. UNCHANGED <<folder, rows, faults, stray>>
      BY <1>7 DEF AdminBegins
    <2>2. ~Removing
      BY <1>7 DEF AdminBegins, Removing
    <2>3. QED BY <2>1, <2>2 DEF Enabled
  <1>8. CASE AdminRow
    <2>1. ~Removing /\ step = "row"
      BY <1>8 DEF AdminRow, Removing
    <2>2. CASE /\ WriteRow
               /\ Proceed(IF admin.kind = "disable" THEN "drop" ELSE "reload")
               /\ stray' = IF folder'[admin.root] = "on" THEN stray
                           ELSE stray \cup InHand(admin.root)
      <3>1. UNCHANGED <<rows, faults>> /\ stray \subseteq stray'
        BY <2>1, <2>2, WriteRowTypes DEF Typed, TableTypes, StoreTypeOK
      <3>2. admin.kind \in Kinds \ {"none"}
        BY <2>1 DEF Typed, AdminTypes
      <3>3. admin.root \notin Enabled' => Removing' /\ admin'.root = admin.root
        <4>1. SUFFICES ASSUME admin.root \notin Enabled'
                       PROVE  Removing' /\ admin'.root = admin.root
          OBVIOUS
        <4>2. admin.kind \in {"disable", "delete", "move"}
          BY <2>1, <2>2, <3>2, <4>1, WriteRowOff DEF Kinds
        <4>3. QED BY <2>2, <4>2 DEF Proceed, Removing
      <3>4. QED BY <2>1, <2>2, <3>1, <3>3, WriteRowOff
    <2>3. CASE DbFails
      BY <2>3, FaultCounts
    <2>4. CASE UNCHANGED <<folder, rows, faults, stray>>
      BY <2>1, <2>4 DEF Enabled
    <2>5. QED BY <1>8, <2>2, <2>3, <2>4 DEF AdminRow
  <1>9. CASE AdminDrop
    <2>1. UNCHANGED <<folder, rows, faults, stray>>
      BY <1>9 DEF AdminDrop
    <2>2. Removing => Removing' /\ admin' = admin
      BY <1>9 DEF AdminDrop, Removing, Proceed
    <2>3. QED BY <2>1, <2>2 DEF Enabled
  <1>10. CASE AdminReload
    <2>1. UNCHANGED <<folder, rows, stray>> /\ (faults' = 0 => faults = 0)
      BY <1>10, FaultCounts DEF AdminReload, Opened, DbFails
    <2>2. Removing => Removing' /\ admin' = admin
      BY <1>10 DEF AdminReload, AfterReload, Removing, Proceed
    <2>3. QED BY <2>1, <2>2 DEF Enabled
  <1>11. CASE AdminPurge
    <2>1. CASE DeleteJobsUnder(admin.root)
      <3>1. UNCHANGED <<folder, faults, stray>>
        BY <1>11, <2>1 DEF AdminPurge, DeleteJobsUnder
      <3>2. \A f \in Files : rows'[f] = IF RootOf[f] = admin.root THEN 0 ELSE rows[f]
        BY <2>1 DEF DeleteJobsUnder
      <3>3. QED BY <3>1, <3>2 DEF Enabled
    <2>2. CASE DbFails
      BY <2>2, FaultCounts
    <2>3. QED BY <1>11, <2>1, <2>2 DEF AdminPurge
  <1>12. CASE RequeueInserts
    <2> PICK f \in Files : f = requeuing
      BY <1>12 DEF RequeueInserts, Typed, TableTypes
    <2>1. UNCHANGED <<folder, admin, step>>
      BY <1>12 DEF RequeueInserts, AddRequeuedRow, DbFails
    <2>2. CASE AddRequeuedRow(f) /\ stray' = IF RootOf[f] \in Enabled THEN stray ELSE stray \cup {f}
      <3>1. faults' = faults /\ rows' = [rows EXCEPT ![f] = rows[f] + 1]
        BY <2>2 DEF AddRequeuedRow
      <3>2. \A g \in Files \ {f} : rows'[g] = rows[g]
        BY <3>1 DEF Typed, TableTypes, StoreTypeOK
      <3>3. QED BY <2>1, <2>2, <3>1, <3>2 DEF Removing, Enabled
    <2>3. CASE DbFails
      BY <2>3, FaultCounts
    <2>4. QED BY <1>12, <2>2, <2>3 DEF RequeueInserts
  <1>13. CASE HandOverChecks
    <2>1. UNCHANGED <<folder, stray, admin, step>>
      BY <1>13 DEF HandOverChecks, DbFails
    <2>2. faults' = 0 => faults = 0
      BY <1>13, FaultCounts DEF HandOverChecks, DbFails
    <2>3. \A g \in Files : rows'[g] <= rows[g]
      BY <1>13 DEF HandOverChecks, DbFails, Typed, TableTypes, StoreTypeOK
    <2>4. QED BY <2>1, <2>2, <2>3, RowsGoKept
  <1>14. CASE HandOverInserts
    <2> PICK f \in Files : f = handing.file
      BY <1>14 DEF HandOverInserts, NoHand, Typed, TableTypes
    <2>1. UNCHANGED <<folder, admin, step>>
      BY <1>14 DEF HandOverInserts, AddRow, DbFails
    <2>2. CASE AddRow(f) /\ stray' = IF RootOf[f] \in Enabled THEN stray ELSE stray \cup {f}
      <3>1. faults' = faults /\ rows' = [rows EXCEPT ![f] = rows[f] + 1]
        BY <2>2 DEF AddRow
      <3>2. \A g \in Files \ {f} : rows'[g] = rows[g]
        BY <3>1 DEF Typed, TableTypes, StoreTypeOK
      <3>3. QED BY <2>1, <2>2, <3>1, <3>2 DEF Removing, Enabled
    <2>3. CASE DbFails
      BY <2>3, FaultCounts
    <2>4. QED BY <1>14, <2>2, <2>3 DEF HandOverInserts
  <1>15. ASSUME NEW f \in Files, RunEnds(f) PROVE RowsGo'
    <2>1. UNCHANGED <<folder, stray, admin, step>>
      BY <1>15 DEF RunEnds, FinishRow, Request
    <2>2. faults' = 0 => faults = 0
      BY <1>15 DEF RunEnds, FinishRow, Request, Typed, TableTypes, StoreTypeOK
    <2>3. \A g \in Files : rows'[g] <= rows[g]
      BY <1>15 DEF RunEnds, FinishRow, Request, Typed, TableTypes, StoreTypeOK
    <2>4. QED BY <2>1, <2>2, <2>3, RowsGoKept
  <1>16. CASE StopCloses
    <2>1. UNCHANGED <<folder, stray, admin, step>>
      BY <1>16 DEF StopCloses
    <2>2. faults' = 0 => faults = 0
      BY <1>16 DEF StopCloses, Typed, TableTypes, StoreTypeOK
    <2>3. \A g \in Files : rows'[g] <= rows[g]
      BY <1>16 DEF StopCloses, Typed, TableTypes, StoreTypeOK
    <2>4. QED BY <2>1, <2>2, <2>3, RowsGoKept
  <1>17. CASE Restart
    <2>1. faults' # 0
      BY <1>17 DEF Restart, StopIsFault, Typed, TableTypes, StoreTypeOK
    <2>2. QED BY <2>1
  <1>18. CASE UNCHANGED <<folder, rows, faults, stray, admin, step>>
    BY <1>18 DEF Removing, Enabled
  <1> HIDE DEF RowsGo
  <1>19. QED BY <1>1, <1>2, <1>3, <1>4, <1>5, <1>6, <1>7, <1>8, <1>9, <1>10,
    <1>11, <1>12, <1>13, <1>14, <1>15, <1>16, <1>17, <1>18, ZenonT(30) DEF
    Next, RunnerStep, TimerStep, WalkStep, ScanStep, InsertStep, AdminStep,
    Environment, vars, Appear, WriteEnds, Vanish, Grow, Dispatch, Fire,
    Callback, TakeEvent, WorkerStops, Poll, GiveUp, TakeScan, WalkVisit,
    ScanFolder, ScanLock, ScanWalk, ScanEnds, ClearHistory, RequeueChecked,
    HandOverBegins, Begin, Change, Counted, DeleteReportsUnder, Goto,
    NoteRace, OnlyRunner, OnlyScan, Request, Return, ScheduleIdle,
    ScheduleReset

(* Once the request that takes a folder away is answered and no statement  *)
(* failed, its files have no row in jobs, but for the strays: those queued *)
(* by hand, by the downloader, or by who had read the folder before.       *)
THEOREM FolderOff == Spec => []OffMeansEmpty
  <1> DEFINE Off == RowsGo /\ HandsKnown /\ StopIsFault
  <1>1. Init => Off
    <2> SUFFICES ASSUME Init PROVE Off
      OBVIOUS
    <2>1. RowsGo
      <3>1. ~(0 > 0)
        OBVIOUS
      <3>2. \A f \in Files : rows[f] = 0
        BY DEF Init
      <3>3. QED BY <3>1, <3>2, Zenon DEF RowsGo
    <2>2. HandsKnown
      <3>1. \A w \in Runners : file[w] = NoFile /\ pc[w] = "idle"
        BY DEF Init, Fresh
      <3>2. (\A f \in Files : f # NoFile /\ f \notin scanFiles) /\ ask.root \notin Roots
        BY WatcherAssumption DEF Init, NoAsk
      <3>3. QED BY <3>1, <3>2 DEF HandsKnown, InHand, Under, Runners
    <2>3. StopIsFault
      BY DEF Init, StopIsFault
    <2>4. QED BY <2>1, <2>2, <2>3
  <1>2. Off /\ Typed /\ Typed' /\ [Next]_vars => Off'
    BY RowsGoStep, HandsKnownStep, StopIsFaultStep
  <1>3. Off => OffMeansEmpty
    BY DEF RowsGo, OffMeansEmpty
  <1> HIDE DEF Off
  <1>4. QED BY <1>1, <1>2, <1>3, TypedAlways, PTL DEF Spec
=============================================================================
