------------------------------ MODULE Watcher ------------------------------
(***************************************************************************)
(* The watcher of internal/watcher and the folder requests of the web API. *)
(* Files are written into watched folders; events of the file system and   *)
(* periodic walks start debounce timers; a timer that fires hands its file *)
(* to the process channel; event workers wait until the file is stable and *)
(* queue it.  A manual scan queues files at once, with workers of its own. *)
(* Requests add, enable, disable, move and delete folders meanwhile.       *)
(*                                                                         *)
(* Time: a timer fires at some time, a poll happens at some time.  A file  *)
(* is written once, and its writer may pause for as long as it likes: a    *)
(* poll, which compares two sizes, cannot tell a pause from the end.       *)
(* Directory scans and the walk of a new directory treat each file as an   *)
(* event does.  The Trigger of the encode queue that follows an inserted   *)
(* row is TriggerAdded of EncodeQueue.  The downloader inserts rows too    *)
(* (enqueueEncode of internal/downloader/manager.go).                      *)
(***************************************************************************)
EXTENDS WatchStore, Sequences, FiniteSets

CONSTANTS
    EventWorkers, ScanWorkers,
    NoFile, NoRoot,
    ChanCap,       \* capacity of processChan
    StableNeeded,  \* equal polls until a file counts as stable
    MaxTimers,     \* bound: debounce timers of one file at the same time
    MaxRequests    \* bound: requests of users, cancels of jobs included, and
                   \* downloads that are handed over

ASSUME WatcherAssumption ==
    /\ EventWorkers # {} /\ ScanWorkers # {}
    /\ EventWorkers \cap ScanWorkers = {}
    /\ {"requeue", "download"} \cap (EventWorkers \cup ScanWorkers) = {}
    /\ NoFile \notin Files
    /\ NoRoot \notin Roots
    /\ ChanCap \in Nat \ {0}
    /\ StableNeeded \in Nat \ {0}
    /\ MaxTimers \in Nat \ {0}
    /\ MaxRequests \in Nat

Runners == EventWorkers \cup ScanWorkers

VARIABLES
    \* file system and its notifications
    fs,        \* "absent", "growing", "whole", "gone"
    watched,   \* roots under an inotify watch
    \* debounce timers
    entry,     \* Manager.timers: "none", a "live" timer, or one that "fired"
    orphans,   \* live timers whose entry somebody else removed
    callbacks, \* functions of fired timers that have not yet got the lock
    processChan,
    \* processFile, one per worker
    pc, file,
    same,      \* the file has still the size read last
    grew,      \* ... and has not always had it since the wait began
    count,     \* stableCount
    \* scanFolders and ReplaceFolderWatch, under scanMu
    walk, walkOn, walkFiles,
    \* ScanFolder and processQueuedScan
    ask,       \* the scan request before it has the lock
    scan,      \* "idle", or scanActive is locked: "walk", "queue"
    scanForce, scanFiles,
    \* the folder request at work, the re-queue request, and the download
    \* that is handed over
    admin, step, requeuing, handing,
    requests, stopped,
    \* history variables
    raced,     \* files two inserters checked before either inserted
    stray,     \* files queued by hand or by the downloader while their folder
               \* was not enabled, and those a worker or a scan had read the
               \* folder for when it was disabled
    quiet      \* polls since the file was written last

fsVars == <<fs, watched>>
timerVars == <<entry, orphans, callbacks>>
runVars == <<pc, file, same, grew, count, quiet>>
walkVars == <<walk, walkOn, walkFiles>>
scanVars == <<ask, scan, scanForce, scanFiles>>
requestVars == <<admin, step, requeuing, handing, requests>>
historyVars == <<raced, stray>>

vars == <<storeVars, fsVars, timerVars, processChan, runVars, walkVars, scanVars,
          requestVars, stopped, historyVars>>

NoRequest == [kind |-> "none", root |-> NoRoot, to |-> NoRoot]
NoAsk == [step |-> "none", root |-> NoRoot, force |-> FALSE, files |-> {}]
NoHand == [file |-> NoFile, checked |-> FALSE]
Kinds == {"none", "add", "enable", "disable", "delete", "move"}
Present(f) == fs[f] \in {"growing", "whole"}
Timers(f) == (IF entry[f] = "live" THEN 1 ELSE 0) + orphans[f] + callbacks[f]

TypeOK ==
    /\ StoreTypeOK
    /\ fs \in [Files -> {"absent", "growing", "whole", "gone"}]
    /\ watched \in SUBSET Roots
    /\ entry \in [Files -> {"none", "live", "fired"}]
    /\ orphans \in [Files -> 0 .. MaxTimers]
    /\ callbacks \in [Files -> 0 .. MaxTimers]
    /\ \A f \in Files : Timers(f) <= MaxTimers
    /\ \A f \in Files : entry[f] = "fired" => callbacks[f] > 0
    /\ processChan \in Seq(Files) /\ Len(processChan) <= ChanCap
    /\ pc \in [Runners -> {"idle", "wait", "check", "folder", "record", "stopped"}]
    /\ file \in [Runners -> Files \cup {NoFile}]
    /\ \A w \in Runners : (file[w] = NoFile) <=> (pc[w] \in {"idle", "stopped"})
    /\ same \in [Runners -> BOOLEAN]
    /\ grew \in [Runners -> BOOLEAN]
    /\ count \in [Runners -> 0 .. StableNeeded - 1]
    /\ quiet \in [Runners -> 0 .. StableNeeded]
    /\ walk \in {"none", "periodic", "reload", "replace"}
    /\ walkOn \in SUBSET Roots
    /\ walkFiles \in SUBSET Files
    /\ ask \in [step : {"none", "query", "lock"}, root : Roots \cup {NoRoot},
                force : BOOLEAN, files : SUBSET Files]
    /\ scan \in {"idle", "walk", "queue"}
    /\ scanForce \in BOOLEAN
    /\ scanFiles \in SUBSET Files
    /\ admin \in [kind : Kinds, root : Roots \cup {NoRoot}, to : Roots \cup {NoRoot}]
    /\ step \in {"idle", "row", "drop", "reload", "walking", "purge"}
    /\ requeuing \in Files \cup {NoFile}
    /\ handing \in [file : Files \cup {NoFile}, checked : BOOLEAN]
    /\ requests \in 0 .. MaxRequests
    /\ stopped \in BOOLEAN
    /\ raced \in SUBSET Files
    /\ stray \in SUBSET Files

(* What a new process starts with: Start calls Reload at once. *)
Fresh ==
    [entry |-> [f \in Files |-> "none"],
     zero |-> [f \in Files |-> 0],
     pc |-> [w \in Runners |-> "idle"],
     file |-> [w \in Runners |-> NoFile],
     no |-> [w \in Runners |-> FALSE],
     count |-> [w \in Runners |-> 0]]

Init ==
    /\ folder \in [Roots -> {"none", "on"}]
    /\ rows = [f \in Files |-> 0]
    /\ reported = {}
    /\ faults = 0
    /\ fs \in [Files -> {"absent", "whole"}]
    /\ watched = Enabled
    /\ entry = Fresh.entry /\ orphans = Fresh.zero /\ callbacks = Fresh.zero
    /\ processChan = <<>>
    /\ pc = Fresh.pc /\ file = Fresh.file
    /\ same = Fresh.no /\ grew = Fresh.no
    /\ count = Fresh.count /\ quiet = Fresh.count
    /\ walk = "reload" /\ walkOn = Enabled /\ walkFiles = {f \in Files : RootOf[f] \in Enabled}
    /\ ask = NoAsk /\ scan = "idle" /\ scanForce = FALSE /\ scanFiles = {}
    /\ admin = NoRequest /\ step = "idle" /\ requeuing = NoFile /\ handing = NoHand
    /\ requests = 0 /\ stopped = FALSE
    /\ raced = {} /\ stray = {}

-----------------------------------------------------------------------------
(* The writer of a file. *)
Change(f, before, after) ==
    /\ fs[f] \in before
    /\ fs' = [fs EXCEPT ![f] = after]
    /\ UNCHANGED <<storeVars, watched, timerVars, processChan, runVars, walkVars,
                   scanVars, requestVars, stopped, historyVars>>

(* A write: those who wait for the file will find another size.            *)
Waiting(f) == {w \in Runners : pc[w] = "wait" /\ file[w] = f}

Grow(f) ==
    /\ fs[f] = "growing"
    /\ \E w \in Waiting(f) : same[w]
    /\ same' = [w \in Runners |-> same[w] /\ w \notin Waiting(f)]
    /\ grew' = [w \in Runners |-> grew[w] \/ w \in Waiting(f)]
    /\ quiet' = [w \in Runners |-> IF w \in Waiting(f) THEN 0 ELSE quiet[w]]
    /\ UNCHANGED <<storeVars, fsVars, timerVars, processChan, pc, file, count, walkVars,
                   scanVars, requestVars, stopped, historyVars>>

Appear(f) == Change(f, {"absent"}, "growing")
WriteEnds(f) == Change(f, {"growing"}, "whole")
Vanish(f) == Change(f, {"growing", "whole"}, "gone")

-----------------------------------------------------------------------------
(* scheduleProcess with reset: Stop has no effect on a timer that has      *)
(* fired, whose entry is replaced all the same.                            *)
ScheduleReset(f) ==
    /\ entry[f] = "live" \/ Timers(f) < MaxTimers
    /\ entry' = [entry EXCEPT ![f] = "live"]
    /\ UNCHANGED <<orphans, callbacks>>

(* ... and without: an entry is left alone, fired or not. *)
ScheduleIdle(f) ==
    /\ entry[f] = "none" => Timers(f) < MaxTimers
    /\ entry' = [entry EXCEPT ![f] = IF @ = "none" THEN "live" ELSE @]
    /\ UNCHANGED <<orphans, callbacks>>

(* dispatchEvent.  A file of a watched root may have an event at any time: *)
(* it is written, renamed, touched, or the event comes late.  None has to  *)
(* come: the buffer overflows, a network share sends none.  New attributes *)
(* only schedule a file that is idle and unknown; all else puts it off.    *)
Dispatch(f) ==
    /\ ~stopped
    /\ RootOf[f] \in watched /\ Present(f)
    /\ \/ ScheduleReset(f)
       \/ ~IsFileAlreadyProcessedOrQueued(f) /\ ScheduleIdle(f)
    /\ UNCHANGED <<storeVars, fsVars, processChan, runVars, walkVars, scanVars,
                   requestVars, stopped, historyVars>>

(* Mutant: a timer that has fired still counts as running. *)
FireTwice(f) ==
    /\ entry[f] = "live"
    /\ callbacks' = [callbacks EXCEPT ![f] = @ + 1]
    /\ UNCHANGED <<storeVars, fsVars, entry, orphans, processChan, runVars, walkVars,
                   scanVars, requestVars, stopped, historyVars>>

Fire(f) ==
    /\ \/ /\ entry[f] = "live"
          /\ entry' = [entry EXCEPT ![f] = "fired"]
          /\ UNCHANGED orphans
       \/ /\ orphans[f] > 0
          /\ orphans' = [orphans EXCEPT ![f] = @ - 1]
          /\ UNCHANGED entry
    /\ callbacks' = [callbacks EXCEPT ![f] = @ + 1]
    /\ UNCHANGED <<storeVars, fsVars, processChan, runVars, walkVars, scanVars,
                   requestVars, stopped, historyVars>>

(* Mutant: the entry of the map stays. *)
CallbackKeepsEntry(f) ==
    /\ callbacks[f] > 0
    /\ callbacks' = [callbacks EXCEPT ![f] = @ - 1]
    /\ processChan' = IF ~stopped /\ Len(processChan) < ChanCap
                        THEN Append(processChan, f) ELSE processChan
    /\ UNCHANGED <<storeVars, fsVars, entry, orphans, runVars, walkVars, scanVars,
                   requestVars, stopped, historyVars>>

(* The function of a timer deletes the entry of the map, whoever's it is;  *)
(* nobody can tell whether the send that follows is a step of its own.  A  *)
(* full channel drops the file.                                            *)
Callback(f) ==
    /\ callbacks[f] > 0
    /\ callbacks' = [callbacks EXCEPT ![f] = @ - 1]
    /\ orphans' = [orphans EXCEPT ![f] = IF entry[f] = "live" THEN @ + 1 ELSE @]
    /\ entry' = [entry EXCEPT ![f] = "none"]
    /\ processChan' = IF ~stopped /\ Len(processChan) < ChanCap
                        THEN Append(processChan, f) ELSE processChan
    /\ UNCHANGED <<storeVars, fsVars, runVars, walkVars, scanVars, requestVars,
                   stopped, historyVars>>

-----------------------------------------------------------------------------
(* processFile. *)
Goto(w, label) ==
    /\ pc' = [pc EXCEPT ![w] = label]
    /\ same' = [same EXCEPT ![w] = FALSE]
    /\ grew' = [grew EXCEPT ![w] = FALSE]
    /\ count' = [count EXCEPT ![w] = 0]
    /\ quiet' = [quiet EXCEPT ![w] = 0]
    /\ UNCHANGED file

Return(w) ==
    /\ pc' = [pc EXCEPT ![w] = "idle"]
    /\ file' = [file EXCEPT ![w] = NoFile]
    /\ same' = [same EXCEPT ![w] = FALSE]
    /\ grew' = [grew EXCEPT ![w] = FALSE]
    /\ count' = [count EXCEPT ![w] = 0]
    /\ quiet' = [quiet EXCEPT ![w] = 0]

(* The file is there; a wait begins with the size it has. *)
Begin(w, f, label) ==
    IF Present(f)
      THEN /\ pc' = [pc EXCEPT ![w] = label]
           /\ file' = [file EXCEPT ![w] = f]
           /\ same' = [same EXCEPT ![w] = label = "wait"]
           /\ UNCHANGED <<grew, count, quiet>>
      ELSE UNCHANGED runVars

OnlyRunner == UNCHANGED <<fsVars, timerVars, walkVars, requestVars, stopped>>

(* processWorker takes a path. *)
TakeEvent(w) ==
    /\ w \in EventWorkers /\ pc[w] = "idle"
    /\ processChan # <<>>
    /\ processChan' = Tail(processChan)
    /\ Begin(w, Head(processChan), "wait")
    /\ OnlyRunner
    /\ UNCHANGED <<storeVars, scanVars, historyVars>>

WorkerStops(w) ==
    /\ w \in EventWorkers /\ pc[w] = "idle"
    /\ stopped
    /\ Goto(w, "stopped")
    /\ OnlyRunner
    /\ UNCHANGED <<storeVars, processChan, scanVars, historyVars>>

(* An equal poll. *)
Counted(w) ==
    IF count[w] + 1 >= StableNeeded
      THEN Goto(w, "check")
      ELSE /\ count' = [count EXCEPT ![w] = @ + 1]
           /\ quiet' = [quiet EXCEPT ![w] = @ + 1]
           /\ UNCHANGED <<pc, file, same, grew>>

(* Mutant: a poll that finds another size does not start the count again.  *)
PollWithoutReset(w) ==
    LET f == file[w] IN
    /\ pc[w] = "wait"
    /\ \/ ~Present(f) /\ Return(w)
       \/ Present(f) /\ same[w] /\ Counted(w)
       \/ /\ Present(f) /\ ~same[w]
          /\ same' = [same EXCEPT ![w] = TRUE]
          /\ UNCHANGED <<pc, file, grew, count, quiet>>
    /\ OnlyRunner
    /\ UNCHANGED <<storeVars, processChan, scanVars, historyVars>>

(* One round of the stability loop: the size is the one read last, or it   *)
(* is another one, to be compared with the next.                           *)
Poll(w) ==
    LET f == file[w] IN
    /\ pc[w] = "wait"
    /\ \/ ~Present(f) /\ Return(w)
       \/ Present(f) /\ same[w] /\ Counted(w)
       \/ /\ Present(f) /\ ~same[w]
          /\ same' = [same EXCEPT ![w] = TRUE]
          /\ count' = [count EXCEPT ![w] = 0]
          /\ UNCHANGED <<pc, file, grew, quiet>>
    /\ OnlyRunner
    /\ UNCHANGED <<storeVars, processChan, scanVars, historyVars>>

(* maxStableWait allows many more polls than a file needs that is not      *)
(* written meanwhile.                                                      *)
GiveUp(w) ==
    /\ pc[w] = "wait" /\ grew[w]
    /\ Return(w)
    /\ OnlyRunner
    /\ UNCHANGED <<storeVars, processChan, scanVars, historyVars>>

Forced(w) == w \in ScanWorkers /\ scanForce

(* Those past the check of f who may still insert a row for it. *)
Checked(f) ==
    {w \in Runners : pc[w] \in {"folder", "record"} /\ file[w] = f}
        \cup (IF requeuing = f THEN {"requeue"} ELSE {})
        \cup (IF handing = [file |-> f, checked |-> TRUE] THEN {"download"} ELSE {})

NoteRace(f) == raced' = IF Checked(f) # {} THEN raced \cup {f} ELSE raced \ {f}

Known(w) ==
    IF Forced(w) THEN IsFileQueued(file[w]) ELSE IsFileAlreadyProcessedOrQueued(file[w])

(* The query for a row or a report; a manual scan has its copy of the      *)
(* folder.                                                                 *)
Check(w) ==
    /\ pc[w] = "check"
    /\ \/ /\ ~Known(w)
          /\ Goto(w, IF w \in ScanWorkers THEN "record" ELSE "folder")
          /\ NoteRace(file[w])
          /\ UNCHANGED storeVars
       \/ Known(w) /\ Return(w) /\ UNCHANGED <<storeVars, raced>>
       \/ DbFails /\ Return(w) /\ UNCHANGED raced
    /\ OnlyRunner
    /\ UNCHANGED <<processChan, scanVars, stray>>

(* Mutant: the column enabled is not looked at. *)
FindAnyFolder(w) ==
    /\ pc[w] = "folder"
    /\ \/ folder[RootOf[file[w]]] # "none" /\ Goto(w, "record") /\ UNCHANGED storeVars
       \/ DbFails /\ Return(w)
    /\ OnlyRunner
    /\ UNCHANGED <<processChan, scanVars, historyVars>>

(* findWatchFolder; what it has read holds for the rest of processFile.    *)
FindWatchFolder(w) ==
    /\ pc[w] = "folder"
    /\ \/ RootOf[file[w]] \in Enabled /\ Goto(w, "record") /\ UNCHANGED storeVars
       \/ RootOf[file[w]] \notin Enabled /\ Return(w) /\ UNCHANGED storeVars
       \/ DbFails /\ Return(w)
    /\ OnlyRunner
    /\ UNCHANGED <<processChan, scanVars, historyVars>>

(* checkSkip probes the file, which may take long; then the report of the  *)
(* skip, or the row, is inserted.                                          *)
Record(w) ==
    LET f == file[w] IN
    /\ pc[w] = "record"
    /\ Return(w)
    /\ \/ AddRow(f)
       \/ ~Forced(w) /\ AddSkipReport(f)
       \/ DbFails
    /\ OnlyRunner
    /\ UNCHANGED <<processChan, scanVars, historyVars>>

-----------------------------------------------------------------------------
(* scanFolders, under scanMu, as the periodic loop and Reload call it: the *)
(* known files are read once, before a root is walked and watched.         *)
StartWalk(kind, roots) ==
    /\ walk = "none"
    /\ walk' = kind
    /\ walkOn' = IF kind = "reload" THEN roots ELSE {}
    /\ walkFiles' = {f \in Files : RootOf[f] \in roots
                                   /\ ~IsFileAlreadyProcessedOrQueued(f)}

(* The roots among those asked for that there are or that MkdirAll makes;  *)
(* a fault leaves some out.                                                *)
Opened(asked, roots) ==
    \/ roots = asked /\ UNCHANGED storeVars
    \/ roots \in SUBSET asked \ {asked} /\ DbFails

(* An error of GetWatchFolders leaves all out.                             *)
PeriodicWalk ==
    /\ ~stopped
    /\ \E roots \in SUBSET Enabled :
          /\ Opened(Enabled, roots)
          /\ StartWalk("periodic", roots)
          /\ watched' = watched \cup roots
    /\ UNCHANGED <<fs, timerVars, processChan, runVars, scanVars, requestVars,
                   stopped, historyVars>>

WalkVisit(f) ==
    /\ f \in walkFiles
    /\ walkFiles' = walkFiles \ {f}
    /\ IF Present(f) THEN ScheduleIdle(f) ELSE UNCHANGED timerVars
    /\ UNCHANGED <<storeVars, fsVars, processChan, runVars, walk, walkOn,
                   scanVars, requestVars, stopped, historyVars>>

AfterReload == IF admin.kind \in {"add", "enable"} THEN "idle" ELSE "purge"

(* Mutant: scanMu stays locked. *)
WalkKeepsLock ==
    /\ walk # "none" /\ FALSE
    /\ UNCHANGED vars

(* Reload drops the watches of other folders; a request goes on. *)
WalkEnds ==
    /\ walk # "none" /\ walkFiles = {}
    /\ walk' = "none" /\ walkOn' = {}
    /\ watched' = IF walk = "reload" THEN watched \cap walkOn ELSE watched
    /\ step' = IF step # "walking" \/ walk = "periodic" THEN step ELSE AfterReload
    /\ admin' = IF step' = "idle" THEN NoRequest ELSE admin
    /\ UNCHANGED <<storeVars, fs, timerVars, processChan, runVars, walkFiles, scanVars,
                   requeuing, handing, requests, stopped, historyVars>>

-----------------------------------------------------------------------------
Request == ~stopped /\ requests < MaxRequests /\ requests' = requests + 1

(* POST /api/folders/scan: ScanFolder reads the folder, and works with     *)
(* what it has read whatever becomes of the row.                           *)
ScanFolder(r, force) ==
    /\ Request
    /\ ask.step = "none"
    /\ r \in Enabled
    /\ ask' = [step |-> "query", root |-> r, force |-> force, files |-> {}]
    /\ UNCHANGED <<storeVars, fsVars, timerVars, processChan, runVars, walkVars, scan,
                   scanForce, scanFiles, admin, step, requeuing, handing, stopped,
                   historyVars>>

OnlyScan ==
    UNCHANGED <<fsVars, timerVars, processChan, runVars, walkVars, requestVars, stopped,
                historyVars>>

(* The paths it will leave out; an error of one of the queries ends it. *)
ScanQuery ==
    LET known == IF ask.force THEN QueuedUnder(ask.root) ELSE KnownUnder(ask.root) IN
    /\ ask.step = "query"
    /\ \/ /\ ask' = [ask EXCEPT !.step = "lock", !.files = Under(ask.root) \ known]
          /\ UNCHANGED storeVars
       \/ DbFails /\ ask' = NoAsk
    /\ OnlyScan
    /\ UNCHANGED <<scan, scanForce, scanFiles>>

(* scanActive.TryLock: the request is refused while another scan runs. *)
ScanLock ==
    /\ ask.step = "lock"
    /\ ask' = NoAsk
    /\ IF scan = "idle"
         THEN scan' = "walk" /\ scanForce' = ask.force /\ scanFiles' = ask.files
         ELSE UNCHANGED <<scan, scanForce, scanFiles>>
    /\ OnlyScan
    /\ UNCHANGED storeVars

(* WalkDir collects what is there. *)
ScanWalk ==
    /\ scan = "walk"
    /\ scan' = "queue"
    /\ scanFiles' = {f \in scanFiles : Present(f)}
    /\ OnlyScan
    /\ UNCHANGED <<storeVars, ask, scanForce>>

(* A worker of processQueuedScan takes a path; once stopped it only drains. *)
TakeScan(w, f) ==
    /\ w \in ScanWorkers /\ pc[w] = "idle"
    /\ scan = "queue" /\ f \in scanFiles
    /\ scanFiles' = scanFiles \ {f}
    /\ IF stopped THEN UNCHANGED runVars ELSE Begin(w, f, "check")
    /\ OnlyRunner
    /\ UNCHANGED <<storeVars, processChan, ask, scan, scanForce, historyVars>>

(* wg.Wait, then the deferred Unlock. *)
ScanEnds ==
    /\ scan = "queue" /\ scanFiles = {}
    /\ \A w \in ScanWorkers : pc[w] = "idle"
    /\ scan' = "idle" /\ scanForce' = FALSE
    /\ OnlyScan
    /\ UNCHANGED <<storeVars, ask, scanFiles>>

-----------------------------------------------------------------------------
(* The folder requests of web/api.go; one at a time here.  Disabling       *)
(* writes the row first, moving and deleting drop the timers first.        *)
AdminBegins(kind, r, to) ==
    /\ Request
    /\ step = "idle"
    /\ \/ kind = "add" /\ folder[r] = "none" /\ to = r
       \/ kind \in {"enable", "disable", "delete"} /\ folder[r] # "none" /\ to = r
       \/ kind = "move" /\ folder[r] # "none" /\ to # r
    /\ admin' = [kind |-> kind, root |-> r, to |-> to]
    /\ step' = IF kind \in {"move", "delete"} THEN "drop" ELSE "row"
    /\ UNCHANGED <<storeVars, fsVars, timerVars, processChan, runVars, walkVars, scanVars,
                   requeuing, handing, stopped, historyVars>>

Proceed(next) ==
    /\ step' = next
    /\ admin' = IF next = "idle" THEN NoRequest ELSE admin
    /\ UNCHANGED <<requeuing, handing, requests>>

(* Files somebody works on with the folder row read before. *)
InHand(r) ==
    {f \in Under(r) : \/ ask.root = r
                      \/ f \in scanFiles
                      \/ \E w \in Runners : file[w] = f /\ pc[w] = "record"
                      \/ \E w \in ScanWorkers : file[w] = f}

(* The path of a folder is unique. *)
WriteRow ==
    \/ admin.kind \in {"add", "enable"} /\ SetFolder(admin.root, "on")
    \/ admin.kind = "disable" /\ SetFolder(admin.root, "off")
    \/ admin.kind = "delete" /\ SetFolder(admin.root, "none")
    \/ /\ admin.kind = "move" /\ folder[admin.to] = "none"
       /\ RenameFolder(admin.root, admin.to)

AdminRow ==
    /\ step = "row"
    /\ \/ /\ WriteRow
          /\ Proceed(IF admin.kind = "disable" THEN "drop" ELSE "reload")
          /\ stray' = IF folder'[admin.root] = "on" THEN stray
                      ELSE stray \cup InHand(admin.root)
       \/ DbFails /\ Proceed("idle") /\ UNCHANGED stray
       \/ /\ admin.kind = "move" /\ folder[admin.to] # "none"
          /\ Proceed("idle")
          /\ UNCHANGED <<storeVars, stray>>
    /\ UNCHANGED <<fsVars, timerVars, processChan, runVars, walkVars, scanVars, stopped,
                   raced>>

(* DropPendingForFolder stops the timers it finds in the map. *)
AdminDrop ==
    /\ step = "drop"
    /\ entry' = [f \in Files |-> IF RootOf[f] = admin.root THEN "none" ELSE entry[f]]
    /\ Proceed(IF admin.kind = "disable" THEN "reload" ELSE "row")
    /\ UNCHANGED <<storeVars, fsVars, orphans, callbacks, processChan, runVars, walkVars,
                   scanVars, stopped, historyVars>>

(* Reload; when GetWatchFolders fails, or the watcher has stopped, it      *)
(* leaves everything as it is.  ReplaceFolderWatch, which walks the new    *)
(* path enabled or not, unless it cannot make it.                          *)
AdminReload ==
    /\ step = "reload"
    /\ \/ /\ admin.kind # "move"
          /\ \E roots \in SUBSET Enabled :
                /\ Opened(Enabled, roots)
                /\ StartWalk("reload", roots)
                /\ watched' = watched \cup roots
          /\ Proceed("walking")
       \/ /\ admin.kind = "move"
          /\ StartWalk("replace", {admin.to})
          /\ watched' = (watched \ {admin.root}) \cup {admin.to}
          /\ Proceed("walking")
          /\ UNCHANGED storeVars
       \/ /\ walk = "none"
          /\ \/ admin.kind # "move" /\ stopped /\ UNCHANGED storeVars
             \/ DbFails
          /\ watched' = IF admin.kind = "move" THEN watched \ {admin.root} ELSE watched
          /\ Proceed(AfterReload)
          /\ UNCHANGED walkVars
    /\ UNCHANGED <<fs, timerVars, processChan, runVars, scanVars, stopped, historyVars>>

(* DeleteJobsUnderPath takes the rows of running jobs as well. *)
AdminPurge ==
    /\ step = "purge"
    /\ DeleteJobsUnder(admin.root) \/ DbFails
    /\ Proceed("idle")
    /\ UNCHANGED <<fsVars, timerVars, processChan, runVars, walkVars, scanVars, stopped,
                   historyVars>>

(* POST /api/folders/clear-history. *)
ClearHistory(r) ==
    /\ Request
    /\ folder[r] # "none"
    /\ DeleteReportsUnder(r)
    /\ UNCHANGED <<fsVars, timerVars, processChan, runVars, walkVars, scanVars, admin,
                   step, requeuing, handing, stopped, historyVars>>

(* POST /api/jobs/requeue: a check, then an insert; the report of a failed *)
(* run goes.                                                               *)
RequeueChecked(f) ==
    /\ Request
    /\ requeuing = NoFile
    /\ f \in reported /\ ~IsFileQueued(f)
    /\ requeuing' = f
    /\ NoteRace(f)
    /\ UNCHANGED <<storeVars, fsVars, timerVars, processChan, runVars, walkVars, scanVars,
                   admin, step, handing, stopped, stray>>

RequeueInserts ==
    LET f == requeuing IN
    /\ f # NoFile
    /\ requeuing' = NoFile
    /\ \/ /\ AddRequeuedRow(f)
          /\ stray' = IF RootOf[f] \in Enabled THEN stray ELSE stray \cup {f}
       \/ DbFails /\ UNCHANGED stray
    /\ UNCHANGED <<fsVars, timerVars, processChan, runVars, walkVars, scanVars,
                   admin, step, handing, requests, stopped, raced>>

(* A download of mode "encode" is complete: the row of its folder is there *)
(* and need not be enabled, the file is neither known nor queued, then it  *)
(* is queued.                                                              *)
HandOverBegins(f) ==
    /\ Request
    /\ handing = NoHand
    /\ fs[f] = "whole"
    /\ \E r \in Roots : folder[r] # "none"
    /\ handing' = [file |-> f, checked |-> FALSE]
    /\ UNCHANGED <<storeVars, fsVars, timerVars, processChan, runVars, walkVars, scanVars,
                   admin, step, requeuing, stopped, historyVars>>

HandOverChecks ==
    /\ handing # NoHand /\ ~handing.checked
    /\ \/ /\ ~IsFileAlreadyProcessedOrQueued(handing.file)
          /\ handing' = [handing EXCEPT !.checked = TRUE]
          /\ NoteRace(handing.file)
          /\ UNCHANGED storeVars
       \/ /\ IsFileAlreadyProcessedOrQueued(handing.file)
          /\ handing' = NoHand
          /\ UNCHANGED <<storeVars, raced>>
       \/ DbFails /\ handing' = NoHand /\ UNCHANGED raced
    /\ UNCHANGED <<fsVars, timerVars, processChan, runVars, walkVars, scanVars,
                   admin, step, requeuing, requests, stopped, stray>>

HandOverInserts ==
    LET f == handing.file IN
    /\ handing.checked
    /\ handing' = NoHand
    /\ \/ /\ AddRow(f)
          /\ stray' = IF RootOf[f] \in Enabled THEN stray ELSE stray \cup {f}
       \/ DbFails /\ UNCHANGED stray
    /\ UNCHANGED <<fsVars, timerVars, processChan, runVars, walkVars, scanVars,
                   admin, step, requeuing, requests, stopped, raced>>

(* The encode queue finishes a job, or a user cancels it. *)
RunEnds(f) ==
    /\ \/ FinishRow(f, TRUE) /\ UNCHANGED requests
       \/ FinishRow(f, FALSE) /\ Request
    /\ UNCHANGED <<fsVars, timerVars, processChan, runVars, walkVars, scanVars,
                   admin, step, requeuing, handing, stopped, historyVars>>

-----------------------------------------------------------------------------
(* Manager.Stop. *)
StopCloses ==
    /\ ~stopped /\ faults < MaxFaults
    /\ stopped' = TRUE
    /\ faults' = faults + 1
    /\ UNCHANGED <<folder, rows, reported, fsVars, timerVars, processChan, runVars, walkVars, scanVars,
                   requestVars, historyVars>>

(* The process ends, after Stop or not, and a new one starts. *)
Restart ==
    /\ IF stopped THEN UNCHANGED faults ELSE faults < MaxFaults /\ faults' = faults + 1
    /\ stopped' = FALSE
    /\ watched' = Enabled
    /\ entry' = Fresh.entry /\ orphans' = Fresh.zero /\ callbacks' = Fresh.zero
    /\ processChan' = <<>>
    /\ pc' = Fresh.pc /\ file' = Fresh.file
    /\ same' = Fresh.no /\ grew' = Fresh.no
    /\ count' = Fresh.count /\ quiet' = Fresh.count
    /\ walk' = "reload" /\ walkOn' = Enabled
    /\ walkFiles' = {f \in Files : RootOf[f] \in Enabled
                                   /\ ~IsFileAlreadyProcessedOrQueued(f)}
    /\ ask' = NoAsk /\ scan' = "idle" /\ scanForce' = FALSE /\ scanFiles' = {}
    /\ admin' = NoRequest /\ step' = "idle" /\ requeuing' = NoFile /\ handing' = NoHand
    /\ UNCHANGED <<folder, rows, reported, fs, requests, historyVars>>

-----------------------------------------------------------------------------
RunnerStep(w) ==
    \/ TakeEvent(w) \/ Poll(w) \/ Check(w) \/ FindWatchFolder(w) \/ Record(w)
    \/ \E f \in Files : TakeScan(w, f)

TimerStep(f) == Fire(f) \/ Callback(f)

WalkStep == WalkEnds \/ (\E f \in Files : WalkVisit(f))

ScanStep == ScanQuery \/ ScanLock \/ ScanWalk \/ ScanEnds

InsertStep == RequeueInserts \/ HandOverChecks \/ HandOverInserts

AdminStep == AdminRow \/ AdminDrop \/ AdminReload \/ AdminPurge

Environment ==
    \/ \E f \in Files : Appear(f) \/ Grow(f) \/ WriteEnds(f) \/ Vanish(f)
    \/ \E f \in Files : Dispatch(f) \/ RequeueChecked(f) \/ HandOverBegins(f) \/ RunEnds(f)
    \/ \E r \in Roots, force \in BOOLEAN : ScanFolder(r, force)
    \/ \E kind \in Kinds, r, to \in Roots : AdminBegins(kind, r, to)
    \/ \E r \in Roots : ClearHistory(r)
    \/ StopCloses
    \/ Restart

Next ==
    \/ \E w \in Runners : RunnerStep(w) \/ GiveUp(w) \/ WorkerStops(w)
    \/ \E f \in Files : TimerStep(f)
    \/ PeriodicWalk \/ WalkStep
    \/ ScanStep
    \/ AdminStep \/ InsertStep
    \/ Environment

Spec == Init /\ [][Next]_vars

(* Goroutines run, timers fire, the ticker ticks, and a mutex lets nobody  *)
(* wait for ever.  Whoever writes files may stop, events may be late, and  *)
(* neither a manual scan nor an insert of others has to end.               *)
Fairness ==
    /\ \A w \in EventWorkers : WF_vars(RunnerStep(w))
    /\ \A f \in Files : WF_vars(TimerStep(f))
    /\ SF_vars(PeriodicWalk) /\ WF_vars(WalkStep)
    /\ WF_vars(AdminRow \/ AdminDrop \/ AdminPurge) /\ SF_vars(AdminReload)

FairSpec == Spec /\ Fairness

-----------------------------------------------------------------------------
(* The README: incomplete files are not processed while they are copied to *)
(* the watch folder.  The code cannot promise that of a writer that        *)
(* pauses, and a manual scan does not even wait: what it keeps is that an  *)
(* event worker goes on with a file only after StableNeeded polls in a row *)
(* between which nobody has written to it, however often the wait was      *)
(* upset before.                                                           *)
QueuedAfterQuiet ==
    [][\A w \in EventWorkers :
          pc[w] = "wait" /\ pc'[w] = "check" => same[w] /\ quiet[w] + 1 >= StableNeeded]_vars

(* The check and the insert of a row are two statements: a file has two    *)
(* rows only if two of the workers, the re-queue request and the           *)
(* downloader were between them at the same time.                          *)
OneRowUnlessRaced == \A f \in Files : rows[f] > 1 => f \in raced

(* Disabling, moving or deleting a folder removes its queued jobs: once    *)
(* the request is answered its files have no row, but for one that was     *)
(* inserted by who had read the folder before, a worker or a manual scan,  *)
(* or that a user or the downloader queued without looking at the column   *)
(* enabled.                                                                *)
OffMeansEmpty ==
    \A f \in Files :
        /\ RootOf[f] \notin Enabled
        /\ admin.root # RootOf[f]
        /\ faults = 0
        /\ rows[f] > 0
        => f \in stray

(* Whatever timers, channel, folder edits, failed statements and restarts  *)
(* do to it, a complete file in an enabled folder gets known some day.     *)
NoFileForgotten ==
    \A f \in Files :
        (fs[f] = "whole" /\ RootOf[f] \in Enabled)
            ~> \/ IsFileAlreadyProcessedOrQueued(f)
               \/ fs[f] = "gone" \/ RootOf[f] \notin Enabled \/ stopped

(* A folder request, which waits for the walks of others, is answered. *)
RequestAnswered == (step # "idle") ~> (step = "idle")
=============================================================================
