# goencode: specifications, model checking and proofs

goencode watches folders, queues media files, encodes them with ffmpeg and puts
the result in place of the source. It is one Go process with a SQL database, a
web UI and a yt-dlp downloader. This directory holds TLA+ models of it, TLC
configurations and TLAPS proofs. Paths below are relative to `src/`.

## 1. Inventory

| Part | State | Operations | Talks to |
|---|---|---|---|
| Job store, `internal/db/queries.go`, `app_config.go`, `schema.go` | tables `jobs`, `job_reports`, `app_config`, `watch_folders`, `download_jobs` | single SQL statements, no transactions | called by everybody |
| Encode queue, `internal/queue/manager.go`, `worker.go`, `process.go` | `active` (running jobs: cancel function, command, temp files), `shuttingDown`, `TriggerChan` (capacity 1), `StopChan`; one program counter per worker | `Start`, `Stop`, `Trigger`, `Cancel`, `processNextJob`, `runEncoder`, kill escalation | job store, ffmpeg, file system, SSE |
| Schedule, `queue/schedule.go`, `manager.go:257-383` | `paused`, window start and end, in memory and in `app_config` | `SetPaused`, `SetWindow`, `scheduleLoop`, `Allowed` | job store, `Trigger` |
| Publication, `worker.go:368-440`, `disk.go` | temp file, source, destination | rename or copy, remove the source | file system |
| Watcher, `internal/watcher` | debounce timers, process channel, watch set | scan, debounce, `processFile` | job store, queue `Trigger` |
| Downloader, `internal/downloader` | `active` downloads, trigger, `download_jobs` | claim, run yt-dlp, cancel, hand over to the queue | job store, queue `Trigger` |
| Folder administration, `web/api.go` | `watch_folders` | add, edit, enable, delete, scan, clear history | job store, watcher |
| SSE hub, `web/sse.go` | client set, bounded channels | subscribe, broadcast, leave | browsers |
| Encode rules, `internal/encoder` | none (pure) | skip rules, scaling, command lines, progress | ffmpeg, ffprobe |
| Config, logger, notify, pages, reports | none that others depend on | parse, format, read | - |

Goroutines: one per encode worker, `scheduleLoop`, one per escalation timer, one
per HTTP request, the watcher's loops and timers, the download worker, and the
main goroutine that runs `Stop` on SIGTERM. They meet in `Manager.mu`, in the two
channels, in the contexts of the runs, and in the database.

What is hard, and what makes each part correct:

* **Encode queue.** Requests cancel a job while its worker claims, registers,
  starts, waits for or settles it; `Stop` does the same to all jobs with a
  timeout; a token channel of capacity one must not lose a wakeup; errors of
  statements are ignored; a crash leaves rows and files behind. Correct means: one
  owner per job, rows and registry that tell the truth, no encoder that nobody
  signals, no temp file left, a history that matches what happened to the file,
  no job that waits beside a free worker, a cancel and a shutdown that end.
* **Job store.** Every statement is atomic and no two are; check-then-insert is
  everywhere. Correct means: claims are exclusive, one live job per file.
* **Schedule.** Two copies (row and field) written in two steps. Correct means:
  they agree once requests are over; a job is not started while paused.
* **Publication.** Correct means: at every instant, also after a crash, a full disk
  or a cancel, either the source or a complete output exists.
* **Watcher.** Timers race with their replacement, a full channel drops events,
  folders change under a pending file. Correct means: a stable file in an enabled
  folder is queued once.
* **Downloader.** Claim, registration and completion are separate steps. Correct
  means: a cancelled download stays cancelled, a finished file is queued once.
* **SSE hub.** Correct means: no send to a closed channel, no blocked broadcast.

`PROJECT.json` lists every hazard at its line, with the property that covers it or
the reason why none does yet.

## 2. Modules

| Module | Content | State |
|---|---|---|
| `JobStore` | statements on `jobs`, `job_reports`, the pause row | done |
| `EncodeQueue` | workers, cancel, shutdown, crash and restart over `JobStore` | done |
| `EncodeQueueProofs` | all safety properties of `EncodeQueue` | done |
| `JobLifecycle` | abstract: what the queue promises of a job | done |
| `EncodeLifecycle`, `LifecycleProofs` | the refinement mapping from `EncodeQueue`, and its proof | done |
| `OutputFile` | the files of a run: copy, encode, move or copy back, removal of the source | done |
| `OutputLifecycle` | the refinement mapping from `OutputFile` to `JobLifecycle` | done |
| `DownloadQueue` | download workers, cancel, shutdown, restart, hand-over to the encode queue | done |
| `FetchLifecycle` | abstract: what the downloader promises of a download | done |
| `DownloadLifecycle`, `FetchProofs` | the refinement mapping from `DownloadQueue`, and its proof | done |
| `WatchStore`, `Watcher` | timers, channel, event and scan workers, walks, folder requests | done |
| `SSEHub`, `Schedule` | the hub of events; pause, window, clock and wakeups, which tell the browsers through it | done |
| `MC...` | symmetry and instances for TLC | done |
| `OutputProofs`, `DownloadProofs`, `WatcherProofs`, `ScheduleProofs` | all safety properties of the runs of these modules; `OutputProofs` also its refinement | done |

`Schedule` EXTENDS `SSEHub`, `Watcher` EXTENDS `WatchStore`, `EncodeQueue` EXTENDS
`JobStore`. Where one part calls another through a single statement, each module
has the other's outcome as an action of its own and says which: `TriggerAdded` of
`EncodeQueue` is the `Trigger` after an insert by the watcher or the downloader,
`RunEnds` of `Watcher` is the end of a run, `WatcherQueues` of `DownloadQueue` is a
`Record` of `Watcher`.

Left for later: the composition of the parts' `Stop`s in the order of `main`, two
requests that meet while timers and walks run in `Watch`, and the search for the newest
file in the downloader.

Not planned any more: a module of the encode rules. They are sequential string
functions with table tests, and a model of them would repeat their text.

## 3. How the core model corresponds to the code

`JobStore`: `row[j]` is the status column, with `"new"` for an id not handed out
yet and `"gone"` for a deleted row (ids are AUTOINCREMENT). `prio`, `reports` and
`pausedRow` are columns; `dbErrs` counts statements that failed. Each statement is
an operator. A failed statement changes nothing. `GetPendingJobs` orders by
priority and then by `created_at`, whose resolution is one second: the model takes
any row among those of the highest priority, which includes every order the code
can see.

`EncodeQueue`: one action is one access to state that another goroutine can
see.

| Variables | Code |
|---|---|
| `pc[w]`, `job[w]`, `erred[w]` | position of a worker in `workerLoop`, `processNextJob`, `runEncoder`; its job; whether `runEncoder` returned an error |
| `trigger`, `stopClosed` | `TriggerChan` holds a token; `StopChan` is closed |
| `active`, `hasCmd`, `tracked`, `cancelled` | keys of `Manager.active`, `activeJob.cmd`, `activeJob.temps`, the run's context |
| `shuttingDown`, `paused` | the fields of `Manager` |
| `temps`, `published`, `proc`, `termed`, `escalating` | temp files, final file, ffmpeg and the signals on their way |
| `sigAt[s]`, `sigJob[s]` | a request inside `Cancel`, or `Stop` at one entry of its snapshot |
| `stage`, `todo` | position of `Stop`, then of the process (`down`, `marked`, `up`) |
| `adding`, `ppc` | a caller between `AddJob` and `Trigger`; a pause request between row, field and trigger |

A worker goes `idle -> stopCheck -> pauseCheck -> load -> claim -> wakeNext ->
begin -> prepare -> probe -> copy -> copying -> check -> start -> setCmd -> checkCmd ->
wait -> finish -> report -> return -> settle -> ... -> end -> retrigger -> idle`,
with the early returns of the code as branches to `return` or `idle`. `Cancel`
looks an entry up under the lock and then, without the lock, cancels the context,
reads the command to interrupt it and reads it again to start the escalation:
three actions. The unlocked read of `activeJob.cmd` is a data race; when the
context was still live at `CheckAfterStart` the mutex inside the context orders
the write of the command before the read, and when it was not the worker has
signalled ffmpeg itself, so a stale read adds no outcome to the model.

`ProcessDies` (`Crash` anywhere, `Exit` after `Stop`) resets everything that lives
in memory and keeps the tables, the files and a running ffmpeg, which is in its
own process group; `StartMarks` and `StartWorkers` are `Manager.Start`.

Merged steps: in `Prepare` the registration of the temp paths and the test of the
context (`worker.go:208-212`), since `addTemps` touches only the run's own entry. The skip
report is a step of its own, `Probe`: an ffprobe runs in between, so a run that is
cancelled meanwhile may still leave a "skipped" line, beside the "failed" of a shutdown.
In
`Retrigger` the test of `shuttingDown` and the token, since a spurious token only
makes a worker look; in `FinishOutput` validation and publication, since neither
is visible to another goroutine.

Abstracted: file names, settings, progress, SSE and notifications; `os.Remove`
succeeds; a signal to a reaped process reaches nobody; the encode window is always
open here (its triggers are `ScheduleTrigger`; `Schedule` has the clock); one pause
request at a time.

`JobLifecycle`: a job is absent, waiting, running, doomed or over; it is taken once,
its file is replaced at most once and by the run, and the history never claims more
than happened. A run is doomed when a cancel, or a shutdown, reaches its context
before ffmpeg has been reaped with success, or after the run has failed: there is no
way back and its file is left alone. A run that tells a skip is doomed too: nothing comes
after it. It may have been doomed before, when a cancel came during the probe; what is
promised of a skip is that its file was not replaced and will not be. A cancel that
comes after ffmpeg has ended well is too late, in the code and in the abstract. `EncodeLifecycle` maps a job a
worker owns to "running" or "doomed" and any other by its row. It is the owner that
counts, not the row: after a cancel that missed the run (`CancelClaim`) the row is
gone and the run still replaces the file, which is a step of a running job in the
abstract as well.

`OutputFile` opens up `Copy` to `FinishOutput` of `EncodeQueue`.

| Variables | Code |
|---|---|
| `settings[j]` | `OutputDir`, `DeleteSource`, the container, the source path of a job |
| `disk`, `tempIn`, `tempOut` | what a path holds: a complete copy of a title, a torn file, nothing |
| `sole[j]`, `read[j]` | what the descriptors of `copyFile` still refer to: the file at the destination is the one `j` writes, and `j` alone; what `j` reads |
| `renameFails[j]` | `os.Rename` fails for the output of `j`: temp and library are on different file systems, or for any other reason |
| `pc[j]`, `outcome[j]` | position in `runEncoder`, the report |

`os.Create` truncates for everybody (`Move`), a rename replaces in one step, a
cancelled copy removes what it wrote (`CopyIn`, `CopyBack`), a failed one leaves it
torn; every step that writes may fail. A copy is two steps, its beginning and its
end, which is enough to see every state of the destination another run, a cancel
or a crash can see. Whether an encoded file is smaller, whether `ffprobe` and the
free space agree is a choice. The history variable `published[j]` records that the
move, by rename or copy, has been carried through.

`OutputLifecycle` maps these files to the same `JobLifecycle`: doomed is a run whose
context is cancelled before `Validate` or before it fails, or that has told a skip. So the
two models of one run, workers and rows in `EncodeQueue`, paths and copies in
`OutputFile`, share an abstraction that says how far a cancel reaches, and neither
lets it reach less far than the other. "failed" is left out of the mapped history:
in `OutputFile` it may stand for the row the next start finds. All jobs wait at first
in `OutputFile`, so what is checked is the steps, not the initial state.

`DownloadQueue` has the grain of `EncodeQueue`.

| Variables | Code |
|---|---|
| `row`, `encodes`, `folder` | `download_jobs.status` and `mode`, the row of the download folder in `watch_folders` |
| `known` | the file is named by `jobs` or `job_reports` |
| `ytdlp[d]` | the command of a run, or how it has ended |
| `active`, `cancelled`, `trigger`, `stopClosed`, `shuttingDown` | fields of `downloader.Manager` |
| `pc`, `job` | position in `workerLoop`, `processNext`, `runJob`, `enqueueEncode` |
| `adding`, `cancelling`, `stage`, `todo` | requests and `Stop` between two steps |

A killed yt-dlp is assumed to close its pipes; yt-dlp prints the path of its file,
so the search for the newest file (`findNewestFile`) is left out, as are formats,
progress, cookies and the order by `created_at`.

`FetchLifecycle`: a download waits, is taken, is fetched or doomed, breaks or arrives,
and is over; apart from this phase there is the verdict a user sees, and the set of
files handed to the encode queue. Phase and verdict are two things because a cancel
writes the row of a download whose run it has missed, and that run goes on:
"cancelled" may still become the verdict the run comes to, "completed" and "failed"
are final. "completed" needs a file that has arrived; a run hands over only what was to
be encoded, while the watcher queues whatever it comes upon in a watched folder, a
file that was only to be downloaded there included (`Notice`). `DownloadLifecycle` takes the phase from the
label of the worker that owns the download (doomed: its context is cancelled when it
comes to start yt-dlp), from the row otherwise, and the verdict from the row.

`Watcher`, with the tables in `WatchStore`.

| Variables | Code |
|---|---|
| `fs[f]`, `watched` | a file that is absent, still growing, whole or gone; inotify watches |
| `entry[f]`, `orphans[f]`, `callbacks[f]` | `Manager.timers[f]`; live timers whose entry the function of another has deleted; fired timers waiting for the lock |
| `processChan`, `pc`, `file` | the channel; the workers of `processWorker` and `processQueuedScan` in `processFile` |
| `same`, `grew`, `count` | the file still has the size `lastSize` holds; it has not had it all the time; `stableCount` |
| `walk`, `walkOn`, `walkFiles` | `scanFolders` or `ReplaceFolderWatch`, under `scanMu`, with the known files it read before |
| `ask` | `ScanFolder` between the read of the folder, the query of the known paths and `TryLock` |
| `scan`, `scanForce`, `scanFiles` | a manual scan, holding `scanActive`: its `WalkDir`, then `processQueuedScan` |
| `admin`, `step` | a folder request and its next statement |
| `requeuing`, `handing` | a re-queue, and a hand-over of the downloader, between check and insert |
| `raced`, `stray`, `quiet` | history variables of the properties |

Time is not measured: a timer fires at some time, and between two polls of a worker a
file being written has grown or not (`Grow`): a copy that stalls, or a file of full size
from the start, looks as one that is complete, and `Poll` cannot tell. A file is written
once and lies under one folder. Timers of directories and the walk of a new directory appear as events of
their files. One folder request at a time; edits that keep the path only change
settings. The re-queue request may delete the one report the file had
(`AddRequeuedRow`); the code deletes it a statement later, while the row it has
just inserted keeps the file known.

`SSEHub`: `client[c]` is where `HandleSSE` is; `registered`, `closed` are the map of
clients and their channels; `holder`, `todo` a `Broadcast` in its loop, holding the
mutex. The channels have no buffer: a message reaches a client that waits in its
`select` and no other. `Schedule` adds rows, fields, clock, `scheduleLoop` (`prev` is
its last look) and requests step by step (`req`, `asked`), each ending in a
`Broadcast`. Of the pool it keeps one worker, to see that tokens arrive. The loop
looks every 30 seconds and a window is made of minutes, so the clock moves only
after a look (`looked`); a clock of three hours has windows within a day, across
midnight and with equal ends. History variables: `mixed` (requests overlapped, one
failed half way, or a start read something else than the rows) and `unseen` (the gate moved and the loop had not looked when the
clock moved on).

## 4. Runs

| Run | Instance | Checks | Distinct states |
|---|---|---|---|
| `Pool` | 2 workers, 2 jobs, priorities 0 and 1, 2 pause requests, folder edits, symmetry | `TypeOK`, `OwnerExclusive`, `WorkConserving`, `ImplementsLifecycle` | 2.42 M |
| `Interrupt` | 2 workers, 1 job, 2 cancellers, shutdown, 1 crash, 1 failing statement, symmetry | `ProcessingIsOwned`, `RegistryMatchesRuns`, `NoMissedInterrupt`, `RunLeavesVerdict`, `NoTempLeft`, `VerdictStands` | 3.52 M |
| `Live` | 1 worker, 1 job, 1 canceller, shutdown, crash, folder edits, `FairSpec` | `CancelEnds`, `StopEnds`, `PendingServed`, `ImplementsLifecycle` | 54 k |
| `Publish` | 2 jobs, 2 titles of one base name, 2 directories, 2 containers, any safe settings, renames that work or fail, cancels, failing writes, 1 crash, symmetry | `TypeOK`, `LibraryWhole`, `SuccessIsThere`, `ImplementsLifecycle` | 1.25 M |
| `Downloads` | 2 workers, 2 downloads, 1 canceller, shutdown, symmetry | `TypeOK`, `OneRunner`, `RegistryMatchesRuns`, `NoForgottenDownload`, `HandoverComplete`, `FinalRows` | 3.70 M |
| `DownloadsLive` | 2 workers, 1 download, 1 canceller, the folder may go, shutdown, 1 crash, 1 failing statement, `FairSpec` | `CancelEnds`, `StopEnds`, `PendingServed`, `ImplementsLifecycle` | 350 k |
| `Watch` | 1 file, its folder and a path to move it to, 1 event and 1 scan worker, 2 timers, channel of 1, 2 equal polls, 1 request of any kind and then a second one or a fault (statement, stop or restart), fairness | `TypeOK`, `QueuedAfterQuiet`, `OneRowUnlessRaced`, `OffMeansEmpty`, `NoFileForgotten`, `RequestAnswered` | 381 k |
| `Window` | 3 hours, 3 windows, 1 request, 1 browser, 1 job, 1 fault (statement or restart), `FairSpec` | `TypeOK`, `WindowIsInterval`, `RowsMatchFields`, `NoSendOnClosed`, `SeenOpeningServes`, `NotifyEnds` | 504 k |
| `PauseClaim` | violation | `PausedStartsNothing` | |
| `CancelClaim` | violation | `CancelledStaysCancelled` | |
| `CopyBack` | violation | `NothingLost` | |
| `Opening` | violation | `OpeningServes` | |

Why the bounds are enough.

* `Pool` needs two workers and at most two jobs (one taken, one waiting; two of
  different priority). The hazards of `Interrupt` belong to one job; two cancellers
  and `Stop` give three signallers on one run, two workers let a second one reach
  for the row of the first, one crash gives a life before and after with ffmpeg and
  rows left over. One failing statement reaches every error branch; properties
  that need none to have failed say so (`dbErrs = 0`). The proofs of section 6
  remove these bounds, here and in the runs below, for all safety properties.
* `Publish`: a conflict of files is one between two jobs: same source, same
  destination, one's destination the other's source. Files with different base
  names never conflict, so one base name with two containers gives them all. A third
  job adds no new pair, and `TitlesKept` has any number.
* `Downloads`: as `Pool`; a third download adds no pair. The watch folder stays here, as
  `HandoverComplete` asks nothing once it is gone; its removal, the crash and the failing
  statement are in `DownloadsLive`, whose properties need them: `ImplementsLifecycle`
  above all, as what may go wrong in the life of one download is a restart, a lost
  statement or a second worker that claims it again.
* `Watch`: one file suffices, as files share nothing but the channel, and with one
  place in it and two timers of the one file an event can be dropped. Two polls in a row
  are the least for which a count can be wrong; `AfterQuiet` has any number, the code's
  three included. Two inserters, a re-queue and the downloader race for the row; two
  roots make a move. `MCWatcher` allows two requests or faults in all. The first may meet
  anything: every step of walks, timers, workers and of the writer. The second begins
  when the event workers are idle and no timer is pending, and, if it is a request, when
  the file is complete and nobody walks; it meets the first at each of its steps: a scan
  meets a disable between its read of the folder and its last insert, a re-queue meets a
  scan or a hand-over. Without these conditions the run does not end in the five
  minutes it may take; `OneRow`, `FolderOff` and `AfterQuiet` are proved without them.
* `Window`: the process starts without a window or with the one around midnight, one
  request changes the gate, a restart reads what it wrote or fails to; the hub has a request and the loop as broadcasters and a client in every position.

`LibraryWhole` says where a title is: whole at its own path or, when nothing is
there, at the destination of one of its own jobs. It is checked under `SafeLayout`,
which says exactly when the code keeps every title: a job must not copy over its own
source nor delete it after replacing it, two jobs of one source must not copy to one
place, no output may take the path of another title. The code enforces none of these;
the layouts that break them are hazards of `PROJECT.json`, and `CopyBack` shows the one
users are invited to. With any one of the five conjuncts left out of `SafeLayout`, TLC
finds `LibraryWhole` violated in this instance, so each is needed.
`OneRowUnlessRaced` and `OffMeansEmpty` likewise name the only ways in which the code
can fail: `raced` files, between two statements, and `stray` ones, inserted by a worker
or a manual scan that had read the folder before it was disabled, by a re-queue, or by the
downloader, which does not look at the column `enabled`. `RowsMatchFields` names the three
ways in which rows and fields come apart (`mixed`).

`README.md:13` says that incomplete files are not processed while they are copied into a
watched folder. `QueuedAfterQuiet` is what the code keeps of it: an event worker goes on
with a file only when no write came during the last `StableNeeded` polls (three, five
seconds apart, in the code). A writer that pauses for longer, and a manual scan, which does not wait,
get an incomplete file queued, and the model has both outcomes.

The four violation runs show where the program disagrees with what it says:

* `PauseClaim`: a worker past the pause gate (`worker.go:77`) claims (`:117`) after
  the pause was answered; `dashboard.html:91` says no new job will start.
* `CancelClaim`: between `ClaimJob` and `beginJob` a job is in no map; `Cancel`
  deletes its row and reports success, and the run goes on and replaces the
  source; `dashboard.html:345` says "Job cancelled". A fix would be to register
  the run before the claim, or to look at the row again after `beginJob`.
* `CopyBack`: with temp and library on different file systems, replacing in place
  (`folders.html:119`) truncates the source before the copy is complete; a cancel,
  a write error or a crash then leaves neither. A fix would be to copy to a new name
  beside the destination and rename it.
* `Opening`: a request that closes the gate just before the window opens, or that
  moves the window, is not seen by `scheduleLoop`, which compares two looks; the
  opening then triggers nobody, and the job waits. `SeenOpeningServes`, in `Window`,
  says that this is the only way.

## 5. Fairness

Weak fairness for every goroutine step: the Go scheduler runs what can run, and
statements, copies and timers end. Strong fairness for `WorkerStops` alone: the
`select` of `workerLoop` picks at random among ready channels, so a worker offered
a closed `StopChan` again and again takes it. None for ffmpeg (it may hang and may
ignore SIGTERM), for requests, for crashes, for a restart, for the timeouts of
`Stop`. So `CancelEnds` rests on the escalation to SIGKILL, and `StopEnds` says
that a shutdown ends even without its timeouts. `PendingServed` assumes that every
ffmpeg ends some day and that the queue is in the end neither paused nor shut down.

* `DownloadQueue`: the same; a yt-dlp whose context is cancelled is killed by
  `os/exec` and ends (`YtdlpKilled`), any other may hang, so `StopEnds` and
  `PendingServed` assume that each ends some day: `Stop` does not reach a run
  registered after its snapshot.
* `Watcher`: weak for event workers, timers, callbacks, the steps of a walk and the
  statements of a request; strong for `PeriodicWalk` and `AdminReload`, which wait for
  `scanMu`: a Go mutex hands itself to a waiter that has starved for a millisecond. None
  for files, events (a network share may send none), users, runs, manual scans and
  hand-overs. `NoFileForgotten` therefore rests on the periodic walk alone.
* `Schedule`: strong for the steps of a request and for `LoopNotifies`, which wait
  for the mutex of the hub; weak for the loop, the worker and the sends of a
  broadcast. None for browsers, users and the clock: a client that never reads again
  holds up nobody (`NotifyEnds`).

## 6. Proofs

`EncodeQueueProofs` proves every safety property of the passing runs for any
number of jobs, workers, cancellers, crashes and failed statements, from
`StoreAssumption` and `QueueAssumption` (bounds are naturals, there is a worker,
`NoJob` is no job, the stopper is no canceller).

* `TypeCorrect`: one lemma per part of `TypeOK`, one step per action.
* `OneOwner`: `OwnerExclusive` is not inductive. It needs `OwnedTaken` (an owned row
  is neither new nor pending), which needs that a row once taken is never pending
  again (`TakenForGood`) and that a worker comes to own a job only by a claim
  (`OwnerMoves`). The conjunction with `TypeOK` is `OwnerInv`.
* `NoLostWakeup`: `WorkConserving` is inductive under `TypeOK`.
* `RegistryExact`, `HandshakeWorks`, `TempsRemoved`: from `RunInv`, which says at
  every label what a run may assume of its entry, its encoder and its files
  (`RunOK`), that only owned jobs have any of these (`JobOK`), and that nobody works
  while the process is down. The key lemma is `OnlyOwnerTouches`: a step of a worker
  leaves the state of every job it does not own alone; so each worker's own steps
  are checked once (`OwnRunStep`), and requests, `Stop` and crashes separately
  (`RunsStep`, `JobsStep`).
* `HistoryTrue`, `VerdictFinal`: from `LedgerInv`, which adds what `job_reports` holds
  at each label. `VerdictFinal` is an action property.
* `NoOrphanRow`: `ProcessingIsOwned` with its two ends: at `endJob` the row is no
  longer "processing", and none is between `StartMarks` and `StartWorkers`.
* `PauseCloses`: how far the finding `PauseClaim` goes. While the queue is paused the set
  of workers past the gate only shrinks (`GateShut`), a row becomes "processing" only by
  the claim of one of them (`RowMoves`), and that worker leaves the set with it: so after
  a pause each worker starts one job at most, and only one it had already gone to look for.

`LifecycleProofs` proves `Refinement`: every behaviour of `EncodeQueue`, with any number
of everything, is one of `JobLifecycle` under the mapping of `EncodeLifecycle`. It
rests on `LedgerInv`: the initial states map to the initial state
(`InitMapped`); each action maps to one abstract step or to a stutter, one lemma
per group of actions. What needs the invariant: that a claim is the only way to
come to own a job and finds it waiting (`OwnerInv`), that a publication is the first
of its job (`RunOK`), that a run once doomed stays so until its worker lets go (its
context is never renewed, and each way from `Prepare` past `FFmpegDone` tests it), and
that a verdict is written only where the history may take it (`LedgerInv`). Two theorems
carry facts of the abstract job back to the code: `SuccessIsOne`, which unlike
`HistoryTrue` needs no assumption on failed statements, and `EndedForGood`, that a job
which is over is never run, published or told of again, and a doomed one never
published.

`OutputProofs`, from `OutputAssumption` (titles are paths; `Absent`, `Torn` and `SameDir`
are different from all else).

* `TitlesKept` and `OutputDelivered` are about `SafeSpec`. `Layout` says what safe
  settings mean for paths: two jobs with one destination share their source and
  are renamed, and no job writes to the path of another title. From it `FileInv` is
  inductive: what is on its way to a destination is complete (`Cargo`), a copy is
  written by one job (`Writers`), the file at a title's path is whole or gone (`Sources`),
  the output is in place before the source goes (`Arrived`), and a title not at its path
  has a job that moved it (`Kept`), and what a job alone with its source delivered stays
  (`Delivered`). `LibraryWhole` alone is not inductive: it does not say
  which of the copies the next step may remove. `StepEffect` reduces the ten actions to
  four effects on the library, and the parts are checked against those.
* `InPlaceKeeps` is the boundary of the finding `CopyBack`: where renames work, replacing
  in place is a safe layout with no destination elsewhere, so no path is ever without
  its complete title, even for a moment.
* `OutputRefinement` is about `Spec`, so about any settings, the unsafe ones included: the
  files of a run take the steps of `JobLifecycle`. It needs `PublishInv` (a publication is
  told of once, and by a run that began), and reduces the steps of a job to their
  effect on its label, flags and outcome (`OwnEffect`), as all others are left alone
  (`OthersUntouched`).

`DownloadProofs`, from the assumptions of `DownloadQueue`.

* `OwnerInv` is the base: types, nobody at work between two lives of the process
  (`Halted`), `OneRunner`, a row somebody runs has been taken from the pending ones
  (`Taken`), and what the row of a run says at each label (`RowOfRun`), weakened by a
  cancel that came between claim and registration.
* `RegistryExact` is three invariants: `ActiveRuns` is an equation, not an inclusion;
  `YtdlpHasWorker`; `ShownRowsRun` with its other end, the start that marks leftover rows.
* `NoLostWakeup` is inductive under `OwnerInv`, as a token that is spent is given back by
  whoever lost the claim. `HandedOver` adds what is known at the labels of the
  hand-over (`Handed`), `RowsFinal` follows from `OwnerInv` step by step.

`FetchProofs` proves `DownloadRefinement`: `DownloadQueue` implements `FetchLifecycle`. The
invariant is `FetchInv`: `OwnerInv`, and that a worker which hands over does so for a
download that was to be encoded (`AskedToEncode`). A download has one runner (`OneRunner`),
so its phase is a function of the label of that worker, and a step that moves one
worker moves one phase; requests move verdicts only; a claim finds its row pending
and therefore unowned (`Taken`); the start after a death is the only step that changes
many verdicts, and finds nobody at work (`Halted`). From it, `FetchedForGood`: nothing goes
to the encode queue that was not taken, a run hands over its own file only and only if it
was to be encoded, so that a file only to be downloaded is queued by the watcher or not
at all, and a download that is over is never taken up again.

`WatcherProofs`, from `StoreAssumption` and `WatcherAssumption`.

* `WatcherTyped`: the type invariant in six parts (`Typed`); the timers' part needs that
  an entry that has fired is that of a callback that has not run.
* `AfterQuiet`: while the size is the one read last, the polls counted are those since the
  last write (`QuietTypes`), through any number of upset waits.
* `OneRow`: `RaceInv` says of every file not marked as raced that one inserter at most is
  past its check, that the file then has no row, and that it has one at most otherwise.
* `FolderOff`: `HandsKnown` (files a worker or a scan has in hand, from the read of the
  folder on, of a folder not enabled are strays) and `RowsGo`
  (rows of such a folder that are no strays belong to the request that will purge them,
  and it has not come to the purge), with `StopIsFault`.

`ScheduleProofs`, from `ScheduleAssumption`.

* `ClosedUnsent`: `HubInv` ties the map, the closed channels and the clients a broadcast
  has yet to serve to the mutex.
* `RestartKeepsGate`: `RowsAhead` says, for each step of a request that runs alone, which
  rows are ahead of which fields; a start that reads its rows sets the fields to them, and
  one that does not is told apart by `mixed`.
* `WindowMeaning`: two facts of remainders (`Remainder`, `Distance`) turn the three cases of
  `inEncodeWindow` into one distance on the clock.
* `OneBroadcast`: a sender is in its broadcast exactly when it holds the mutex, so a lock
  is never left behind by a request that has been answered or a loop that has gone on.

Only model-checked: the liveness properties, as fairness is beyond the prover. Every
invariant, action property and refinement of a passing run is a theorem. The violated
properties are, of course, not theorems; for two of them a theorem says how far the
disagreement goes (`PauseCloses`, `InPlaceKeeps`).

## 7. Not modelled

* Notifications (`internal/notify`), reports and statistics (`db/reports.go`), pages,
  logger, configuration, database opening and dialects: they keep no state the parts
  above depend on, or only read it.
* Encode rules (`internal/encoder`): sequential functions; `OutputFile` takes their
  verdicts as choices.
* Cookies of the downloader, the analysis of a URL, progress of downloads and
  encodes: nothing above depends on them.
* `findNewestFile` of the downloader: names and times of files. The hazard is listed.
* The order of the deferred stops in `main` (downloader, watcher, queue): each
  `Stop` is in its own module.
