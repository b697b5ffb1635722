------------------------------ MODULE Schedule ------------------------------
(***************************************************************************)
(* When the encode queue may start jobs: the pause switch and the encode   *)
(* window of internal/queue/manager.go and schedule.go, each kept in rows  *)
(* of app_config and in fields of the Manager, the loop that wakes the     *)
(* queue when the window opens, and the events told to the browsers.       *)
(* Requests overlap, statements fail, the process may be started again.    *)
(*                                                                         *)
(* Of EncodeQueue this module has one worker, whose run is one step, and   *)
(* the token it takes.  The clock goes round in Hours steps; the loop      *)
(* looks at it at least once in each, as 30 seconds are less than the      *)
(* minute a window is made of, and starts within one.                      *)
(***************************************************************************)
EXTENDS SSEHub

CONSTANTS
    Hours,
    Windows,      \* windows a user may set, a subset of Clock \X Clock
    Unset,        \* a row that is empty: no end of a window
    Requests,     \* concurrent POST /api/queue/pause and /api/queue/window
    Loop,
    Jobs,         \* bound: pending jobs
    MaxSettings,  \* bound: requests in all
    MaxFaults     \* bound: statements that fail, and restarts, with the reads that
                  \* fail at one

Clock == 0 .. Hours - 1
Ends == Clock \cup {Unset}

ASSUME ScheduleAssumption ==
    /\ Hours \in Nat \ {0}
    /\ Windows \subseteq Clock \X Clock
    /\ Unset \notin Clock
    /\ Loop \notin Requests
    /\ NoSender \notin Requests \cup {Loop}
    /\ Jobs \in Nat /\ MaxSettings \in Nat /\ MaxFaults \in Nat

VARIABLES
    pausedRow, startRow, endRow,  \* app_config
    paused, windowStart, windowEnd,
    trigger,                      \* TriggerChan
    clock,
    loop,                         \* "starting", "waiting", "notify", "telling"
    prev,                         \* what scheduleLoop saw last
    looked,                       \* ... in this step of the clock
    worker,                       \* "idle", "check", "load"
    pending,
    req, asked,                   \* step and wish of each request
    settings, faults,
    mixed,                        \* history: requests overlapped, one failed, or a start
                                  \* read something else than the row
    unseen                        \* history: the gate moved and the loop had no look before
                                  \* the clock moved on

rowVars == <<pausedRow, startRow, endRow>>
fieldVars == <<paused, windowStart, windowEnd>>
loopVars == <<loop, prev, looked>>
clockVars == <<clock, unseen>>
queueVars == <<worker, pending>>
reqVars == <<req, asked, settings>>
vars == <<hubVars, rowVars, fieldVars, trigger, clockVars, loopVars, queueVars, reqVars,
          faults, mixed>>

Senders == Requests \cup {Loop}
NoWish == [pause |-> "keep", window |-> <<Unset, Unset>>]
Wishes == [pause : {"keep", "on", "off"},
           window : Windows \cup {<<Unset, Unset>>}]

TypeOK ==
    /\ HubTypeOK(Senders)
    /\ pausedRow \in BOOLEAN /\ paused \in BOOLEAN
    /\ {startRow, endRow, windowStart, windowEnd} \subseteq Ends
    /\ trigger \in BOOLEAN
    /\ clock \in Clock
    /\ loop \in {"starting", "waiting", "notify", "telling"}
    /\ prev \in BOOLEAN /\ looked \in BOOLEAN
    /\ worker \in {"idle", "check", "load"}
    /\ pending \in 0 .. Jobs
    /\ req \in [Requests -> {"idle", "row", "row2", "field", "trigger", "notify", "telling"}]
    /\ asked \in [Requests -> Wishes]
    /\ \A r \in Requests : req[r] = "idle" => asked[r] = NoWish
    /\ settings \in 0 .. MaxSettings
    /\ faults \in 0 .. MaxFaults
    /\ mixed \in BOOLEAN /\ unseen \in BOOLEAN

-----------------------------------------------------------------------------
(* Mutant: a window around midnight is taken for an empty one. *)
InPlainWindow(now, start, end) ==
    IF start = Unset \/ end = Unset THEN TRUE
    ELSE start = end \/ (now >= start /\ now < end)

(* inEncodeWindow, on parsed clocks. *)
InEncodeWindow(now, start, end) ==
    IF start = Unset \/ end = Unset THEN TRUE
    ELSE \/ start = end
         \/ start < end /\ now >= start /\ now < end
         \/ start > end /\ (now >= start \/ now < end)

Allowed == ~paused /\ InEncodeWindow(clock, windowStart, windowEnd)

(* Start of the process: loadSchedule has read what an earlier one left. *)
Init ==
    /\ HubInit
    /\ paused \in BOOLEAN /\ pausedRow = paused
    /\ \E win \in Windows \cup {<<Unset, Unset>>} :
            /\ windowStart = win[1] /\ startRow = win[1]
            /\ windowEnd = win[2] /\ endRow = win[2]
    /\ trigger = TRUE
    /\ clock \in Clock
    /\ loop = "starting" /\ prev = FALSE /\ looked = FALSE
    /\ worker = "idle" /\ pending = 0
    /\ req = [r \in Requests |-> "idle"]
    /\ asked = [r \in Requests |-> NoWish]
    /\ settings = 0 /\ faults = 0 /\ mixed = FALSE /\ unseen = FALSE

-----------------------------------------------------------------------------
Step(r, next) ==
    /\ req' = [req EXCEPT ![r] = next]
    /\ asked' = [asked EXCEPT ![r] = IF next = "idle" THEN NoWish ELSE @]
    /\ UNCHANGED settings

Asks(r, wish) ==
    /\ req[r] = "idle"
    /\ settings < MaxSettings
    /\ settings' = settings + 1
    /\ req' = [req EXCEPT ![r] = "row"]
    /\ asked' = [asked EXCEPT ![r] = wish]
    /\ mixed' = (mixed \/ \E q \in Requests : req[q] # "idle")
    /\ UNCHANGED <<hubVars, rowVars, fieldVars, trigger, clockVars, loopVars, queueVars, faults>>

SetsPause(r) == asked[r].pause # "keep"

(* A failed SetAppConfig ends the request with an error. *)
RowFails(r) ==
    /\ req[r] \in {"row", "row2"}
    /\ faults < MaxFaults
    /\ faults' = faults + 1
    /\ mixed' = TRUE
    /\ Step(r, "idle")
    /\ UNCHANGED <<hubVars, rowVars, fieldVars, trigger, clockVars, loopVars, queueVars>>

(* SetPaused writes one row, SetWindow two. *)
WriteRow(r) ==
    /\ req[r] = "row"
    /\ IF SetsPause(r)
         THEN /\ pausedRow' = (asked[r].pause = "on")
              /\ UNCHANGED <<startRow, endRow>>
              /\ Step(r, "field")
         ELSE /\ startRow' = asked[r].window[1]
              /\ UNCHANGED <<pausedRow, endRow>>
              /\ Step(r, "row2")
    /\ UNCHANGED <<hubVars, fieldVars, trigger, clockVars, loopVars, queueVars, faults, mixed>>

(* Mutant: the end of the window is written under the wrong key. *)
WriteWrongRow(r) ==
    /\ req[r] = "row2"
    /\ startRow' = asked[r].window[2]
    /\ Step(r, "field")
    /\ UNCHANGED <<hubVars, pausedRow, endRow, fieldVars, trigger, clockVars, loopVars,
                   queueVars, faults, mixed>>

WriteEndRow(r) ==
    /\ req[r] = "row2"
    /\ endRow' = asked[r].window[2]
    /\ Step(r, "field")
    /\ UNCHANGED <<hubVars, pausedRow, startRow, fieldVars, trigger, clockVars, loopVars,
                   queueVars, faults, mixed>>

WriteField(r) ==
    /\ req[r] = "field"
    /\ IF SetsPause(r)
         THEN /\ paused' = (asked[r].pause = "on")
              /\ UNCHANGED <<windowStart, windowEnd>>
         ELSE /\ windowStart' = asked[r].window[1]
              /\ windowEnd' = asked[r].window[2]
              /\ UNCHANGED paused
    /\ Step(r, IF asked[r].pause = "on" THEN "notify" ELSE "trigger")
    /\ UNCHANGED <<hubVars, rowVars, trigger, clockVars, loopVars, queueVars, faults, mixed>>

TriggerQueue(r) ==
    /\ req[r] = "trigger"
    /\ trigger' = TRUE
    /\ Step(r, "notify")
    /\ UNCHANGED <<hubVars, rowVars, fieldVars, clockVars, loopVars, queueVars, faults, mixed>>

(* NotifySSE, in the request's own goroutine. *)
Notify(r) ==
    /\ req[r] = "notify"
    /\ TakeHub(r)
    /\ Step(r, "telling")
    /\ UNCHANGED <<rowVars, fieldVars, trigger, clockVars, loopVars, queueVars, faults, mixed>>

Answer(r) ==
    /\ req[r] = "telling"
    /\ FreeHub(r)
    /\ Step(r, "idle")
    /\ UNCHANGED <<rowVars, fieldVars, trigger, clockVars, loopVars, queueVars, faults, mixed>>

RequestStep(r) ==
    WriteRow(r) \/ WriteEndRow(r) \/ WriteField(r) \/ TriggerQueue(r) \/ Notify(r) \/ Answer(r)

-----------------------------------------------------------------------------
(* scheduleLoop. *)
LoopStarts ==
    /\ loop = "starting"
    /\ loop' = "waiting"
    /\ prev' = Allowed
    /\ looked' = TRUE
    /\ UNCHANGED <<hubVars, rowVars, fieldVars, trigger, clockVars, queueVars, reqVars, faults, mixed>>

(* Mutant: only a closing is acted upon. *)
LoopMissesOpening ==
    /\ loop = "waiting"
    /\ prev' = Allowed
    /\ looked' = TRUE
    /\ loop' = IF Allowed # prev THEN "notify" ELSE "waiting"
    /\ UNCHANGED <<hubVars, rowVars, fieldVars, trigger, clockVars, queueVars, reqVars, faults, mixed>>

LoopTicks ==
    /\ loop = "waiting"
    /\ prev' = Allowed
    /\ looked' = TRUE
    /\ trigger' = (trigger \/ (Allowed /\ ~prev))
    /\ loop' = IF Allowed # prev THEN "notify" ELSE "waiting"
    /\ UNCHANGED <<hubVars, rowVars, fieldVars, clockVars, queueVars, reqVars, faults, mixed>>

LoopNotifies ==
    /\ loop = "notify"
    /\ TakeHub(Loop)
    /\ loop' = "telling"
    /\ UNCHANGED <<rowVars, fieldVars, trigger, clockVars, prev, looked, queueVars, reqVars, faults, mixed>>

LoopWaits ==
    /\ loop = "telling"
    /\ FreeHub(Loop)
    /\ loop' = "waiting"
    /\ UNCHANGED <<rowVars, fieldVars, trigger, clockVars, prev, looked, queueVars, reqVars, faults, mixed>>

LoopStep == LoopStarts \/ LoopTicks \/ LoopNotifies \/ LoopWaits

ClockTicks ==
    /\ looked
    /\ clock' = (clock + 1) % Hours
    /\ unseen' = (unseen \/ prev # Allowed)
    /\ looked' = FALSE
    /\ UNCHANGED <<hubVars, rowVars, fieldVars, trigger, loop, prev, queueVars, reqVars, faults, mixed>>

-----------------------------------------------------------------------------
(* The queue: AddJob and TriggerAdded, then Wake, CheckAllowed, LoadPending *)
(* and Claim of EncodeQueue; a worker that has claimed triggers the next.   *)
JobAdded ==
    /\ pending < Jobs
    /\ pending' = pending + 1
    /\ trigger' = TRUE
    /\ UNCHANGED <<hubVars, rowVars, fieldVars, clockVars, loopVars, worker, reqVars, faults, mixed>>

Wake ==
    /\ worker = "idle" /\ trigger
    /\ trigger' = FALSE
    /\ worker' = "check"
    /\ UNCHANGED <<hubVars, rowVars, fieldVars, clockVars, loopVars, pending, reqVars, faults, mixed>>

(* Outside the window, or paused, the token is spent. *)
CheckAllowed ==
    /\ worker = "check"
    /\ worker' = IF Allowed THEN "load" ELSE "idle"
    /\ UNCHANGED <<hubVars, rowVars, fieldVars, trigger, clockVars, loopVars, pending,
                   reqVars, faults, mixed>>

Load ==
    /\ worker = "load"
    /\ worker' = "idle"
    /\ pending' = IF pending > 0 THEN pending - 1 ELSE 0
    /\ trigger' = (trigger \/ pending > 0)
    /\ UNCHANGED <<hubVars, rowVars, fieldVars, clockVars, loopVars, reqVars, faults, mixed>>

WorkerStep == Wake \/ CheckAllowed \/ Load

(* loadSchedule reads the three rows one by one and takes what it got: a    *)
(* read that fails gives an empty value, no pause and no end of a window.   *)
LoadSchedule ==
    /\ paused' \in {pausedRow, FALSE}
    /\ windowStart' \in {startRow, Unset}
    /\ windowEnd' \in {endRow, Unset}
    /\ mixed' = (mixed \/ fieldVars' # rowVars)

(* The process ends and starts again. *)
Restart ==
    /\ faults < MaxFaults
    /\ faults' = faults + 1
    /\ LoadSchedule
    /\ client' = [c \in Clients |-> "away"]
    /\ registered' = {} /\ closed' = Clients /\ holder' = NoSender /\ todo' = {}
    /\ trigger' = TRUE
    /\ loop' = "starting" /\ prev' = FALSE /\ looked' = FALSE
    /\ worker' = "idle"
    /\ req' = [r \in Requests |-> "idle"]
    /\ asked' = [r \in Requests |-> NoWish]
    /\ UNCHANGED <<rowVars, clockVars, pending, settings>>

-----------------------------------------------------------------------------
HubOnly == UNCHANGED <<rowVars, fieldVars, trigger, clockVars, loopVars, queueVars, reqVars,
                       faults, mixed>>

HubStep == (\E c \in Clients : SendTo(c)) /\ HubOnly
BrowserStep(c) == ClientStep(c) /\ HubOnly

Wish == \E r \in Requests :
            \/ \E p \in {"on", "off"} : Asks(r, [NoWish EXCEPT !.pause = p])
            \/ \E win \in Windows \cup {<<Unset, Unset>>} :
                    Asks(r, [NoWish EXCEPT !.window = win])

Next ==
    \/ \E r \in Requests : RequestStep(r) \/ RowFails(r)
    \/ Wish
    \/ LoopStep \/ ClockTicks
    \/ WorkerStep \/ JobAdded
    \/ Restart
    \/ HubStep
    \/ \E c \in Clients : BrowserStep(c)

Spec == Init /\ [][Next]_vars

(* Goroutines run and a mutex lets nobody wait for ever; browsers, users   *)
(* and the clock owe nothing.                                              *)
Fairness ==
    /\ \A r \in Requests : SF_vars(RequestStep(r))
    /\ WF_vars(LoopStarts) /\ WF_vars(LoopTicks)
    /\ SF_vars(LoopNotifies) /\ WF_vars(LoopWaits)
    /\ WF_vars(WorkerStep)
    /\ WF_vars(HubStep)

FairSpec == Spec /\ Fairness

-----------------------------------------------------------------------------
(* inEncodeWindow against its meaning: a clock started at the beginning of *)
(* the window, now or some steps ago, has not reached its end yet.         *)
WindowIsInterval ==
    windowStart # Unset /\ windowEnd # Unset =>
        LET length == (windowEnd + Hours - windowStart) % Hours
            since == (clock + Hours - windowStart) % Hours
        IN  InEncodeWindow(clock, windowStart, windowEnd)
                <=> (length = 0 \/ since < length)

(* What the queue obeys is what the rows say, once the requests are over:   *)
(* only requests that overlapped, a request that failed half way, or a     *)
(* start that could not read a row leave fields that say something else.   *)
RowsMatchFields ==
    (~mixed /\ \A r \in Requests : req[r] = "idle") =>
        /\ pausedRow = paused
        /\ startRow = windowStart /\ endRow = windowEnd

(* A job is started when the window opens or the pause ends, though the    *)
(* token of its insertion was spent outside: no job waits while the gate   *)
(* stays open.                                                             *)
OpeningServes == <>[]Allowed => []<>(pending = 0)

(* The same where the loop has looked at the gate between the last request *)
(* that moved it and the opening, which is all the code provides for.      *)
SeenOpeningServes == []~unseen => OpeningServes

(* A request, and the loop, are done with the browsers whatever these do.  *)
NotifyEnds ==
    /\ \A r \in Requests : (req[r] = "notify") ~> (req[r] = "idle")
    /\ (loop = "notify") ~> (loop \notin {"notify", "telling"})
=============================================================================
