--------------------------- MODULE ScheduleProofs ---------------------------
(***************************************************************************)
(* Theorems about Schedule and the hub it talks through, for any number of *)
(* hours, windows, requests, clients, jobs and faults.                     *)
(***************************************************************************)
EXTENDS Schedule, TLAPS

USE DEF hubVars, rowVars, fieldVars, loopVars, clockVars, queueVars, reqVars

-----------------------------------------------------------------------------
(* The invariants the proofs rest on. *)

(* A broadcaster that frees the mutex has come to the end of its loop, and *)
(* a client is unregistered before its channel is closed.                  *)
HubInv ==
    /\ HubTypeOK(Senders)
    /\ holder = NoSender => todo = {}
    /\ registered \cap closed = {}
    /\ \A c \in Clients : client[c] = "closing" => c \notin registered

Same == pausedRow = paused /\ startRow = windowStart /\ endRow = windowEnd

(* How far the rows are ahead of the fields at each step of a request, and *)
(* that an unmixed history has one request at a time.                      *)
RowsAhead ==
    ~mixed =>
        /\ \A q, r \in Requests : req[q] # "idle" /\ req[r] # "idle" => q = r
        /\ (\A r \in Requests : req[r] \notin {"row2", "field"}) => Same
        /\ \A r \in Requests :
             /\ req[r] = "row2" =>
                  /\ ~SetsPause(r)
                  /\ pausedRow = paused
                  /\ startRow = asked[r].window[1] /\ endRow = windowEnd
             /\ req[r] = "field" =>
                  IF SetsPause(r)
                    THEN /\ pausedRow = (asked[r].pause = "on")
                         /\ startRow = windowStart /\ endRow = windowEnd
                    ELSE /\ pausedRow = paused
                         /\ startRow = asked[r].window[1]
                         /\ endRow = asked[r].window[2]

-----------------------------------------------------------------------------
LEMMA WishesMade ==
    Wish => \E r \in Requests, wish \in Wishes : Asks(r, wish)
  <1>1. ASSUME NEW p \in {"on", "off"} PROVE [NoWish EXCEPT !.pause = p] \in Wishes
    BY DEF NoWish, Wishes
  <1>2. ASSUME NEW win \in Windows \cup {<<Unset, Unset>>}
        PROVE  [NoWish EXCEPT !.window = win] \in Wishes
    BY DEF NoWish, Wishes
  <1>3. QED BY <1>1, <1>2 DEF Wish

(* The hub. *)

LEMMA HubStepInv ==
    ASSUME HubInv, [Next]_vars
    PROVE  HubInv'
  <1> USE ScheduleAssumption DEF HubInv, HubTypeOK
  <1>1. ASSUME NEW r \in Requests, Notify(r) PROVE HubInv'
    BY <1>1 DEF Notify, TakeHub, Step, Senders
  <1>2. ASSUME NEW r \in Requests, Answer(r) PROVE HubInv'
    BY <1>2 DEF Answer, FreeHub, Step
  <1>3. CASE LoopNotifies
    BY <1>3 DEF LoopNotifies, TakeHub, Senders
  <1>4. CASE LoopWaits
    BY <1>4 DEF LoopWaits, FreeHub
  <1>5. CASE Restart
    BY <1>5 DEF Restart, Senders
  <1>6. ASSUME NEW c \in Clients, SendTo(c), HubOnly PROVE HubInv'
    BY <1>6 DEF SendTo, HubOnly
  <1>7. ASSUME NEW c \in Clients, Connect(c), HubOnly PROVE HubInv'
    BY <1>7 DEF Connect, Becomes, HubOnly
  <1>8. ASSUME NEW c \in Clients, Ping(c), HubOnly PROVE HubInv'
    BY <1>8 DEF Ping, Becomes, HubOnly
  <1>9. ASSUME NEW c \in Clients, Written(c), HubOnly PROVE HubInv'
    BY <1>9 DEF Written, Becomes, HubOnly
  <1>10. ASSUME NEW c \in Clients, Leave(c), HubOnly PROVE HubInv'
    BY <1>10 DEF Leave, Becomes, HubOnly
  <1>11. ASSUME NEW c \in Clients, Unregister(c), HubOnly PROVE HubInv'
    BY <1>11 DEF Unregister, Becomes, HubOnly
  <1>12. ASSUME NEW c \in Clients, CloseChannel(c), HubOnly PROVE HubInv'
    BY <1>12 DEF CloseChannel, Becomes, HubOnly
  <1>13. CASE UNCHANGED <<client, registered, closed, holder, todo>>
    BY <1>13
  <1> HIDE DEF HubInv, HubTypeOK
  <1>14. QED BY <1>1, <1>2, <1>3, <1>4, <1>5, <1>6, <1>7, <1>8, <1>9, <1>10,
    <1>11, <1>12, <1>13, WishesMade, ZenonT(30) DEF Next, RequestStep,
    LoopStep, WorkerStep, HubStep, BrowserStep, ClientStep, vars, WriteRow,
    WriteEndRow, WriteField, TriggerQueue, RowFails, Asks, LoopStarts,
    LoopTicks, ClockTicks, JobAdded, Wake, CheckAllowed, Load, HubOnly,
    SetsPause, Step

LEMMA HubInvariant == Spec => []HubInv
  <1>1. Init => HubInv
    BY DEF Init, HubInit, HubInv, HubTypeOK
  <1>2. HubInv /\ [Next]_vars => HubInv' BY HubStepInv
  <1>3. QED BY <1>1, <1>2, PTL DEF Spec

(* Nobody sends on a closed channel, whatever browsers, requests and the   *)
(* schedule loop do at the same time.                                      *)
THEOREM ClosedUnsent == Spec => []NoSendOnClosed
  <1>1. HubInv => NoSendOnClosed
    BY DEF HubInv, HubTypeOK, NoSendOnClosed
  <1>2. QED BY <1>1, HubInvariant, PTL

-----------------------------------------------------------------------------
(* Types. *)

LEMMA Remainder ==
    ASSUME NEW h \in Nat \ {0}, NEW n \in Nat
    PROVE  n % h \in 0 .. h - 1
  OBVIOUS

ScheduleTypes ==
    /\ pausedRow \in BOOLEAN /\ paused \in BOOLEAN
    /\ {startRow, endRow, windowStart, windowEnd} \subseteq Ends
    /\ trigger \in BOOLEAN
    /\ loop \in {"starting", "waiting", "notify", "telling"}
    /\ prev \in BOOLEAN /\ looked \in BOOLEAN
    /\ worker \in {"idle", "check", "load"}
    /\ pending \in 0 .. Jobs
    /\ clock \in Clock

RequestTypes ==
    /\ req \in [Requests -> {"idle", "row", "row2", "field", "trigger", "notify", "telling"}]
    /\ asked \in [Requests -> Wishes]
    /\ \A r \in Requests : req[r] = "idle" => asked[r] = NoWish
    /\ settings \in 0 .. MaxSettings
    /\ faults \in 0 .. MaxFaults
    /\ mixed \in BOOLEAN /\ unseen \in BOOLEAN

LEMMA RequestTypesStep ==
    ASSUME RequestTypes, [Next]_vars
    PROVE  RequestTypes'
  <1> USE ScheduleAssumption DEF RequestTypes, Step, Wishes, NoWish
  <1>1. ASSUME NEW r \in Requests, WriteRow(r) PROVE RequestTypes'
    BY <1>1 DEF WriteRow, SetsPause
  <1>2. ASSUME NEW r \in Requests, WriteEndRow(r) PROVE RequestTypes'
    BY <1>2 DEF WriteEndRow
  <1>3. ASSUME NEW r \in Requests, WriteField(r) PROVE RequestTypes'
    BY <1>3 DEF WriteField, SetsPause
  <1>4. ASSUME NEW r \in Requests, TriggerQueue(r) PROVE RequestTypes'
    BY <1>4 DEF TriggerQueue
  <1>5. ASSUME NEW r \in Requests, Notify(r) PROVE RequestTypes'
    BY <1>5 DEF Notify, TakeHub
  <1>6. ASSUME NEW r \in Requests, Answer(r) PROVE RequestTypes'
    BY <1>6 DEF Answer, FreeHub
  <1>7. ASSUME NEW r \in Requests, RowFails(r) PROVE RequestTypes'
    BY <1>7 DEF RowFails
  <1>8. ASSUME NEW r \in Requests, NEW wish \in Wishes, Asks(r, wish) PROVE
    RequestTypes'
    BY <1>8 DEF Asks
  <1>9. CASE ClockTicks
    BY <1>9 DEF ClockTicks
  <1>10. CASE Restart
    <2>1. mixed' \in BOOLEAN
      BY <1>10 DEF Restart, LoadSchedule
    <2>2. QED BY <1>10, <2>1 DEF Restart
  <1>11. CASE UNCHANGED <<req, asked, settings, faults, mixed, unseen>>
    BY <1>11
  <1> HIDE DEF RequestTypes, Step, Wishes, NoWish
  <1>12. QED BY <1>1, <1>2, <1>3, <1>4, <1>5, <1>6, <1>7, <1>8, <1>9, <1>10,
    <1>11, WishesMade, ZenonT(30) DEF Next, RequestStep, LoopStep, WorkerStep,
    HubStep, BrowserStep, ClientStep, vars, LoopStarts, LoopTicks,
    LoopNotifies, LoopWaits, JobAdded, Wake, CheckAllowed, Load, SendTo,
    Connect, Ping, Written, Leave, Unregister, CloseChannel, Becomes, FreeHub,
    HubOnly, TakeHub

LEMMA WindowsAsked ==
    ASSUME RequestTypes, NEW r \in Requests
    PROVE  asked[r].window[1] \in Ends /\ asked[r].window[2] \in Ends
  <1>1. asked[r].window \in Windows \cup {<<Unset, Unset>>}
    BY DEF RequestTypes, Wishes
  <1>2. CASE asked[r].window = <<Unset, Unset>>
    BY <1>2 DEF Ends
  <1>3. CASE asked[r].window \in Clock \X Clock
    BY <1>3 DEF Ends
  <1>4. QED BY <1>1, <1>2, <1>3, ScheduleAssumption

LEMMA ScheduleTypesStep ==
    ASSUME ScheduleTypes, RequestTypes, [Next]_vars
    PROVE  ScheduleTypes'
  <1> USE ScheduleAssumption DEF ScheduleTypes
  <1>1. ASSUME NEW r \in Requests, WriteRow(r) PROVE ScheduleTypes'
    <2>1. pausedRow' \in BOOLEAN
      BY <1>1 DEF WriteRow
    <2>2. QED BY <1>1, <2>1, WindowsAsked DEF WriteRow
  <1>2. ASSUME NEW r \in Requests, WriteEndRow(r) PROVE ScheduleTypes'
    BY <1>2, WindowsAsked DEF WriteEndRow, Step
  <1>3. ASSUME NEW r \in Requests, WriteField(r) PROVE ScheduleTypes'
    <2>1. paused' \in BOOLEAN
      BY <1>3 DEF WriteField
    <2>2. QED BY <1>3, <2>1, WindowsAsked DEF WriteField
  <1>4. ASSUME NEW r \in Requests, TriggerQueue(r) PROVE ScheduleTypes'
    BY <1>4 DEF TriggerQueue, Step
  <1>5. CASE LoopStarts
    <2>1. prev' \in BOOLEAN /\ looked' \in BOOLEAN
      BY <1>5 DEF LoopStarts, Allowed
    <2>2. QED BY <1>5, <2>1 DEF LoopStarts
  <1>6. CASE LoopTicks
    <2>1. prev' \in BOOLEAN /\ looked' \in BOOLEAN
      BY <1>6 DEF LoopTicks, Allowed
    <2>2. QED BY <1>6, <2>1 DEF LoopTicks
  <1>7. CASE LoopNotifies
    BY <1>7 DEF LoopNotifies, TakeHub
  <1>8. CASE LoopWaits
    BY <1>8 DEF LoopWaits, FreeHub
  <1>9. CASE ClockTicks
    <2>1. clock + 1 \in Nat /\ Hours \in Nat \ {0}
      BY ScheduleAssumption DEF Clock
    <2>2. clock' \in Clock
      BY <1>9, <2>1, Remainder DEF ClockTicks, Clock
    <2>3. QED BY <1>9, <2>2 DEF ClockTicks
  <1>10. CASE JobAdded
    BY <1>10 DEF JobAdded
  <1>11. CASE Wake
    BY <1>11 DEF Wake
  <1>12. CASE CheckAllowed
    BY <1>12 DEF CheckAllowed
  <1>13. CASE Load
    BY <1>13 DEF Load
  <1>14. CASE Restart
    <2>1. paused' \in BOOLEAN
      BY <1>14 DEF Restart, LoadSchedule
    <2>2. windowStart' \in Ends /\ windowEnd' \in Ends
      BY <1>14 DEF Restart, LoadSchedule, Ends
    <2>3. QED BY <1>14, <2>1, <2>2 DEF Restart
  <1>15. CASE UNCHANGED <<pausedRow, startRow, endRow, paused, windowStart,
    windowEnd, trigger, loop, prev, looked, worker, pending, clock>>
    BY <1>15
  <1> HIDE DEF ScheduleTypes
  <1>16. QED BY <1>1, <1>2, <1>3, <1>4, <1>5, <1>6, <1>7, <1>8, <1>9, <1>10,
    <1>11, <1>12, <1>13, <1>14, <1>15, WishesMade, ZenonT(30) DEF Next,
    RequestStep, LoopStep, WorkerStep, HubStep, BrowserStep, ClientStep, vars,
    Notify, Answer, RowFails, Asks, SendTo, Connect, Ping, Written, Leave,
    Unregister, CloseChannel, Becomes, FreeHub, HubOnly, Step, TakeHub

LEMMA RowsStep ==
    ASSUME ScheduleTypes, RequestTypes, RowsAhead, [Next]_vars
    PROVE  RowsAhead'
  <1> USE ScheduleAssumption DEF RowsAhead, Same, SetsPause, RequestTypes,
    Wishes
  <1>1. ASSUME NEW r \in Requests, WriteRow(r) PROVE RowsAhead'
    BY <1>1 DEF WriteRow, Step
  <1>2. ASSUME NEW r \in Requests, WriteEndRow(r) PROVE RowsAhead'
    BY <1>2 DEF WriteEndRow, Step
  <1>3. ASSUME NEW r \in Requests, WriteField(r) PROVE RowsAhead'
    BY <1>3 DEF WriteField, Step
  <1>4. ASSUME NEW r \in Requests, TriggerQueue(r) PROVE RowsAhead'
    BY <1>4 DEF TriggerQueue, Step
  <1>5. ASSUME NEW r \in Requests, Notify(r) PROVE RowsAhead'
    BY <1>5 DEF Notify, TakeHub, Step
  <1>6. ASSUME NEW r \in Requests, Answer(r) PROVE RowsAhead'
    BY <1>6 DEF Answer, FreeHub, Step
  <1>7. ASSUME NEW r \in Requests, RowFails(r) PROVE RowsAhead'
    BY <1>7 DEF RowFails, Step
  <1>8. ASSUME NEW r \in Requests, NEW wish \in Wishes, Asks(r, wish) PROVE
    RowsAhead'
    BY <1>8 DEF Asks
  <1>9. CASE Restart
    <2>1. ~mixed' => Same'
      BY <1>9 DEF Restart, LoadSchedule
    <2>2. QED BY <1>9, <2>1 DEF Restart
  <1>10. CASE UNCHANGED <<pausedRow, startRow, endRow, paused, windowStart,
    windowEnd, req, asked, mixed>>
    BY <1>10
  <1> HIDE DEF RowsAhead, Same, SetsPause, RequestTypes, Wishes
  <1>11. QED BY <1>1, <1>2, <1>3, <1>4, <1>5, <1>6, <1>7, <1>8, <1>9, <1>10,
    WishesMade, ZenonT(30) DEF Next, RequestStep, LoopStep, WorkerStep,
    HubStep, BrowserStep, ClientStep, vars, LoopStarts, LoopTicks,
    LoopNotifies, LoopWaits, ClockTicks, JobAdded, Wake, CheckAllowed, Load,
    SendTo, Connect, Ping, Written, Leave, Unregister, CloseChannel, Becomes,
    FreeHub, HubOnly, TakeHub

LEMMA ScheduleInvariant == Spec => [](ScheduleTypes /\ RequestTypes /\ RowsAhead)
  <1>1. Init => RequestTypes
    <2>1. NoWish \in Wishes
      BY DEF NoWish, Wishes
    <2>2. 0 \in 0 .. MaxSettings /\ 0 \in 0 .. MaxFaults
      BY ScheduleAssumption
    <2>3. QED BY <2>1, <2>2 DEF Init, RequestTypes
  <1>2. Init => ScheduleTypes
    <2>1. SUFFICES ASSUME Init PROVE ScheduleTypes
      OBVIOUS
    <2>2. PICK win \in Windows \cup {<<Unset, Unset>>} :
            /\ windowStart = win[1] /\ startRow = win[1]
            /\ windowEnd = win[2] /\ endRow = win[2]
      BY <2>1 DEF Init
    <2>3. win[1] \in Ends /\ win[2] \in Ends
      <3>1. CASE win = <<Unset, Unset>> BY <3>1 DEF Ends
      <3>2. CASE win \in Clock \X Clock BY <3>2 DEF Ends
      <3>3. QED BY <3>1, <3>2, ScheduleAssumption
    <2>4. paused \in BOOLEAN /\ pausedRow \in BOOLEAN
      BY <2>1, Zenon DEF Init
    <2>5. pending \in 0 .. Jobs
      BY <2>1, ScheduleAssumption DEF Init
    <2>6. QED BY <2>1, <2>2, <2>3, <2>4, <2>5 DEF Init, ScheduleTypes
  <1>3. Init => RowsAhead
    BY DEF Init, RowsAhead, Same
  <1>4. ScheduleTypes /\ RequestTypes /\ RowsAhead /\ [Next]_vars
          => (ScheduleTypes /\ RequestTypes /\ RowsAhead)'
    BY ScheduleTypesStep, RequestTypesStep, RowsStep
  <1>5. QED BY <1>1, <1>2, <1>3, <1>4, PTL DEF Spec

(* Every variable has its type, for all values of the constants. *)
THEOREM ScheduleTyped == Spec => []TypeOK
  <1>1. HubInv /\ ScheduleTypes /\ RequestTypes => TypeOK
    BY DEF HubInv, ScheduleTypes, RequestTypes, TypeOK
  <1>2. QED BY <1>1, HubInvariant, ScheduleInvariant, PTL

(* Once the requests are over, the rows say what the fields say, through    *)
(* any number of restarts, unless requests overlapped, one failed half way *)
(* or a start could not read a row: a restart that reads them keeps the    *)
(* gate as it was.                                                         *)
THEOREM RestartKeepsGate == Spec => []RowsMatchFields
  <1>1. RequestTypes /\ RowsAhead => RowsMatchFields
    BY DEF RequestTypes, RowsAhead, Same, RowsMatchFields
  <1>2. QED BY <1>1, ScheduleInvariant, PTL

-----------------------------------------------------------------------------
(* The window. *)

LEMMA Distance ==
    ASSUME NEW h \in Nat \ {0}, NEW m \in 0 .. h - 1, NEW n \in 0 .. h - 1
    PROVE  (m + h - n) % h = IF m >= n THEN m - n ELSE m + h - n
  <1>1. CASE m >= n
    <2> DEFINE sum == m + h - n
    <2>1. sum \in Nat /\ sum >= h /\ sum < h + h
      BY <1>1
    <2>2. sum = h * (sum \div h) + (sum % h) /\ sum % h \in 0 .. h - 1
      BY <2>1
    <2>3. sum % h = sum - h
      BY <2>1
    <2>4. QED BY <1>1, <2>3
  <1>2. CASE m < n
    <2> DEFINE sum == m + h - n
    <2>1. sum \in Nat /\ sum < h
      BY <1>2
    <2>2. sum % h = sum
      BY <2>1
    <2>3. QED BY <1>2, <2>2
  <1>3. QED BY <1>1, <1>2

(* inEncodeWindow, with its three cases, is membership in an interval of   *)
(* the clock face that starts at the one end and goes on to the other.     *)
THEOREM WindowMeaning == Spec => []WindowIsInterval
  <1>1. ASSUME ScheduleTypes PROVE WindowIsInterval
    <2>1. SUFFICES ASSUME windowStart # Unset, windowEnd # Unset
          PROVE LET length == (windowEnd + Hours - windowStart) % Hours
                    since == (clock + Hours - windowStart) % Hours
                IN  InEncodeWindow(clock, windowStart, windowEnd)
                      <=> (length = 0 \/ since < length)
      BY DEF WindowIsInterval
    <2>2. /\ windowStart \in 0 .. Hours - 1 /\ windowEnd \in 0 .. Hours - 1
          /\ clock \in 0 .. Hours - 1 /\ Hours \in Nat \ {0}
      BY <1>1, <2>1, ScheduleAssumption DEF ScheduleTypes, Ends, Clock
    <2>3. (windowEnd + Hours - windowStart) % Hours
            = IF windowEnd >= windowStart THEN windowEnd - windowStart
              ELSE windowEnd + Hours - windowStart
      BY <2>2, Distance
    <2>4. (clock + Hours - windowStart) % Hours
            = IF clock >= windowStart THEN clock - windowStart
              ELSE clock + Hours - windowStart
      BY <2>2, Distance
    <2>5. QED BY <2>1, <2>2, <2>3, <2>4 DEF InEncodeWindow
  <1>2. QED BY <1>1, ScheduleInvariant, PTL

-----------------------------------------------------------------------------
(* The mutex of the hub. *)

(* Whoever is in its broadcast holds the mutex, and nobody else does. *)
TellersHold ==
    /\ \A r \in Requests : req[r] = "telling" <=> holder = r
    /\ loop = "telling" <=> holder = Loop

LEMMA TellersStep ==
    ASSUME TellersHold, HubInv, ScheduleTypes, RequestTypes, [Next]_vars
    PROVE  TellersHold'
  <1> USE ScheduleAssumption DEF TellersHold, ScheduleTypes, RequestTypes, HubInv,
        HubTypeOK, Senders, Step
  <1>1. ASSUME NEW r \in Requests, WriteRow(r) PROVE TellersHold'
    BY <1>1 DEF WriteRow, SetsPause
  <1>2. ASSUME NEW r \in Requests, WriteEndRow(r) PROVE TellersHold'
    BY <1>2 DEF WriteEndRow
  <1>3. ASSUME NEW r \in Requests, WriteField(r) PROVE TellersHold'
    BY <1>3 DEF WriteField
  <1>4. ASSUME NEW r \in Requests, TriggerQueue(r) PROVE TellersHold'
    BY <1>4 DEF TriggerQueue
  <1>5. ASSUME NEW r \in Requests, Notify(r) PROVE TellersHold'
    BY <1>5 DEF Notify, TakeHub
  <1>6. ASSUME NEW r \in Requests, Answer(r) PROVE TellersHold'
    BY <1>6 DEF Answer, FreeHub
  <1>7. ASSUME NEW r \in Requests, RowFails(r) PROVE TellersHold'
    BY <1>7 DEF RowFails
  <1>8. ASSUME NEW r \in Requests, NEW wish \in Wishes, Asks(r, wish) PROVE TellersHold'
    BY <1>8 DEF Asks
  <1>9. CASE LoopStarts
    BY <1>9 DEF LoopStarts
  <1>10. CASE LoopTicks
    BY <1>10 DEF LoopTicks
  <1>11. CASE LoopNotifies
    BY <1>11 DEF LoopNotifies, TakeHub
  <1>12. CASE LoopWaits
    BY <1>12 DEF LoopWaits, FreeHub
  <1>13. CASE Restart
    BY <1>13 DEF Restart
  <1>14. CASE UNCHANGED <<req, loop, holder>>
    BY <1>14
  <1> HIDE DEF TellersHold, ScheduleTypes, RequestTypes, HubInv, HubTypeOK, Senders
  <1>15. QED BY <1>1, <1>2, <1>3, <1>4, <1>5, <1>6, <1>7, <1>8, <1>9, <1>10, <1>11, <1>12,
    <1>13, <1>14, WishesMade, ZenonT(30) DEF Next, RequestStep, LoopStep, WorkerStep, HubStep,
    BrowserStep, ClientStep, vars, ClockTicks, JobAdded, Wake, CheckAllowed, Load, HubOnly,
    Connect, Ping, Written, Leave, Unregister, CloseChannel, SendTo, Step

(* Broadcasts of requests and of the loop never overlap, and the mutex is  *)
(* never left locked by somebody who has gone on: what NotifyEnds rests on *)
(* besides fairness.                                                       *)
THEOREM OneBroadcast == Spec => []TellersHold
  <1>1. Init => TellersHold
    BY ScheduleAssumption DEF Init, HubInit, TellersHold
  <1>2. QED BY <1>1, TellersStep, HubInvariant, ScheduleInvariant, PTL DEF Spec
=============================================================================
