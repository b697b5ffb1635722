SPECIFICATION MCFairSpec
CONSTANTS
    c1 = c1
    q1 = q1
    Clients = {c1}
    NoSender = NoSender
    Hours = 3
    Windows <- MCWindows
    Unset = Unset
    Requests = {q1}
    Loop = Loop
    Jobs = 1
    MaxSettings = 1
    MaxFaults = 1
CHECK_DEADLOCK FALSE
INVARIANTS
    TypeOK
    WindowIsInterval
    RowsMatchFields
    NoSendOnClosed
PROPERTIES
    SeenOpeningServes
    NotifyEnds
