SPECIFICATION MCFairSpec
CONSTANTS
    f1 = f1
    r1 = r1
    r2 = r2
    e1 = e1
    s1 = s1
    Files = {f1}
    Roots = {r1, r2}
    Home = r1
    RootOf <- MCRootOf
    EventWorkers = {e1}
    ScanWorkers = {s1}
    NoFile = NoFile
    NoRoot = NoRoot
    MaxRows = 5
    MaxFaults = 1
    ChanCap = 1
    StableNeeded = 2
    MaxTimers = 2
    MaxRequests = 2
CHECK_DEADLOCK FALSE
INVARIANTS
    TypeOK
    OneRowUnlessRaced
    OffMeansEmpty
PROPERTIES
    QueuedAfterQuiet
    NoFileForgotten
    RequestAnswered
