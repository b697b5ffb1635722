SPECIFICATION FairSpec
CONSTANTS
    Jobs = {j1}
    Workers = {w1}
    Cancellers = {c1}
    Stopper = stopper
    NoJob = NoJob
    RequeuePriority = 0
    MaxPrio = 0
    MaxDbErrors = 0
    MaxCrashes = 1
    MaxPauses = 0
    Shutdowns = TRUE
    FolderEdits = TRUE
PROPERTIES
    CancelEnds
    StopEnds
    PendingServed
    ImplementsLifecycle
