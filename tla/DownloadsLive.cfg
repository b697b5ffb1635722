SPECIFICATION FairSpec
CONSTANTS
    d1 = d1
    w1 = w1
    w2 = w2
    c1 = c1
    Downloads = {d1}
    Workers = {w1, w2}
    Cancellers = {c1}
    NoDownload = NoDownload
    MaxDbErrors = 1
    MaxCrashes = 1
    Shutdowns = TRUE
    FolderGoes = TRUE
PROPERTIES
    CancelEnds
    StopEnds
    PendingServed
    ImplementsLifecycle
