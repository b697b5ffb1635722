SPECIFICATION Spec
CONSTANTS
    Jobs = {j1}
    Workers = {w1, w2}
    Cancellers = {c1, c2}
    Stopper = stopper
    NoJob = NoJob
    RequeuePriority = 0
    MaxPrio = 0
    MaxDbErrors = 1
    MaxCrashes = 1
    MaxPauses = 0
    Shutdowns = TRUE
    FolderEdits = FALSE
SYMMETRY Symmetry
INVARIANTS
    ProcessingIsOwned
    RegistryMatchesRuns
    NoMissedInterrupt
    RunLeavesVerdict
    NoTempLeft
PROPERTIES
    VerdictStands
