SPECIFICATION Spec
CONSTANTS
    Jobs = {j1, j2}
    Workers = {w1, w2}
    Cancellers = {}
    Stopper = stopper
    NoJob = NoJob
    RequeuePriority = 1
    MaxPrio = 1
    MaxDbErrors = 0
    MaxCrashes = 0
    MaxPauses = 2
    Shutdowns = FALSE
    FolderEdits = TRUE
SYMMETRY Symmetry
INVARIANTS
    TypeOK
    OwnerExclusive
    WorkConserving
PROPERTIES
    ImplementsLifecycle
