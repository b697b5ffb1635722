SPECIFICATION Spec
CONSTANTS
    Jobs = {j1}
    Workers = {w1}
    Cancellers = {}
    Stopper = stopper
    NoJob = NoJob
    RequeuePriority = 0
    MaxPrio = 0
    MaxDbErrors = 0
    MaxCrashes = 0
    MaxPauses = 1
    Shutdowns = FALSE
    FolderEdits = FALSE
PROPERTIES
    PausedStartsNothing
