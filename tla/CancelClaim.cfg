SPECIFICATION Spec
CONSTANTS
    Jobs = {j1}
    Workers = {w1}
    Cancellers = {c1}
    Stopper = stopper
    NoJob = NoJob
    RequeuePriority = 0
    MaxPrio = 0
    MaxDbErrors = 0
    MaxCrashes = 0
    MaxPauses = 0
    Shutdowns = FALSE
    FolderEdits = FALSE
PROPERTIES
    CancelledStaysCancelled
