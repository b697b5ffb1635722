SPECIFICATION Spec
CONSTANTS
    d1 = d1
    d2 = d2
    w1 = w1
    w2 = w2
    c1 = c1
    Downloads = {d1, d2}
    Workers = {w1, w2}
    Cancellers = {c1}
    NoDownload = NoDownload
    MaxDbErrors = 0
    MaxCrashes = 0
    Shutdowns = TRUE
    FolderGoes = FALSE
SYMMETRY Symmetry
INVARIANTS
    TypeOK
    OneRunner
    RegistryMatchesRuns
    NoForgottenDownload
    HandoverComplete
PROPERTIES
    FinalRows
