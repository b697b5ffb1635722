SPECIFICATION SafeSpec
CONSTANTS
    j1 = j1
    j2 = j2
    Jobs = {j1, j2}
    Dirs = {"lib", "out"}
    Bases = {"a"}
    Exts = {"mkv", "mp4"}
    Titles <- MCTitles
    SameDir = SameDir
    Absent = Absent
    Torn = Torn
    MaxCrashes = 1
SYMMETRY Symmetry
CHECK_DEADLOCK FALSE
INVARIANTS
    TypeOK
    LibraryWhole
    SuccessIsThere
PROPERTIES
    ImplementsLifecycle
