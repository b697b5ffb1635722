SPECIFICATION InPlaceSpec
CONSTANTS
    j1 = j1
    Jobs = {j1}
    Dirs = {"lib", "out"}
    Bases = {"a"}
    Exts = {"mkv", "mp4"}
    Titles <- MCTitles
    SameDir = SameDir
    Absent = Absent
    Torn = Torn
    MaxCrashes = 1
CHECK_DEADLOCK FALSE
INVARIANTS
    NothingLost
