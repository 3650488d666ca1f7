SPECIFICATION LinkedSpec
CONSTANTS
    Cats = {c1}
    Keys = {k1, k2}
    CatOf <- MCCatOf
    Names = {n1, n2}
    Absent = Absent
    PCats = {p1}
    Syncs = {s1}
    First = s1
    AutoClear = TRUE
    MaxFeeds = 1
    MaxEdits = 1
    MaxAborts = 1
PROPERTIES Converges MirrorsProvider
CHECK_DEADLOCK FALSE
