SPECIFICATION Spec
CONSTANTS
    tv1 = tv1
    tv2 = tv2
    itemA = itemA
    itemB = itemB
    itemC = itemC
    TVs = {tv1, tv2}
    Items = {itemA, itemB, itemC}
    OwnerOf <- MCOwnerOf
    Conns = {c1, c2}
    NoConn = NoConn
    MaxClears = 1
    MaxFaults = 0
INVARIANTS NothingLost
CHECK_DEADLOCK FALSE
