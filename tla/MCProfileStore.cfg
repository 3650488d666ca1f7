SPECIFICATION FairSpec
CONSTANTS
    tv1 = tv1
    tv2 = tv2
    itemA = itemA
    itemB = itemB
    itemC = itemC
    TVs = {tv1, tv2}
    Items = {itemA, itemB, itemC}
    OwnerOf <- MCOwnerOf
    Conns = {c1, c2}
    NoConn = NoConn
    MaxClears = 1
    MaxFaults = 1
INVARIANTS TypeOK NothingLostBeforeClear TVsAgreeOnRevision
PROPERTIES LossOnlyAcrossClear ImplementsRegister EventuallyShared
CHECK_DEADLOCK FALSE
