SPECIFICATION Spec
CONSTANTS
    Channels = {1, 2, 3}
    Locked = {1}
    NoUrl = {3}
    Name <- MCName
    NoCountry = "none"
    NoTag = "none"
    Heights = {480, 1080}
    Failures = {"timeout"}
    Requests = {{1, 2}, {2, 3}, {1, 3}}
    Label <- MCLabel
    Concurrency = 1
    SplitCountries = TRUE
    MaxJobs = 1
    MaxScans = 2
    MaxEdits = 1
INVARIANTS
    TypeOK
PROPERTIES
    RowIsOneProbe
    DeletedForABetterCopy
    ScanEnds
CHECK_DEADLOCK FALSE
