SPECIFICATION MCSpec
CONSTANTS
    Schedules = {a}
    Requests = {}
    Times = {t1}
    NoTime = NoTime
    MaxEvents = 1
    Videos = {v1, v2}
    Guides = {g1}
    Runs = {r1}
    MaxJobs = 1
INVARIANTS
    OneBadProviderStopsNoOther
CHECK_DEADLOCK FALSE
