SPECIFICATION MCSpec
CONSTANTS
    Schedules = {a}
    Requests = {q1, q2}
    Times = {t1, t2}
    NoTime = NoTime
    MaxEvents = 2
    Videos = {v1}
    Guides = {g1}
    Runs = {r1, r2}
    MaxJobs = 1
INVARIANTS
    TypeOK
    JobsFollowTable
    LastRefreshShows
    RunKeepsWhatItGot
PROPERTIES
    JobsEnd
CHECK_DEADLOCK FALSE
