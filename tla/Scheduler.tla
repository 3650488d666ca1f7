----------------------------- MODULE Scheduler -----------------------------
(***************************************************************************)
(* Schedules and the jobs made of them (api/routes/scheduler.py and        *)
(* core/scheduler.py).                                                     *)
(*                                                                         *)
(* A request that creates, changes or deletes a schedule commits it and    *)
(* then reloads: it removes all jobs, waits for a SELECT of the enabled    *)
(* schedules and adds a job for each.  Requests are coroutines of one      *)
(* process, so two reloads overlap at the SELECT.                          *)
(***************************************************************************)
EXTENDS Integers

CONSTANTS
    Schedules,      \* ids of schedules
    Requests,       \* requests under way at once
    Times,          \* times of day
    NoTime,         \* no job
    MaxEvents       \* bound on what the administrator, the clock and crashes do

ASSUME SchedulerAssumptions == MaxEvents \in Nat /\ NoTime \notin Times

Kinds == {"sources", "epg"}

VARIABLES
    schedules,  \* the table sync_schedules
    jobs,       \* APScheduler's job of each schedule: its time
    requests,
    events,
    crossed,    \* history: a change was committed while another request
                \*   was reloading,
    raced,      \*   or had read the same schedule to change it;
    unloaded    \* history: an error came between the commit of a change and
                \*   the new jobs, and no reload has begun since

schedulerVars == <<schedules, jobs, requests, events, crossed, raced, unloaded>>

NoSchedule == [state |-> "unused", enabled |-> FALSE, time |-> NoTime, parts |-> {}]
Gone       == [state |-> "deleted", enabled |-> FALSE, time |-> NoTime, parts |-> {}]
AnyRow     == [state : {"set"}, enabled : BOOLEAN, time : Times, parts : SUBSET Kinds]
Rows       == {row \in AnyRow : row.parts # {}}

\* own, the schedule it is about; refreshes, unless it deletes it; mine, that
\* schedule as it was last read; found, what the SELECT returned.
Asks(step, s, refreshes, read) ==
    [step |-> step, own |-> s, refreshes |-> refreshes, mine |-> read, found |-> <<>>]

NoRequest == Asks("idle", NoTime, TRUE, NoSchedule)

Enabled(s) == schedules[s].state = "set" /\ schedules[s].enabled
JobsOfTable == [s \in Schedules |-> IF Enabled(s) THEN schedules[s].time ELSE NoTime]

\* start_scheduler reloads before the first request is served.
SchedulerInit ==
    /\ schedules \in [Schedules -> Rows \union {NoSchedule}]
    /\ jobs = JobsOfTable
    /\ requests = [q \in Requests |-> NoRequest]
    /\ events = 0
    /\ crossed = FALSE /\ raced = FALSE /\ unloaded = FALSE

Event == events < MaxEvents /\ events' = events + 1

Others(q, steps) == \E other \in Requests \ {q} : requests[other].step \in steps

\* A commit; removing the jobs comes next.
Put(q, s, row) ==
    /\ Event
    /\ schedules' = [schedules EXCEPT ![s] = row]
    /\ requests' = [requests EXCEPT ![q] = Asks("remove", s, row # Gone, NoSchedule)]
    /\ crossed' = (crossed \/ Others(q, {"select", "add"}))
    /\ UNCHANGED <<jobs, unloaded>>

CreateSchedule(q, s) ==
    /\ requests[q].step = "idle" /\ schedules[s] = NoSchedule
    /\ \E row \in Rows : Put(q, s, row)
    /\ UNCHANGED raced

DeleteSchedule(q, s) ==
    /\ requests[q].step = "idle" /\ schedules[s].state = "set"
    /\ Put(q, s, Gone)
    /\ UNCHANGED raced

\* update_schedule reads the row ...
ReadSchedule(q, s) ==
    /\ requests[q].step = "idle" /\ schedules[s].state = "set"
    /\ events < MaxEvents
    /\ requests' = [requests EXCEPT ![q] = Asks("patch", s, TRUE, schedules[s])]
    /\ UNCHANGED <<schedules, jobs, events, crossed, raced, unloaded>>

\* Mutant: no check that one part is left.
PatchedUnchecked == AnyRow

\* Any fields are changed, at least one of sync_sources and sync_epg is set then.
Patched == {row \in AnyRow : row.parts # {}}

\* Only columns that differ from what was read are written.
Merged(current, read, patched) ==
    [state   |-> "set",
     enabled |-> IF patched.enabled # read.enabled THEN patched.enabled ELSE current.enabled,
     time    |-> IF patched.time # read.time THEN patched.time ELSE current.time,
     parts   |-> (current.parts \union (patched.parts \ read.parts)) \ (read.parts \ patched.parts)]

\* ... checks the change against it and commits.
UpdateSchedule(q) ==
    LET s == requests[q].own  read == requests[q].mine IN
    /\ requests[q].step = "patch" /\ schedules[s].state = "set"
    /\ \E patched \in Patched : Put(q, s, Merged(schedules[s], read, patched))
    /\ raced' = (raced \/ schedules[s] # read)

\* The row it would write or refresh has been deleted: an error, no reload.
RequestFails(q) ==
    /\ requests[q].step \in {"patch", "remove"} /\ requests[q].refreshes
    /\ schedules[requests[q].own] = Gone
    /\ requests' = [requests EXCEPT ![q] = NoRequest]
    /\ UNCHANGED <<schedules, jobs, events, crossed, raced, unloaded>>

\* The database refuses the commit, or what comes after it: the refresh of the
\* row, or the SELECT, when all jobs have been removed.
DatabaseFailsRequest(q) ==
    /\ requests[q].step \in {"patch", "remove", "select"}
    /\ requests' = [requests EXCEPT ![q] = NoRequest]
    /\ unloaded' = (unloaded \/ requests[q].step # "patch")
    /\ UNCHANGED <<schedules, jobs, events, crossed, raced>>

\* The refreshed row, and in the same turn of the loop the removal.
RemoveJobs(q) ==
    /\ requests[q].step = "remove"
    /\ requests[q].refreshes => schedules[requests[q].own] # Gone
    /\ requests' = [requests EXCEPT ![q].step = "select", ![q].mine = schedules[requests[q].own]]
    /\ jobs' = [s \in Schedules |-> NoTime]
    /\ crossed' = (crossed /\ Others(q, {"select", "add"}))
    /\ unloaded' = FALSE
    /\ UNCHANGED <<schedules, events, raced>>

\* The session knows its own schedule already, and does not overwrite it with
\* what the SELECT returns.
SelectEnabled(q) ==
    /\ requests[q].step = "select"
    /\ requests' = [requests EXCEPT ![q].step = "add",
         ![q].found = [s \in Schedules |-> IF s = requests[q].own /\ Enabled(s)
                                           THEN requests[q].mine.time ELSE JobsOfTable[s]]]
    /\ UNCHANGED <<schedules, jobs, events, crossed, raced, unloaded>>

\* Mutant: the jobs are replaced by what was found.
AddOnlyFound(q) ==
    /\ requests[q].step = "add"
    /\ jobs' = requests[q].found
    /\ requests' = [requests EXCEPT ![q] = NoRequest]
    /\ UNCHANGED <<schedules, events, crossed, raced, unloaded>>

\* add_job with replace_existing.
AddJobs(q) ==
    /\ requests[q].step = "add"
    /\ jobs' = [s \in Schedules |-> IF requests[q].found[s] = NoTime THEN jobs[s] ELSE requests[q].found[s]]
    /\ requests' = [requests EXCEPT ![q] = NoRequest]
    /\ UNCHANGED <<schedules, events, crossed, raced, unloaded>>

Reload(q) == RequestFails(q) \/ DatabaseFailsRequest(q) \/ RemoveJobs(q) \/ SelectEnabled(q) \/ AddJobs(q)

EditSchedules(q) ==
    \/ \E s \in Schedules : CreateSchedule(q, s) \/ ReadSchedule(q, s) \/ DeleteSchedule(q, s)
    \/ UpdateSchedule(q)
    \/ Reload(q)

\* A restart of the process.
RestartScheduler ==
    /\ jobs' = JobsOfTable
    /\ requests' = [q \in Requests |-> NoRequest]
    /\ crossed' = FALSE /\ unloaded' = FALSE
    /\ UNCHANGED <<schedules, raced>>

Request == [step : {"idle", "patch", "remove", "select", "add"}, own : Schedules \union {NoTime},
            refreshes : BOOLEAN, mine : AnyRow \union {NoSchedule, Gone},
            found : [Schedules -> Times \union {NoTime}] \union {<<>>}]

SchedulerTypeOK ==
    /\ schedules \in [Schedules -> AnyRow \union {NoSchedule, Gone}]
    /\ jobs \in [Schedules -> Times \union {NoTime}]
    /\ requests \in [Requests -> Request]
    /\ \A q \in Requests : /\ requests[q].step # "idle" => requests[q].own \in Schedules
                           /\ requests[q].step = "add" => requests[q].found \in [Schedules -> Times \union {NoTime}]
    /\ events \in 0..MaxEvents /\ crossed \in BOOLEAN /\ raced \in BOOLEAN /\ unloaded \in BOOLEAN

(* The check that sync_sources or sync_epg stays set is made on what a request
   read and sent; unless two changes of the schedule overlapped it holds for
   the table. *)
SchedulesRunSomething ==
    raced \/ \A s \in Schedules : schedules[s].state = "set" => schedules[s].parts # {}

(* When no reload is under way every enabled schedule has a job, however
   reloads overlapped - unless an error cut one off: then there may be no job
   at all, or only the old ones, until the next reload begins or the process
   restarts.  And the jobs are those of the table, with their times, unless a
   change was committed in the middle of another reload as well - then a
   deleted or disabled schedule may keep its job, or a schedule its old time,
   until the next reload.  What a job runs is something: see
   SchedulesRunSomething. *)
JobsFollowTable ==
    /\ SchedulesRunSomething
    /\ (\A q \in Requests : requests[q].step = "idle") =>
          /\ unloaded \/ \A s \in Schedules : Enabled(s) => jobs[s] # NoTime
          /\ crossed \/ unloaded \/ jobs = JobsOfTable
=============================================================================
