------------------------------ MODULE SyncRuns ------------------------------
(***************************************************************************)
(* Runs over all sources and guides (services/sync_engine.py from          *)
(* sync_epg_source on, services/epg_refresh_jobs.py, core/scheduler.py),   *)
(* and who starts them.                                                    *)
(*                                                                         *)
(* A run is one session and one transaction: it loads the sources and      *)
(* guides of its parts, fetches and writes each, and commits at the end.   *)
(* A provider that does not answer is recorded and passed over.  An error  *)
(* of the database leaves the session unusable, whatever handler catches   *)
(* it, and everything the run did is rolled back.                          *)
(*                                                                         *)
(* What a sync does to the rows of one source is in SourceSync; here a     *)
(* source or guide is its status and, of a guide, the batches of           *)
(* programmes that are in the table.                                       *)
(***************************************************************************)
EXTENDS Scheduler, Sequences, SequencesExt, FiniteSets

CONSTANTS
    Videos,         \* sources
    Guides,         \* EPG sources
    Runs,           \* sessions
    MaxJobs         \* _MAX_JOBS

ASSUME RunAssumptions ==
    /\ MaxJobs \in Nat \ {0}
    /\ Videos \intersect Guides = {}

Providers == Videos \union Guides
Of(kind)  == IF kind = "sources" THEN Videos ELSE Guides

VARIABLES
    db,         \* of each source or guide: whether it is there and enabled,
                \*   last_sync_status, the batches of programmes
    run,
    table,      \* the jobs of epg_refresh_jobs, oldest first
    job,        \* the status of every job, by the event that started it
    notifyBad,  \* sync_notify_url is not a URL
    last,       \* history: how the last run of each provider went
    overlapped  \* history: another run recorded something while the last one
                \*   that succeeded, or one that failed since, was under way

runVars == <<db, run, table, job, notifyBad, last, overlapped>>
vars    == <<schedulerVars, runVars>>

\* id numbers the runs, and names a run's batch of programmes and its job; was,
\* the status as loaded; out, what became of each provider; gone, the batches
\* deleted; kept, that it was committed; told, what was notified; cause, why
\* it ended.
NoRun == [step |-> "idle", what |-> "none", id |-> 0, own |-> NoTime, parts |-> {}, left |-> {}, todo |-> {},
          was |-> <<>>, out |-> <<>>, gone |-> <<>>, met |-> {}, row |-> "none", kept |-> FALSE, told |-> {},
          cause |-> "none"]

IsJob(r)     == run[r].what \in {"single", "all"}
Full(r)      == run[r].what \in {"scheduled", "manual"}
Active(r)    == run[r].step \notin {"idle", "ended"}
Loaded(r, p) == p \in DOMAIN run[r].was /\ run[r].step \in {"work", "recording"}

Init ==
    /\ SchedulerInit
    /\ db = [p \in Providers |-> [there |-> TRUE, enabled |-> TRUE, status |-> "never", batches |-> {}]]
    /\ run = [r \in Runs |-> NoRun]
    /\ table = <<>> /\ job = [n \in 1..MaxEvents |-> "none"]
    /\ notifyBad \in BOOLEAN
    /\ last = [p \in Providers |-> "never"]
    /\ overlapped = [p \in Providers |-> FALSE]

-----------------------------------------------------------------------------
(* Starting *)

Started(r, what, own, parts) ==
    /\ ~Active(r)
    /\ Event
    /\ run' = [run EXCEPT ![r] = [NoRun EXCEPT !.step = "begin", !.what = what, !.own = own,
                                               !.parts = parts, !.left = parts, !.id = events']]
    /\ UNCHANGED <<schedules, jobs, requests, crossed, raced, unloaded, db, notifyBad, last, overlapped>>

\* A cron job is due; APScheduler runs a job once at a time.
Fire(r, s) ==
    /\ jobs[s] # NoTime
    /\ \A other \in Runs : Active(other) => run[other].own # s
    /\ Started(r, "scheduled", s, {})
    /\ UNCHANGED <<job, table>>

\* Sync now; sync all sources; sync one source.
StartManual(r) ==
    /\ \/ Started(r, "manual", NoTime, Kinds)
       \/ Started(r, "syncAll", NoTime, {"sources"})
       \/ \E v \in Videos : db[v].there /\ Started(r, "one", v, {"sources"})
    /\ UNCHANGED <<job, table>>

\* Mutant: finished jobs make room, running ones do not.
WithNewJobKept == Append(SelectSeq(table, LAMBDA n : job[n] = "running"), events')

\* _new_job: the oldest job makes room, whether or not it is done.
WithNewJob ==
    LET all == Append(table, events') IN
    IF Len(all) > MaxJobs THEN SubSeq(all, Len(all) - MaxJobs + 1, Len(all)) ELSE all

StartJob(r) ==
    /\ \/ Started(r, "all", NoTime, {"epg"})
       \/ \E g \in Guides : db[g].there /\ Started(r, "single", g, {"epg"})
    /\ job' = [job EXCEPT ![events'] = "running"]
    /\ table' = WithNewJob

\* Mutant: an error leaves the job as it is.
JobLeft(r, status) == job

\* The coroutine's own reference outlives the table's.
JobNow(r, status) == IF IsJob(r) THEN [job EXCEPT ![run[r].id] = status] ELSE job

\* What it leaves behind is kept for the properties.
Ended(r, cause) == [NoRun EXCEPT !.step = "ended", !.what = run[r].what, !.parts = run[r].parts, !.out = run[r].out, !.row = run[r].row,
                                 !.kept = run[r].kept, !.cause = cause]

\* _run_scheduled_sync reads the schedule; _run_single and _run_all look up
\* their job, outside any handler.
Begin(r) ==
    /\ run[r].step = "begin"
    /\ LET s == run[r].own
           dead == IF run[r].what = "scheduled" THEN ~Enabled(s)
                   ELSE IsJob(r) /\ ~Contains(table, run[r].id)
           parts == IF run[r].what = "scheduled" THEN schedules[s].parts ELSE run[r].parts IN
       run' = [run EXCEPT ![r] = IF dead THEN Ended(r, "nothing to do")
                                 ELSE [@ EXCEPT !.step = "load", !.parts = parts, !.left = parts]]
    /\ UNCHANGED <<schedulerVars, db, table, job, notifyBad, last, overlapped>>

-----------------------------------------------------------------------------
(* Working *)

Selected(r, kind) ==
    IF run[r].what \in {"one", "single"} THEN {run[r].own}
    ELSE {p \in Of(kind) : db[p].there /\ (kind = "sources" => db[p].enabled)}

\* What a run notes of the rows it loads, beside what it had.
With(old, new) == [p \in DOMAIN new \union DOMAIN old |-> IF p \in DOMAIN new THEN new[p] ELSE old[p]]

\* The sources first, then the guides, in no particular order; a run over one
\* looks it up.
Load(r) ==
    /\ \/ run[r].step = "load"
       \/ run[r].step = "work" /\ run[r].todo = {} /\ run[r].left # {}
    /\ LET kind == IF "sources" \in run[r].left THEN "sources" ELSE "epg"
           ps   == IF run[r].left = {} THEN {} ELSE Selected(r, kind) IN
       /\ \A p \in ps : db[p].there
       /\ run' = [run EXCEPT ![r] =
            [run[r] EXCEPT !.step = "work", !.left = @ \ {kind}, !.todo = ps,
                           !.was  = With(@, [p \in ps |-> db[p].status]),
                           !.out  = With(@, [p \in ps |-> "none"]),
                           !.gone = With(@, [p \in ps |-> {}])]]
    /\ UNCHANGED <<schedulerVars, db, table, job, notifyBad, last, overlapped>>

\* A run over one fails with it; a job records that in a session of its own.
Failed(r, cause) ==
    /\ run' = [run EXCEPT ![r] =
         IF run[r].what = "single" THEN [@ EXCEPT !.step = "record", !.cause = cause] ELSE Ended(r, cause)]
    /\ job' = JobNow(r, "error")
    /\ UNCHANGED <<schedulerVars, db, table, notifyBad, last, overlapped>>

\* Mutant: the first failure ends the work, as the handler of run_full_sync
\* would, and not that of the loop.
FetchStops(r, p) ==
    /\ run[r].step = "work" /\ p \in run[r].todo
    /\ IF run[r].what \in {"one", "single"} THEN Failed(r, "fetch")
       ELSE /\ run' = [run EXCEPT ![r].todo = {}, ![r].left = {}, ![r].out[p] = "failed"]
            /\ UNCHANGED <<schedulerVars, db, table, job, notifyBad, last, overlapped>>

\* The provider does not answer.
FetchFails(r, p) ==
    /\ run[r].step = "work" /\ p \in run[r].todo
    /\ IF run[r].what \in {"one", "single"} THEN Failed(r, "fetch")
       ELSE /\ run' = [run EXCEPT ![r].todo = @ \ {p}, ![r].out[p] = "failed"]
            /\ UNCHANGED <<schedulerVars, db, table, job, notifyBad, last, overlapped>>

\* It answers; its rows are written, the guide's programmes deleted - those
\* committed by now - and inserted anew.
Write(r, p) ==
    /\ run[r].step = "work" /\ p \in run[r].todo
    /\ db[p].there
    /\ run' = [run EXCEPT ![r].todo = @ \ {p}, ![r].out[p] = "success", ![r].gone[p] = db[p].batches]
    /\ UNCHANGED <<schedulerVars, db, table, job, notifyBad, last, overlapped>>

\* An error of the database: a value too long, a row deleted meanwhile, a
\* deadlock, a lost connection.  The handlers of sync_all_sources,
\* sync_all_epg_sources and run_full_sync raise again, because the session can
\* do nothing before a rollback.
DatabaseFails(r) ==
    /\ run[r].step \in {"load", "work"}
    /\ Failed(r, "database")

\* What the ORM writes: a status only if it is not the one loaded.
Status(r, p) == IF run[r].out[p] = "none" \/ run[r].was[p] = run[r].out[p] THEN db[p].status ELSE run[r].out[p]

\* Mutant: the programmes are added to those there are.
BatchesAdded(r, p) == IF p \in Guides /\ run[r].out[p] = "success" THEN db[p].batches \union {run[r].id} ELSE db[p].batches

Batches(r, p) ==
    IF p \in Guides /\ run[r].out[p] = "success" THEN (db[p].batches \ run[r].gone[p]) \union {run[r].id} ELSE db[p].batches

\* What has been recorded of p concerns every other run that has it loaded.
Met(r, ps) == [other \in Runs |->
    IF other = r THEN run[r].met ELSE run[other].met \union {p \in ps : Loaded(other, p)}]

Outcome(r) == IF \E p \in DOMAIN run[r].out : run[r].out[p] = "failed" THEN "partial" ELSE "success"

\* The commit, after auto-clear and with the row of sync_runs.
Commit(r) ==
    LET ps == DOMAIN run[r].out IN
    /\ run[r].step = "work" /\ run[r].todo = {} /\ run[r].left = {}
    /\ \A p \in ps : db[p].there
    /\ db' = [p \in Providers |-> IF p \in ps
                THEN [db[p] EXCEPT !.status = Status(r, p), !.batches = Batches(r, p)] ELSE db[p]]
    /\ run' = [other \in Runs |->
         IF other = r THEN [run[r] EXCEPT !.step = "committed", !.kept = TRUE,
                                          !.was = <<>>, !.gone = <<>>, !.met = {}, !.row = IF Full(r) THEN Outcome(r) ELSE "none"]
         ELSE [run[other] EXCEPT !.met = Met(r, ps)[other]]]
    /\ last' = [p \in Providers |-> IF p \in ps THEN run[r].out[p] ELSE last[p]]
    /\ overlapped' = [p \in Providers |-> IF p \notin ps THEN overlapped[p]
                                             ELSE p \in run[r].met \/ (run[r].out[p] = "failed" /\ overlapped[p])]
    /\ UNCHANGED <<schedulerVars, table, job, notifyBad>>

\* Clients are told, unless the URL cannot be parsed: that raises, and a job
\* ends as if the refresh had failed.
Notify(r) ==
    /\ run[r].step = "committed"
    /\ IF notifyBad /\ run[r].parts # {} THEN Failed(r, "notify")
       ELSE /\ run' = [run EXCEPT ![r] = [Ended(r, "done") EXCEPT !.told = run[r].parts]]
            /\ job' = JobNow(r, "done")
            /\ UNCHANGED <<schedulerVars, db, table, notifyBad, last, overlapped>>

\* _run_single records the failure: it reads the guide ...
RecordBegin(r) ==
    LET g == run[r].own IN
    /\ run[r].step = "record"
    /\ run' = [run EXCEPT ![r] = IF db[g].there THEN [@ EXCEPT !.step = "recording", !.was = [p \in {g} |-> db[g].status], !.met = {}]
                                 ELSE Ended(r, run[r].cause)]
    /\ UNCHANGED <<schedulerVars, db, table, job, notifyBad, last, overlapped>>

\* ... and commits, or fails to.  The refresh itself is kept if it was only the
\* notification that failed.
RecordCommit(r) ==
    LET g == run[r].own IN
    /\ run[r].step = "recording"
    /\ \/ /\ db[g].there
          /\ db' = [db EXCEPT ![g].status = IF run[r].was[g] = "failed" THEN @ ELSE "failed"]
          /\ last' = [last EXCEPT ![g] = IF run[r].cause = "notify" THEN @ ELSE "failed"]
          /\ overlapped' = [overlapped EXCEPT ![g] = @ \/ g \in run[r].met]
          /\ run' = [other \in Runs |-> IF other = r THEN Ended(r, run[r].cause)
                                        ELSE [run[other] EXCEPT !.met = Met(r, {g})[other]]]
       \/ /\ run' = [run EXCEPT ![r] = Ended(r, run[r].cause)]
          /\ UNCHANGED <<db, last, overlapped>>
    /\ UNCHANGED <<schedulerVars, table, job, notifyBad>>

-----------------------------------------------------------------------------
(* The administrator, and the process *)

ToggleSource(v) ==
    /\ Event
    /\ db' = [db EXCEPT ![v].enabled = ~@]
    /\ UNCHANGED <<schedules, jobs, requests, crossed, raced, unloaded, run, table, job, notifyBad, last, overlapped>>

\* Its channels and programmes go with it; a run that has written to it holds
\* the row.
DeleteProvider(p) ==
    /\ Event
    /\ db[p].there
    /\ \A r \in Runs : run[r].step = "work" /\ p \in DOMAIN run[r].out => run[r].out[p] # "success"
    /\ db' = [db EXCEPT ![p] = [there |-> FALSE, enabled |-> FALSE, status |-> "never", batches |-> {}]]
    /\ last' = [last EXCEPT ![p] = "never"]
    /\ UNCHANGED <<schedules, jobs, requests, crossed, raced, unloaded, run, table, job, notifyBad, overlapped>>

Restart ==
    /\ Event
    /\ RestartScheduler
    /\ run' = [r \in Runs |-> IF Active(r) THEN Ended(r, "restart") ELSE run[r]]
    /\ table' = <<>>
    /\ UNCHANGED <<db, job, notifyBad, last, overlapped>>

Work(r) ==
    \/ Begin(r) \/ Load(r) \/ Commit(r) \/ Notify(r) \/ RecordBegin(r) \/ RecordCommit(r)
    \/ \E p \in Providers : FetchFails(r, p) \/ Write(r, p)
    \/ DatabaseFails(r)

Start(r) == (\E s \in Schedules : Fire(r, s)) \/ StartManual(r) \/ StartJob(r)

EditScheduler == (\E q \in Requests : EditSchedules(q)) /\ UNCHANGED runVars

Next ==
    \/ \E r \in Runs : Work(r) \/ Start(r)
    \/ EditScheduler
    \/ \E v \in Videos : ToggleSource(v)
    \/ \E p \in Providers : DeleteProvider(p)
    \/ Restart

\* A fetch has a timeout and the database answers: every run goes on.
Fairness == \A r \in Runs : WF_vars(Work(r))

Spec == Init /\ [][Next]_vars /\ Fairness
-----------------------------------------------------------------------------
(* Type: a job's id is that of the run that carries it out, and only guides
   have programmes. *)
TypeOK ==
    /\ SchedulerTypeOK
    /\ \A p \in Providers : /\ db[p].status \in {"never", "success", "failed"}
                            /\ db[p].batches \subseteq 1..events
                            /\ p \in Videos => db[p].batches = {}
    /\ \A r \in Runs : /\ run[r].step \in {"idle", "begin", "load", "work", "committed", "record", "recording", "ended"}
                       /\ run[r].id \in 0..events
                       /\ run[r].todo \subseteq DOMAIN run[r].out
    /\ Len(table) <= MaxJobs /\ job \in [1..MaxEvents -> {"none", "running", "done", "error"}]
    /\ \A i \in DOMAIN table : job[table[i]] # "none"

(* "The status badge reflects reality": what a guide shows is what its last
   refresh left, each programme once, and the badge says how that went - unless
   another run recorded something while it was under way.  Then programmes are
   listed twice, or the badge is another run's, until the next refresh on its
   own.  And unless clients cannot be told because the URL is none: that, too,
   is recorded as a failure of a refresh that was kept. *)
LastRefreshShows ==
    \A p \in Providers : overlapped[p] \/
        /\ Cardinality(db[p].batches) <= 1
        /\ db[p].status = last[p] \/ (notifyBad /\ p \in Guides /\ db[p].status = "failed")

(* A run that was not cut short by the database or a restart goes on to the
   end and commits: a source that fails does not keep the guides from being
   refreshed, each provider's answer or failure is recorded, and the row says
   whether there was a failure. *)
RunKeepsWhatItGot ==
    \A r \in Runs : run[r].step = "committed" \/ run[r].cause = "done" \/ run[r].told # {} =>
        /\ run[r].kept
        /\ \A p \in DOMAIN run[r].out : run[r].out[p] # "none"
        /\ "epg" \in run[r].parts /\ run[r].what # "single"
             => \A g \in Guides : db[g].there => g \in DOMAIN run[r].out
        /\ Full(r) => (run[r].row = "partial" <=> \E p \in DOMAIN run[r].out : run[r].out[p] = "failed")

(* A job that is polled does not run for ever: it ends, or it is no longer in
   the table. *)
JobsEnd == \A n \in 1..MaxEvents : <>[](Contains(table, n) => job[n] # "running")

\* r carries out the job n, and has not said how it went.
Carries(r, n) == run[r].step \in {"begin", "load", "work", "committed"} /\ IsJob(r) /\ run[r].id = n

(* What makes it end: a job that is polled and is not done is the work of a run
   that is under way.  A handler catches whatever that raises, and a job that was
   pushed out of the table, or that a restart cut off, is not polled any more. *)
RunningJobsAreCarriedOut ==
    \A n \in 1..MaxEvents : Contains(table, n) /\ job[n] = "running" => \E r \in Runs : Carries(r, n)

(* "One bad provider shouldn't stop the rest - each failure is recorded on
   that source and in the summary, everything else still runs": what a provider
   answered is kept, whatever became of the others. *)
OneBadProviderStopsNoOther ==
    \A r \in Runs : run[r].step = "ended" /\ run[r].cause # "restart"
        => \A p \in DOMAIN run[r].out : run[r].out[p] = "success" => run[r].kept
=============================================================================
