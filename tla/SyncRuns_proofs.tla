-------------------------- MODULE SyncRuns_proofs --------------------------
(***************************************************************************)
(* For any number of schedules, requests, sources, guides and runs: the    *)
(* jobs follow the table of schedules however their reloads overlap, a run *)
(* that commits has recorded everything it was to do, and a job that runs  *)
(* has a run that carries it out.                                          *)
(***************************************************************************)
EXTENDS SyncRuns, FiniteSetTheorems, SequenceTheorems, TLAPS

-----------------------------------------------------------------------------
(* The scheduler's rows *)

LEMMA RowTypes ==
    /\ NoTime \notin Times
    /\ NoSchedule.state = "unused" /\ NoSchedule.enabled = FALSE
    /\ Gone.state = "deleted" /\ Gone.enabled = FALSE
    /\ Gone = [state |-> "deleted", enabled |-> FALSE, time |-> NoTime, parts |-> {}]
    /\ \A row \in AnyRow : row.state = "set" /\ row.enabled \in BOOLEAN /\ row.time \in Times /\ row.parts \subseteq Kinds
    /\ \A row \in AnyRow \union {NoSchedule, Gone} : row.state = "set" <=> row \in AnyRow
    /\ \A row \in AnyRow \union {NoSchedule, Gone} : row.state = "deleted" <=> row = Gone
<1>1. NoTime \notin Times
  BY SchedulerAssumptions
<1>2. NoSchedule = [state |-> "unused", enabled |-> FALSE, time |-> NoTime, parts |-> {}]
  BY DEF NoSchedule
<1>3. Gone = [state |-> "deleted", enabled |-> FALSE, time |-> NoTime, parts |-> {}]
  BY DEF Gone
<1>4. \A row \in AnyRow : row.state = "set" /\ row.enabled \in BOOLEAN /\ row.time \in Times /\ row.parts \subseteq Kinds
  BY DEF AnyRow
<1>5. NoSchedule.state = "unused" /\ NoSchedule.enabled = FALSE
  BY <1>2
<1>6. Gone.state = "deleted" /\ Gone.enabled = FALSE
  BY <1>3
<1>7. \A row \in AnyRow \union {NoSchedule, Gone} : row.state = "set" <=> row \in AnyRow
  BY <1>4, <1>5, <1>6
<1>8. \A row \in AnyRow \union {NoSchedule, Gone} : row.state = "deleted" <=> row = Gone
  BY <1>4, <1>5, <1>6
<1> QED
  BY <1>1, <1>3, <1>4, <1>5, <1>6, <1>7, <1>8

\* What an UPDATE of the changed columns leaves.
LEMMA MergeTypes ==
    ASSUME NEW current \in AnyRow, NEW read \in AnyRow, NEW patched \in AnyRow
    PROVE  /\ Merged(current, read, patched) \in AnyRow
           /\ current = read => Merged(current, read, patched).parts = patched.parts
<1> DEFINE enabled == IF patched.enabled # read.enabled THEN patched.enabled ELSE current.enabled
           time    == IF patched.time # read.time THEN patched.time ELSE current.time
           parts   == (current.parts \union (patched.parts \ read.parts)) \ (read.parts \ patched.parts)
<1>2. Merged(current, read, patched) = [state |-> "set", enabled |-> enabled, time |-> time, parts |-> parts]
  BY DEF Merged
<1>3. enabled \in BOOLEAN /\ time \in Times /\ parts \in SUBSET Kinds
  BY RowTypes
<1>4. [state |-> "set", enabled |-> enabled, time |-> time, parts |-> parts] \in AnyRow
  BY <1>3 DEF AnyRow
<1>5. current = read => parts = patched.parts
  OBVIOUS
<1> QED
  BY <1>2, <1>4, <1>5

-----------------------------------------------------------------------------
(* The invariant of the scheduler *)

\* What a request holds of its own schedule.
OwnInv ==
    \A q \in Requests : LET r == requests[q] IN
      /\ r.step = "patch" => r.mine \in AnyRow
      /\ r.step = "remove" => IF r.refreshes THEN schedules[r.own] \in AnyRow \union {Gone}
                                             ELSE schedules[r.own] = Gone
      /\ r.step = "select" => r.mine \in AnyRow \/ schedules[r.own] = Gone

\* q will add a job for s before it is done.
WillAdd(q, s) ==
    \/ requests[q].step = "remove" /\ requests[q].own = s
    \/ requests[q].step = "select"
    \/ requests[q].step = "add" /\ requests[q].found[s] # NoTime

\* An enabled schedule that has no job is about to get one, or an error has cut
\* a reload off.
EnabledInv == unloaded \/ \A s \in Schedules : Enabled(s) => jobs[s] # NoTime \/ \E q \in Requests : WillAdd(q, s)

\* q has committed a change of s and will remove all jobs, because s is there
\* or because q has deleted it.
WillReplace(q, s) ==
    requests[q].step = "remove" /\ requests[q].own = s /\ (requests[q].refreshes => schedules[s] # Gone)

\* If no change was committed in the middle of a reload, what reloads have read
\* is current; and if no error cut one off, a job that is not that of the table is
\* about to go or come.
CurrentInv ==
    ~crossed =>
      /\ \A q \in Requests : requests[q].step = "add" => requests[q].found = JobsOfTable
      /\ \A q \in Requests : requests[q].step = "select" /\ Enabled(requests[q].own)
                               => requests[q].mine.time = schedules[requests[q].own].time
      /\ \A s \in Schedules :
           \/ unloaded
           \/ jobs[s] = JobsOfTable[s]
           \/ \E q \in Requests : WillReplace(q, s)
           \/ jobs[s] = NoTime /\ \E q \in Requests : requests[q].step \in {"select", "add"}

SInv == SchedulerTypeOK /\ SchedulesRunSomething /\ OwnInv /\ EnabledInv /\ CurrentInv

LEMMA AskedType ==
    ASSUME NEW step \in {"idle", "patch", "remove"}, NEW s \in Schedules \union {NoTime}, NEW refreshes \in BOOLEAN,
           NEW read \in AnyRow \union {NoSchedule, Gone}
    PROVE  Asks(step, s, refreshes, read) \in Request
  BY DEF Asks, Request

LEMMA SchedulerInitially == SchedulerInit => SInv
<1> SUFFICES ASSUME SchedulerInit PROVE SInv
  OBVIOUS
<1>1. schedules \in [Schedules -> AnyRow \union {NoSchedule, Gone}] /\ \A s \in Schedules : schedules[s].state = "set" => schedules[s] \in Rows
  BY RowTypes DEF SchedulerInit, Rows
<1>2. \A s \in Schedules : Enabled(s) => schedules[s] \in AnyRow /\ schedules[s].time \in Times
  BY <1>1, RowTypes DEF Enabled, Rows
<1>3. jobs = JobsOfTable /\ jobs \in [Schedules -> Times \union {NoTime}]
  BY <1>2 DEF SchedulerInit, JobsOfTable
<1>4. \A q \in Requests : requests[q].step = "idle" /\ requests[q] \in Request
  BY AskedType DEF SchedulerInit, NoRequest, Asks
<1>5. SchedulerTypeOK
  <2>1. requests \in [Requests -> Request]
    BY AskedType DEF SchedulerInit, NoRequest
  <2>2. events \in 0..MaxEvents
    BY SchedulerAssumptions DEF SchedulerInit
  <2>3. crossed \in BOOLEAN /\ raced \in BOOLEAN /\ unloaded \in BOOLEAN
    BY DEF SchedulerInit
  <2> QED
    BY <2>1, <2>2, <2>3, <1>1, <1>3, <1>4 DEF SchedulerTypeOK
<1>6. SchedulesRunSomething
  BY <1>1 DEF SchedulesRunSomething, Rows
<1>7. OwnInv
  BY <1>4 DEF OwnInv
<1>8. EnabledInv
  BY <1>2, <1>3, RowTypes DEF EnabledInv, JobsOfTable
<1>9. CurrentInv
  BY <1>3, <1>4 DEF CurrentInv
<1> QED
  BY <1>5, <1>6, <1>7, <1>8, <1>9 DEF SInv

\* What another request has read stays current while the table does.
LEMMA ReadStaysCurrent ==
    ASSUME SInv, ~crossed, NEW p \in Requests, requests'[p] = requests[p], schedules' = schedules,
           requests'[p].step = "select", Enabled(requests[p].own)'
    PROVE  requests'[p].mine.time = schedules'[requests'[p].own].time
<1>1. requests[p].step = "select"
  OBVIOUS
<1>2. Enabled(requests[p].own)
  BY DEF Enabled
<1>3. requests[p].mine.time = schedules[requests[p].own].time
  BY <1>1, <1>2 DEF SInv, CurrentInv
<1> QED
  BY <1>3

\* A commit of a change of s by q.
LEMMA PutInv ==
    ASSUME SInv, NEW q \in Requests, NEW s \in Schedules, NEW row \in AnyRow \union {Gone},
           Put(q, s, row), requests[q].step \in {"idle", "patch"}, schedules[s] # Gone,
           raced' \in BOOLEAN, raced => raced',
           row = Gone \/ row.parts # {} \/ raced'
    PROVE  SInv'
<1> USE DEF SInv
<1>1. /\ schedules' = [schedules EXCEPT ![s] = row]
      /\ requests' = [requests EXCEPT ![q] = Asks("remove", s, row # Gone, NoSchedule)]
      /\ jobs' = jobs /\ unloaded' = unloaded
      /\ crossed' = (crossed \/ Others(q, {"select", "add"}))
      /\ events' \in 0..MaxEvents
  BY SchedulerAssumptions DEF Put, Event, SchedulerTypeOK
<1>2. /\ requests'[q].step = "remove" /\ requests'[q].own = s /\ requests'[q].refreshes = (row # Gone)
      /\ \A p \in Requests \ {q} : requests'[p] = requests[p]
      /\ schedules'[s] = row /\ \A t \in Schedules \ {s} : schedules'[t] = schedules[t]
  BY <1>1 DEF SchedulerTypeOK, Asks
<1>3. \A t \in Schedules : schedules[t] = Gone => schedules'[t] = Gone
  BY <1>2
<1>4. SchedulerTypeOK'
  <2>1. schedules' \in [Schedules -> AnyRow \union {NoSchedule, Gone}]
    BY <1>1 DEF SchedulerTypeOK
  <2>2. requests' \in [Requests -> Request]
    BY <1>1, AskedType DEF SchedulerTypeOK
  <2>3. crossed' \in BOOLEAN
    BY <1>1 DEF SchedulerTypeOK, Others
  <2>4. \A p \in Requests : /\ requests'[p].step # "idle" => requests'[p].own \in Schedules
                            /\ requests'[p].step = "add" => requests'[p].found \in [Schedules -> Times \union {NoTime}]
    BY <1>2 DEF SchedulerTypeOK
  <2> QED
    BY <1>1, <2>1, <2>2, <2>3, <2>4 DEF SchedulerTypeOK
<1>5. SchedulesRunSomething'
  BY <1>2, RowTypes DEF SchedulesRunSomething
<1>6. OwnInv'
  <2> SUFFICES ASSUME NEW p \in Requests
               PROVE  /\ requests'[p].step = "patch" => requests'[p].mine \in AnyRow
                      /\ requests'[p].step = "remove" =>
                           IF requests'[p].refreshes THEN schedules'[requests'[p].own] \in AnyRow \union {Gone}
                                                     ELSE schedules'[requests'[p].own] = Gone
                      /\ requests'[p].step = "select" => requests'[p].mine \in AnyRow \/ schedules'[requests'[p].own] = Gone
    BY DEF OwnInv
  <2>1. CASE p = q
    BY <2>1, <1>2
  <2>2. CASE p # q
    BY <2>2, <1>2, <1>3 DEF OwnInv, SchedulerTypeOK
  <2> QED
    BY <2>1, <2>2
<1>7. EnabledInv'
  <2> SUFFICES ASSUME ~unloaded, NEW t \in Schedules, Enabled(t)', jobs'[t] = NoTime
               PROVE  \E p \in Requests : WillAdd(p, t)'
    BY <1>1 DEF EnabledInv
  <2>1. CASE t = s
    BY <2>1, <1>2 DEF WillAdd
  <2>2. CASE t # s
    <3>1. PICK p \in Requests : WillAdd(p, t)
      BY <2>2, <1>1, <1>2 DEF EnabledInv, Enabled
    <3>2. p # q
      BY <3>1 DEF WillAdd
    <3> QED
      BY <3>1, <3>2, <1>2 DEF WillAdd
  <2> QED
    BY <2>1, <2>2
<1>8. CurrentInv'
  <2> SUFFICES ASSUME ~crossed' PROVE CurrentInv'
    BY DEF CurrentInv
  <2>1. ~crossed /\ \A p \in Requests : p # q => requests[p].step \notin {"select", "add"}
    BY <1>1 DEF Others
  <2>2. \A p \in Requests : requests'[p].step \notin {"select", "add"}
    BY <2>1, <1>2
  <2>3. ASSUME NEW t \in Schedules PROVE unloaded' \/ jobs'[t] = JobsOfTable'[t] \/ \E p \in Requests : WillReplace(p, t)'
    <3>1. CASE t = s
      BY <3>1, <1>2 DEF WillReplace
    <3>2. CASE t # s
      <4>1. unloaded \/ jobs[t] = JobsOfTable[t] \/ \E p \in Requests : WillReplace(p, t)
        BY <2>1 DEF CurrentInv
      <4>2. JobsOfTable'[t] = JobsOfTable[t]
        BY <3>2, <1>2 DEF JobsOfTable, Enabled
      <4>3. \A p \in Requests : WillReplace(p, t) => WillReplace(p, t)'
        BY <3>2, <1>2 DEF WillReplace
      <4> QED
        BY <4>1, <4>2, <4>3, <1>1
    <3> QED
      BY <3>1, <3>2
  <2> QED
    BY <2>2, <2>3 DEF CurrentInv
<1> QED
  BY <1>4, <1>5, <1>6, <1>7, <1>8

LEMMA CreateDeleteInv ==
    ASSUME SInv, NEW q \in Requests, NEW s \in Schedules, CreateSchedule(q, s) \/ DeleteSchedule(q, s)
    PROVE  SInv'
<1>1. raced' = raced /\ raced \in BOOLEAN
  BY DEF CreateSchedule, DeleteSchedule, SInv, SchedulerTypeOK
<1>2. CASE CreateSchedule(q, s)
  <2>1. PICK row \in Rows : Put(q, s, row)
    BY <1>2 DEF CreateSchedule
  <2>2. row \in AnyRow /\ row.parts # {}
    BY DEF Rows
  <2>3. requests[q].step = "idle" /\ schedules[s] # Gone
    BY <1>2, RowTypes DEF CreateSchedule
  <2> QED
    BY <1>1, <2>1, <2>2, <2>3, PutInv
<1>3. CASE DeleteSchedule(q, s)
  <2>1. requests[q].step = "idle" /\ schedules[s] # Gone /\ Put(q, s, Gone)
    BY <1>3, RowTypes DEF DeleteSchedule
  <2> QED
    BY <1>1, <2>1, PutInv
<1> QED
  BY <1>2, <1>3

LEMMA UpdateInv ==
    ASSUME SInv, NEW q \in Requests, UpdateSchedule(q)
    PROVE  SInv'
<1> DEFINE s    == requests[q].own
           read == requests[q].mine
<1>1. requests[q].step = "patch" /\ schedules[s].state = "set" /\ s \in Schedules
  BY DEF UpdateSchedule, SInv, SchedulerTypeOK
<1>2. read \in AnyRow /\ schedules[s] \in AnyRow /\ schedules[s] # Gone
  BY <1>1, RowTypes DEF SInv, OwnInv, SchedulerTypeOK
<1>3. PICK patched \in Patched : Put(q, s, Merged(schedules[s], read, patched))
  BY DEF UpdateSchedule
<1>4. patched \in AnyRow /\ patched.parts # {}
  BY <1>3 DEF Patched
<1>5. Merged(schedules[s], read, patched) \in AnyRow
  BY <1>2, <1>4, MergeTypes
<1>6. raced' = (raced \/ schedules[s] # read) /\ raced \in BOOLEAN
  BY DEF UpdateSchedule, SInv, SchedulerTypeOK
<1>7. Merged(schedules[s], read, patched).parts # {} \/ raced'
  <2> SUFFICES ASSUME ~raced' PROVE Merged(schedules[s], read, patched).parts # {}
    OBVIOUS
  <2>1. schedules[s] = read /\ ~raced
    BY <1>6
  <2>2. Merged(schedules[s], read, patched).parts = patched.parts
    BY <2>1, <1>2, <1>4, MergeTypes
  <2> QED
    BY <2>2, <1>4
<1>8. raced' \in BOOLEAN /\ (raced => raced')
  BY <1>6
<1> QED
  BY <1>1, <1>2, <1>3, <1>5, <1>7, <1>8, PutInv

LEMMA ReadInv ==
    ASSUME SInv, NEW q \in Requests, NEW s \in Schedules, ReadSchedule(q, s)
    PROVE  SInv'
<1>1. /\ requests[q].step = "idle" /\ schedules[s] \in AnyRow
      /\ requests' = [requests EXCEPT ![q] = Asks("patch", s, TRUE, schedules[s])]
      /\ UNCHANGED <<schedules, jobs, events, crossed, raced, unloaded>>
  BY RowTypes DEF ReadSchedule, SInv, SchedulerTypeOK
<1>2. /\ requests'[q].step = "patch" /\ requests'[q].own = s /\ requests'[q].mine = schedules[s]
      /\ \A p \in Requests \ {q} : requests'[p] = requests[p]
  BY <1>1 DEF SInv, SchedulerTypeOK, Asks
<1>3. requests' \in [Requests -> Request]
  BY <1>1, AskedType DEF SInv, SchedulerTypeOK
<1>4. SchedulerTypeOK'
  BY <1>1, <1>2, <1>3 DEF SInv, SchedulerTypeOK
<1>5. SchedulesRunSomething'
  BY <1>1 DEF SInv, SchedulesRunSomething
<1>6. OwnInv'
  BY <1>1, <1>2 DEF SInv, OwnInv
<1>7. \A p \in Requests, t \in Schedules : /\ WillAdd(p, t) => WillAdd(p, t)'
                                           /\ WillReplace(p, t) => WillReplace(p, t)'
  BY <1>1, <1>2 DEF WillAdd, WillReplace
<1>8. EnabledInv'
  BY <1>1, <1>7 DEF SInv, EnabledInv, Enabled
<1>9. CurrentInv'
  <2> SUFFICES ASSUME ~crossed PROVE CurrentInv'
    BY <1>1 DEF CurrentInv
  <2>1. JobsOfTable' = JobsOfTable
    BY <1>1 DEF JobsOfTable, Enabled
  <2>2. \A p \in Requests : requests'[p].step = "add" => requests'[p].found = JobsOfTable
    BY <1>2 DEF SInv, CurrentInv
  <2>3. ASSUME NEW p \in Requests, requests'[p].step = "select", Enabled(requests[p].own)'
        PROVE  requests'[p].mine.time = schedules'[requests'[p].own].time
    <3>1. requests'[p] = requests[p]
      BY <2>3, <1>2
    <3> QED
      BY <2>3, <3>1, <1>1, ReadStaysCurrent
  <2>4. \A t \in Schedules :
           \/ unloaded'
           \/ jobs'[t] = JobsOfTable[t]
           \/ \E p \in Requests : WillReplace(p, t)'
           \/ jobs'[t] = NoTime /\ \E p \in Requests : requests'[p].step \in {"select", "add"}
    BY <1>1, <1>2, <1>7 DEF SInv, CurrentInv
  <2> QED
    BY <2>1, <2>2, <2>3, <2>4 DEF CurrentInv
<1> QED
  BY <1>4, <1>5, <1>6, <1>8, <1>9 DEF SInv

LEMMA FailsInv ==
    ASSUME SInv, NEW q \in Requests, RequestFails(q)
    PROVE  SInv'
<1>1. /\ requests[q].step \in {"patch", "remove"} /\ requests[q].refreshes
      /\ schedules[requests[q].own] = Gone
      /\ requests' = [requests EXCEPT ![q] = Asks("idle", NoTime, TRUE, NoSchedule)]
      /\ UNCHANGED <<schedules, jobs, events, crossed, raced, unloaded>>
  BY DEF RequestFails, NoRequest
<1>2. /\ requests'[q].step = "idle"
      /\ \A p \in Requests \ {q} : requests'[p] = requests[p]
  BY <1>1 DEF SInv, SchedulerTypeOK, Asks
<1>3. requests' \in [Requests -> Request]
  BY <1>1, AskedType DEF SInv, SchedulerTypeOK
<1>4. SchedulerTypeOK'
  BY <1>1, <1>2, <1>3 DEF SInv, SchedulerTypeOK
<1>5. SchedulesRunSomething'
  BY <1>1 DEF SInv, SchedulesRunSomething
<1>6. OwnInv'
  BY <1>1, <1>2 DEF SInv, OwnInv
<1>7. \A p \in Requests, t \in Schedules : /\ WillAdd(p, t) /\ Enabled(t) => WillAdd(p, t)'
                                           /\ WillReplace(p, t) => WillReplace(p, t)'
  BY ZenonT(40), <1>1, <1>2, RowTypes DEF WillAdd, WillReplace, Enabled
<1>8. EnabledInv'
  BY <1>1, <1>7 DEF SInv, EnabledInv, Enabled
<1>9. CurrentInv'
  <2> SUFFICES ASSUME ~crossed PROVE CurrentInv'
    BY <1>1 DEF CurrentInv
  <2>1. JobsOfTable' = JobsOfTable
    BY <1>1 DEF JobsOfTable, Enabled
  <2>2. \A p \in Requests : requests'[p].step = "add" => requests'[p].found = JobsOfTable
    BY <1>2 DEF SInv, CurrentInv
  <2>3. ASSUME NEW p \in Requests, requests'[p].step = "select", Enabled(requests[p].own)'
        PROVE  requests'[p].mine.time = schedules'[requests'[p].own].time
    <3>1. requests'[p] = requests[p]
      BY <2>3, <1>2
    <3> QED
      BY <2>3, <3>1, <1>1, ReadStaysCurrent
  <2>4. \A t \in Schedules :
           \/ unloaded'
           \/ jobs'[t] = JobsOfTable[t]
           \/ \E p \in Requests : WillReplace(p, t)'
           \/ jobs'[t] = NoTime /\ \E p \in Requests : requests'[p].step \in {"select", "add"}
    BY <1>1, <1>2, <1>7 DEF SInv, CurrentInv
  <2> QED
    BY <2>1, <2>2, <2>3, <2>4 DEF CurrentInv
<1> QED
  BY <1>4, <1>5, <1>6, <1>8, <1>9 DEF SInv

\* An error cuts a request off: of what it was to load nothing is claimed any more.
LEMMA CutOffInv ==
    ASSUME SInv, NEW q \in Requests, DatabaseFailsRequest(q)
    PROVE  SInv'
<1>1. /\ requests[q].step \in {"patch", "remove", "select"}
      /\ requests' = [requests EXCEPT ![q] = Asks("idle", NoTime, TRUE, NoSchedule)]
      /\ unloaded' = (unloaded \/ requests[q].step # "patch")
      /\ UNCHANGED <<schedules, jobs, events, crossed, raced>>
  BY DEF DatabaseFailsRequest, NoRequest
<1>2. /\ requests'[q].step = "idle"
      /\ \A p \in Requests \ {q} : requests'[p] = requests[p]
  BY <1>1 DEF SInv, SchedulerTypeOK, Asks
<1>3. requests' \in [Requests -> Request] /\ unloaded' \in BOOLEAN
  BY <1>1, AskedType DEF SInv, SchedulerTypeOK
<1>4. SchedulerTypeOK'
  BY <1>1, <1>2, <1>3 DEF SInv, SchedulerTypeOK
<1>5. SchedulesRunSomething'
  BY <1>1 DEF SInv, SchedulesRunSomething
<1>6. OwnInv'
  BY <1>1, <1>2 DEF SInv, OwnInv
<1>7. unloaded' \/ (~unloaded /\ requests[q].step = "patch")
  BY <1>1
<1>8. EnabledInv'
  <2> SUFFICES ASSUME ~unloaded', NEW t \in Schedules, Enabled(t), jobs[t] = NoTime
               PROVE  \E p \in Requests : WillAdd(p, t)'
    BY <1>1 DEF EnabledInv, Enabled
  <2>1. PICK p \in Requests : WillAdd(p, t)
    BY <1>7 DEF SInv, EnabledInv
  <2>2. p # q
    BY <2>1, <1>7 DEF WillAdd
  <2> QED
    BY <2>1, <2>2, <1>2 DEF WillAdd
<1>9. CurrentInv'
  <2> SUFFICES ASSUME ~crossed PROVE CurrentInv'
    BY <1>1 DEF CurrentInv
  <2>1. JobsOfTable' = JobsOfTable
    BY <1>1 DEF JobsOfTable, Enabled
  <2>2. \A p \in Requests : requests'[p].step = "add" => requests'[p].found = JobsOfTable
    BY <1>2 DEF SInv, CurrentInv
  <2>3. ASSUME NEW p \in Requests, requests'[p].step = "select", Enabled(requests[p].own)'
        PROVE  requests'[p].mine.time = schedules'[requests'[p].own].time
    <3>1. requests'[p] = requests[p]
      BY <2>3, <1>2
    <3> QED
      BY <2>3, <3>1, <1>1, ReadStaysCurrent
  <2>4. ~unloaded' => \A p \in Requests, t \in Schedules : WillReplace(p, t) => WillReplace(p, t)'
    BY <1>1, <1>2, <1>7 DEF WillReplace
  <2>5. \A t \in Schedules :
           \/ unloaded'
           \/ jobs'[t] = JobsOfTable[t]
           \/ \E p \in Requests : WillReplace(p, t)'
           \/ jobs'[t] = NoTime /\ \E p \in Requests : requests'[p].step \in {"select", "add"}
    BY <1>1, <1>2, <1>7, <2>4 DEF SInv, CurrentInv
  <2> QED
    BY <2>1, <2>2, <2>3, <2>5 DEF CurrentInv
<1> QED
  BY <1>4, <1>5, <1>6, <1>8, <1>9 DEF SInv

LEMMA RemoveInv ==
    ASSUME SInv, NEW q \in Requests, RemoveJobs(q)
    PROVE  SInv'
<1> DEFINE s == requests[q].own
<1>1. /\ requests[q].step = "remove" /\ s \in Schedules
      /\ requests[q].refreshes => schedules[s] # Gone
      /\ requests' = [requests EXCEPT ![q].step = "select", ![q].mine = schedules[s]]
      /\ \A t \in Schedules : jobs'[t] = NoTime
      /\ jobs' \in [Schedules -> Times \union {NoTime}]
      /\ UNCHANGED <<schedules, events, raced>>
      /\ unloaded' = FALSE
      /\ crossed' = (crossed /\ Others(q, {"select", "add"}))
  BY DEF RemoveJobs, SInv, SchedulerTypeOK
<1>2. /\ requests'[q].step = "select" /\ requests'[q].own = s /\ requests'[q].mine = schedules[s]
      /\ \A p \in Requests \ {q} : requests'[p] = requests[p]
  BY <1>1 DEF SInv, SchedulerTypeOK, Request
<1>3. requests' \in [Requests -> Request]
  <2>1. requests[q] \in Request /\ schedules[s] \in AnyRow \union {NoSchedule, Gone}
    BY <1>1 DEF SInv, SchedulerTypeOK
  <2>2. [requests[q] EXCEPT !.step = "select", !.mine = schedules[s]] \in Request
    BY <2>1 DEF Request
  <2> QED
    BY <1>1, <2>2 DEF SInv, SchedulerTypeOK
<1>4. schedules[s] \in AnyRow \/ schedules[s] = Gone
  BY <1>1 DEF SInv, OwnInv
<1>5. SchedulerTypeOK'
  <2>1. crossed' \in BOOLEAN
    BY <1>1 DEF Others
  <2> QED
    BY <2>1, <1>1, <1>2, <1>3 DEF SInv, SchedulerTypeOK
<1>6. SchedulesRunSomething'
  BY <1>1 DEF SInv, SchedulesRunSomething
<1>7. OwnInv'
  BY ZenonT(40), <1>1, <1>2, <1>4 DEF SInv, OwnInv
<1>8. EnabledInv'
  BY <1>2 DEF EnabledInv, WillAdd
<1>9. CurrentInv'
  <2> SUFFICES ASSUME ~crossed' PROVE CurrentInv'
    BY DEF CurrentInv
  <2>1. JobsOfTable' = JobsOfTable
    BY <1>1 DEF JobsOfTable, Enabled
  <2>2. ~crossed \/ \A p \in Requests \ {q} : requests[p].step \notin {"select", "add"}
    BY <1>1 DEF Others
  <2>3. \A p \in Requests : requests'[p].step = "add" => requests'[p].found = JobsOfTable
    BY <1>2, <2>2 DEF SInv, CurrentInv
  <2>4. ASSUME NEW p \in Requests, requests'[p].step = "select", Enabled(requests[p].own)'
        PROVE  requests'[p].mine.time = schedules'[requests'[p].own].time
    <3>1. CASE p = q
      BY <3>1, <1>1, <1>2
    <3>2. CASE p # q
      <4>1. requests'[p] = requests[p] /\ ~crossed
        BY <2>2, <2>4, <3>2, <1>2
      <4> QED
        BY <2>4, <4>1, <1>1, ReadStaysCurrent
    <3> QED
      BY <3>1, <3>2
  <2>5. \A t \in Schedules : jobs'[t] = NoTime /\ \E p \in Requests : requests'[p].step \in {"select", "add"}
    BY <1>1, <1>2
  <2> QED
    BY <2>1, <2>3, <2>4, <2>5 DEF CurrentInv
<1> QED
  BY <1>5, <1>6, <1>7, <1>8, <1>9 DEF SInv

LEMMA SelectInv ==
    ASSUME SInv, NEW q \in Requests, SelectEnabled(q)
    PROVE  SInv'
<1> DEFINE s     == requests[q].own
           found == [t \in Schedules |-> IF t = s /\ Enabled(t) THEN requests[q].mine.time ELSE JobsOfTable[t]]
<1>1. /\ requests[q].step = "select" /\ s \in Schedules
      /\ requests' = [requests EXCEPT ![q].step = "add", ![q].found = found]
      /\ UNCHANGED <<schedules, jobs, events, crossed, raced, unloaded>>
  BY DEF SelectEnabled, SInv, SchedulerTypeOK
<1>2. /\ requests'[q].step = "add" /\ requests'[q].own = s /\ requests'[q].found = found
      /\ \A p \in Requests \ {q} : requests'[p] = requests[p]
  BY <1>1 DEF SInv, SchedulerTypeOK, Request
<1>3. \A t \in Schedules : Enabled(t) => schedules[t] \in AnyRow /\ JobsOfTable[t] \in Times /\ found[t] \in Times
  <2> SUFFICES ASSUME NEW t \in Schedules, Enabled(t)
               PROVE  schedules[t] \in AnyRow /\ JobsOfTable[t] \in Times /\ found[t] \in Times
    OBVIOUS
  <2>1. schedules[t] \in AnyRow /\ schedules[t] # Gone
    BY RowTypes DEF Enabled, SInv, SchedulerTypeOK
  <2>2. JobsOfTable[t] \in Times
    BY <2>1, RowTypes DEF JobsOfTable
  <2>3. t = s => requests[q].mine \in AnyRow
    BY <2>1, <1>1 DEF SInv, OwnInv
  <2> QED
    BY <2>1, <2>2, <2>3, RowTypes
<1>4. found \in [Schedules -> Times \union {NoTime}]
  BY <1>3 DEF JobsOfTable
<1>5. SchedulerTypeOK'
  <2>1. [requests[q] EXCEPT !.step = "add", !.found = found] \in Request
    BY ZenonT(40), <1>4 DEF SInv, SchedulerTypeOK, Request
  <2>2. requests' \in [Requests -> Request]
    BY <1>1, <2>1 DEF SInv, SchedulerTypeOK
  <2> QED
    BY <2>2, <1>1, <1>2, <1>4 DEF SInv, SchedulerTypeOK
<1>6. SchedulesRunSomething'
  BY <1>1 DEF SInv, SchedulesRunSomething
<1>7. OwnInv'
  BY ZenonT(40), <1>1, <1>2 DEF SInv, OwnInv
<1>8. EnabledInv'
  <2> SUFFICES ASSUME ~unloaded, NEW t \in Schedules, Enabled(t), jobs[t] = NoTime
               PROVE  \E p \in Requests : WillAdd(p, t)'
    BY <1>1 DEF EnabledInv, Enabled
  <2>1. WillAdd(q, t)'
    BY <1>2, <1>3, RowTypes DEF WillAdd
  <2> QED
    BY <2>1
<1>9. CurrentInv'
  <2> SUFFICES ASSUME ~crossed PROVE CurrentInv'
    BY <1>1 DEF CurrentInv
  <2>1. JobsOfTable' = JobsOfTable
    BY <1>1 DEF JobsOfTable, Enabled
  <2>2. found = JobsOfTable
    BY <1>1 DEF SInv, CurrentInv, JobsOfTable
  <2>3. \A p \in Requests : requests'[p].step = "add" => requests'[p].found = JobsOfTable
    BY <1>2, <2>2 DEF SInv, CurrentInv
  <2>4. ASSUME NEW p \in Requests, requests'[p].step = "select", Enabled(requests[p].own)'
        PROVE  requests'[p].mine.time = schedules'[requests'[p].own].time
    <3>1. requests'[p] = requests[p]
      BY <2>4, <1>2
    <3> QED
      BY <2>4, <3>1, <1>1, ReadStaysCurrent
  <2>5. \A p \in Requests, t \in Schedules : WillReplace(p, t) => WillReplace(p, t)'
    BY <1>1, <1>2 DEF WillReplace
  <2>6. \A t \in Schedules :
           \/ unloaded'
           \/ jobs'[t] = JobsOfTable[t]
           \/ \E p \in Requests : WillReplace(p, t)'
           \/ jobs'[t] = NoTime /\ \E p \in Requests : requests'[p].step \in {"select", "add"}
    BY <1>1, <1>2, <2>5 DEF SInv, CurrentInv
  <2> QED
    BY <2>1, <2>3, <2>4, <2>6 DEF CurrentInv
<1> QED
  BY <1>5, <1>6, <1>7, <1>8, <1>9 DEF SInv

LEMMA AddInv ==
    ASSUME SInv, NEW q \in Requests, AddJobs(q)
    PROVE  SInv'
<1> DEFINE found == requests[q].found
<1>1. /\ requests[q].step = "add" /\ found \in [Schedules -> Times \union {NoTime}]
      /\ requests' = [requests EXCEPT ![q] = Asks("idle", NoTime, TRUE, NoSchedule)]
      /\ \A t \in Schedules : jobs'[t] = IF found[t] = NoTime THEN jobs[t] ELSE found[t]
      /\ jobs' \in [Schedules -> Times \union {NoTime}]
      /\ UNCHANGED <<schedules, events, crossed, raced, unloaded>>
  BY DEF AddJobs, NoRequest, SInv, SchedulerTypeOK
<1>2. /\ requests'[q].step = "idle"
      /\ \A p \in Requests \ {q} : requests'[p] = requests[p]
  BY <1>1 DEF SInv, SchedulerTypeOK, Asks
<1>3. requests' \in [Requests -> Request]
  BY <1>1, AskedType DEF SInv, SchedulerTypeOK
<1>4. SchedulerTypeOK'
  BY <1>1, <1>2, <1>3 DEF SInv, SchedulerTypeOK
<1>5. SchedulesRunSomething'
  BY <1>1 DEF SInv, SchedulesRunSomething
<1>6. OwnInv'
  BY <1>1, <1>2 DEF SInv, OwnInv
<1>7. EnabledInv'
  <2> SUFFICES ASSUME ~unloaded, NEW t \in Schedules, Enabled(t), jobs'[t] = NoTime
               PROVE  \E p \in Requests : WillAdd(p, t)'
    BY <1>1 DEF EnabledInv, Enabled
  <2>1. jobs[t] = NoTime /\ found[t] = NoTime
    BY <1>1
  <2>2. PICK p \in Requests : WillAdd(p, t)
    BY <2>1 DEF SInv, EnabledInv
  <2>3. p # q
    BY <2>1, <2>2, <1>1 DEF WillAdd
  <2> QED
    BY <2>2, <2>3, <1>2 DEF WillAdd
<1>8. CurrentInv'
  <2> SUFFICES ASSUME ~crossed PROVE CurrentInv'
    BY <1>1 DEF CurrentInv
  <2>1. JobsOfTable' = JobsOfTable
    BY <1>1 DEF JobsOfTable, Enabled
  <2>2. found = JobsOfTable
    BY <1>1 DEF SInv, CurrentInv
  <2>3. \A p \in Requests : requests'[p].step = "add" => requests'[p].found = JobsOfTable
    BY <1>2 DEF SInv, CurrentInv
  <2>4. ASSUME NEW p \in Requests, requests'[p].step = "select", Enabled(requests[p].own)'
        PROVE  requests'[p].mine.time = schedules'[requests'[p].own].time
    <3>1. requests'[p] = requests[p]
      BY <2>4, <1>2
    <3> QED
      BY <2>4, <3>1, <1>1, ReadStaysCurrent
  <2>5. \A p \in Requests, t \in Schedules : WillReplace(p, t) => WillReplace(p, t)'
    BY <1>1, <1>2 DEF WillReplace
  <2>6. \A t \in Schedules : unloaded' \/ jobs'[t] = JobsOfTable[t] \/ \E p \in Requests : WillReplace(p, t)'
    BY <1>1, <2>2, <2>5 DEF SInv, CurrentInv
  <2> QED
    BY <2>1, <2>3, <2>4, <2>6 DEF CurrentInv
<1> QED
  BY <1>4, <1>5, <1>6, <1>7, <1>8 DEF SInv

\* What leaves the scheduler alone but counts an event.
LEMMA SchedulerUnchanged ==
    ASSUME SInv, UNCHANGED <<schedules, jobs, requests, crossed, raced, unloaded>>, events' \in 0..MaxEvents
    PROVE  SInv'
<1>1. SchedulerTypeOK'
  BY DEF SInv, SchedulerTypeOK
<1>2. SchedulesRunSomething' /\ OwnInv'
  BY DEF SInv, SchedulesRunSomething, OwnInv
<1>3. EnabledInv'
  BY DEF SInv, EnabledInv, Enabled, WillAdd
<1>4. CurrentInv'
  BY DEF SInv, CurrentInv, Enabled, WillReplace, JobsOfTable
<1> QED
  BY <1>1, <1>2, <1>3, <1>4 DEF SInv

LEMMA RestartInv ==
    ASSUME SInv, RestartScheduler, events' \in 0..MaxEvents
    PROVE  SInv'
<1>1. \A s \in Schedules : Enabled(s) => schedules[s].time \in Times
  BY RowTypes DEF Enabled, SInv, SchedulerTypeOK
<1>2. /\ jobs' = JobsOfTable /\ JobsOfTable \in [Schedules -> Times \union {NoTime}]
      /\ requests' = [q \in Requests |-> Asks("idle", NoTime, TRUE, NoSchedule)]
      /\ crossed' = FALSE /\ unloaded' = FALSE
      /\ UNCHANGED <<schedules, raced>>
  BY <1>1 DEF RestartScheduler, NoRequest, JobsOfTable
<1>3. \A q \in Requests : requests'[q].step = "idle"
  BY <1>2 DEF Asks
<1>4. SchedulerTypeOK'
  <2>1. requests' \in [Requests -> Request]
    BY <1>2, AskedType
  <2>2. crossed' \in BOOLEAN /\ unloaded' \in BOOLEAN
    BY <1>2
  <2> QED
    BY <2>1, <2>2, <1>2, <1>3 DEF SInv, SchedulerTypeOK
<1>5. SchedulesRunSomething'
  BY <1>2 DEF SInv, SchedulesRunSomething
<1>6. OwnInv'
  BY <1>3 DEF OwnInv
<1>7. JobsOfTable' = JobsOfTable
  BY <1>2 DEF JobsOfTable, Enabled
<1>8. EnabledInv'
  BY <1>1, <1>2, RowTypes DEF EnabledInv, Enabled, JobsOfTable
<1>9. CurrentInv'
  BY <1>2, <1>3, <1>7 DEF CurrentInv
<1> QED
  BY <1>4, <1>5, <1>6, <1>8, <1>9 DEF SInv

LEMMA SchedulerEdits ==
    ASSUME SInv, NEW q \in Requests, EditSchedules(q)
    PROVE  SInv'
<1>1. CASE \E s \in Schedules : CreateSchedule(q, s) \/ DeleteSchedule(q, s)
  BY <1>1, CreateDeleteInv
<1>2. CASE \E s \in Schedules : ReadSchedule(q, s)
  BY <1>2, ReadInv
<1>3. CASE UpdateSchedule(q)
  BY <1>3, UpdateInv
<1>4. CASE RequestFails(q)
  BY <1>4, FailsInv
<1>5. CASE RemoveJobs(q)
  BY <1>5, RemoveInv
<1>6. CASE SelectEnabled(q)
  BY <1>6, SelectInv
<1>7. CASE AddJobs(q)
  BY <1>7, AddInv
<1>8. CASE DatabaseFailsRequest(q)
  BY <1>8, CutOffInv
<1> QED
  BY <1>1, <1>2, <1>3, <1>4, <1>5, <1>6, <1>7, <1>8 DEF EditSchedules, Reload

\* A run's steps leave the scheduler alone; starting one counts an event.
LEMMA RunsLeaveScheduler ==
    ASSUME SInv, NEW r \in Runs, Work(r) \/ Start(r)
    PROVE  UNCHANGED <<schedules, jobs, requests, crossed, raced, unloaded>> /\ events' \in 0..MaxEvents
<1>1. events \in 0..MaxEvents
  BY DEF SInv, SchedulerTypeOK
<1>2. Event => events' \in 0..MaxEvents
  BY <1>1, SchedulerAssumptions DEF Event
<1>3. CASE Start(r)
  <2>1. \A what, own, parts : Started(r, what, own, parts) =>
             Event /\ UNCHANGED <<schedules, jobs, requests, crossed, raced, unloaded>>
    BY DEF Started
  <2> QED
    BY <1>2, <1>3, <2>1 DEF Start, Fire, StartManual, StartJob
<1>4. CASE Work(r)
  <2>1. \A cause : Failed(r, cause) => UNCHANGED schedulerVars
    BY DEF Failed
  <2>2. UNCHANGED schedulerVars
    BY <1>4, <2>1 DEF Work, Begin, Load, Commit, Notify, RecordBegin, RecordCommit, FetchFails, Write, DatabaseFails
  <2> QED
    BY <1>1, <2>2 DEF schedulerVars
<1> QED
  BY <1>3, <1>4

(* The invariant of the scheduler holds of every behaviour of the
   installation, for any schedules, requests, times, sources, guides and runs. *)
THEOREM SchedulerInvariance == Spec => []SInv
<1>1. Init => SInv
  BY SchedulerInitially DEF Init
<1>2. SInv /\ [Next]_vars => SInv'
  <2> SUFFICES ASSUME SInv, [Next]_vars PROVE SInv'
    OBVIOUS
  <2>1. events \in 0..MaxEvents /\ (Event => events' \in 0..MaxEvents)
    BY SchedulerAssumptions DEF SInv, SchedulerTypeOK, Event
  <2>2. CASE \E r \in Runs : Work(r) \/ Start(r)
    BY <2>2, RunsLeaveScheduler, SchedulerUnchanged
  <2>3. CASE EditScheduler
    BY <2>3, SchedulerEdits DEF EditScheduler
  <2>4. CASE \E v \in Videos : ToggleSource(v)
    BY <2>1, <2>4, SchedulerUnchanged DEF ToggleSource
  <2>5. CASE \E p \in Providers : DeleteProvider(p)
    BY <2>1, <2>5, SchedulerUnchanged DEF DeleteProvider
  <2>6. CASE Restart
    BY <2>1, <2>6, RestartInv DEF Restart
  <2>7. CASE UNCHANGED vars
    BY <2>1, <2>7, SchedulerUnchanged DEF vars, schedulerVars
  <2> QED
    BY <2>2, <2>3, <2>4, <2>5, <2>6, <2>7 DEF Next
<1> QED
  BY <1>1, <1>2, PTL DEF Spec

(* When no request is reloading and no error has cut a reload off since the last
   began, every enabled schedule has its job, and the jobs are exactly those of
   the table unless a change was committed in the middle of another reload: the
   removal of the jobs, the SELECT and add_job of any number of requests may
   interleave, with failures between any two of them. *)
THEOREM JobsAreThoseOfTheTable == Spec => []JobsFollowTable
<1>1. SInv => JobsFollowTable
  <2> SUFFICES ASSUME SInv, \A q \in Requests : requests[q].step = "idle"
               PROVE  /\ unloaded \/ \A s \in Schedules : Enabled(s) => jobs[s] # NoTime
                      /\ crossed \/ unloaded \/ jobs = JobsOfTable
    BY DEF SInv, JobsFollowTable
  <2>1. unloaded \/ \A s \in Schedules : Enabled(s) => jobs[s] # NoTime
    BY DEF SInv, EnabledInv, WillAdd
  <2>2. ASSUME ~crossed, ~unloaded PROVE jobs = JobsOfTable
    <3>1. \A s \in Schedules : jobs[s] = JobsOfTable[s]
      BY <2>2 DEF SInv, CurrentInv, WillReplace
    <3>2. jobs = [s \in Schedules |-> jobs[s]] /\ JobsOfTable = [s \in Schedules |-> JobsOfTable[s]]
      BY DEF SInv, SchedulerTypeOK, JobsOfTable
    <3> QED
      BY <3>1, <3>2
  <2> QED
    BY <2>1, <2>2
<1> QED
  BY <1>1, SchedulerInvariance, PTL

-----------------------------------------------------------------------------
(* The invariant of the runs *)

RunSteps == {"idle", "begin", "load", "work", "committed", "record", "recording", "ended"}
Whats    == {"none", "scheduled", "manual", "syncAll", "one", "all", "single"}
Causes   == {"none", "nothing to do", "fetch", "database", "notify", "restart", "done"}
Results  == {"none", "success", "partial"}
Statuses == {"never", "success", "failed"}
Outcomes == {"none", "success", "failed"}
Fns(S)   == UNION {[D -> S] : D \in SUBSET Providers}
StatusFns  == Fns(Statuses)
OutFns     == Fns(Outcomes)
BatchFns   == Fns(SUBSET Nat)

DbRow  == [there : BOOLEAN, enabled : BOOLEAN, status : Statuses, batches : SUBSET Nat]
RunSet == [step : RunSteps, what : Whats, id : Nat, own : Schedules \union Providers \union {NoTime},
           parts : SUBSET Kinds, left : SUBSET Kinds, todo : SUBSET Providers,
           was : StatusFns, out : OutFns, gone : BatchFns, met : SUBSET Providers,
           row : Results, kept : BOOLEAN, told : SUBSET Kinds, cause : Causes]

\* The guides there are.
ThereIn(d) == {g \in Guides : d[g].there}

\* What the property says of a run x that has got through.
Through(x, d) ==
    /\ x.kept
    /\ \A p \in DOMAIN x.out : x.out[p] # "none"
    /\ "epg" \in x.parts /\ x.what # "single" => ThereIn(d) \subseteq DOMAIN x.out
    /\ x.what \in {"scheduled", "manual"} => (x.row = "partial" <=> \E p \in DOMAIN x.out : x.out[p] = "failed")

KeepOK(x, d) ==
    /\ x.step \notin {"idle", "ended"} =>
         /\ x.what \in {"one", "single"} => x.own \in Providers
         /\ x.what = "scheduled" => x.own \in Schedules
         /\ x.cause # "done" /\ x.told = {}
    /\ x.step \in {"record", "recording"} => x.what = "single"
    /\ x.what = "one" => "epg" \notin x.parts
    /\ x.step \in {"begin", "load"} => x.left = x.parts /\ x.out = <<>>
    /\ x.step = "work" =>
         /\ \A p \in DOMAIN x.out : x.out[p] = "none" => p \in x.todo
         /\ "epg" \in x.parts \ x.left /\ x.what # "single" => ThereIn(d) \subseteq DOMAIN x.out
    /\ x.step = "committed" \/ x.cause = "done" \/ x.told # {} => Through(x, d)

RInv ==
    /\ db \in [Providers -> DbRow]
    /\ run \in [Runs -> RunSet]
    /\ \A r \in Runs : KeepOK(run[r], db)

LEMMA NoRunType == NoRun \in RunSet
<1>1. \A S : <<>> \in Fns(S)
  <2> SUFFICES ASSUME NEW S PROVE <<>> \in Fns(S)
    OBVIOUS
  <2>1. <<>> \in [{} -> S]
    OBVIOUS
  <2> QED
    BY <2>1 DEF Fns
<1>2. <<>> \in StatusFns /\ <<>> \in OutFns /\ <<>> \in BatchFns
  BY <1>1 DEF StatusFns, OutFns, BatchFns
<1> QED
  BY <1>2 DEF NoRun, RunSet, RunSteps, Whats, Causes, Results

\* A run that ends leaves nothing to do.
LEMMA EndedType ==
    ASSUME NEW r \in Runs, run[r] \in RunSet, NEW cause \in Causes
    PROVE  /\ Ended(r, cause) \in RunSet
           /\ Ended(r, cause).step = "ended" /\ Ended(r, cause).cause = cause /\ Ended(r, cause).told = {}
           /\ Ended(r, cause).what = run[r].what /\ Ended(r, cause).parts = run[r].parts
           /\ Ended(r, cause).out = run[r].out /\ Ended(r, cause).row = run[r].row /\ Ended(r, cause).kept = run[r].kept
           /\ Ended(r, cause).todo = {} /\ Ended(r, cause).id = 0
<1> DEFINE x == Ended(r, cause)
<1>1. PICK y : y = [NoRun EXCEPT !.step = "ended", !.what = run[r].what, !.parts = run[r].parts, !.out = run[r].out,
                                 !.row = run[r].row, !.kept = run[r].kept, !.cause = cause]
  OBVIOUS
<1>2. y = [step |-> "ended", what |-> run[r].what, id |-> NoRun.id, own |-> NoRun.own, parts |-> run[r].parts,
           left |-> NoRun.left, todo |-> NoRun.todo, was |-> NoRun.was, out |-> run[r].out, gone |-> NoRun.gone,
           met |-> NoRun.met, row |-> run[r].row, kept |-> run[r].kept, told |-> NoRun.told, cause |-> cause]
  BY <1>1, NoRunType DEF RunSet
<1>3. y \in RunSet
  BY <1>2, NoRunType DEF RunSet, RunSteps
<1>4. NoRun.told = {} /\ NoRun.todo = {} /\ NoRun.id = 0
  BY DEF NoRun
<1>5. Ended(r, cause) = y
  BY <1>1 DEF Ended
<1> QED
  BY <1>2, <1>3, <1>4, <1>5

LEMMA RunsInitially == Init => RInv
<1> SUFFICES ASSUME Init PROVE RInv
  OBVIOUS
<1>1. db \in [Providers -> DbRow]
  BY DEF Init, DbRow, Statuses
<1>2. run \in [Runs -> RunSet] /\ \A r \in Runs : run[r] = NoRun
  BY NoRunType DEF Init
<1>3. NoRun.step = "idle" /\ NoRun.what = "none" /\ NoRun.cause = "none" /\ NoRun.told = {}
  BY DEF NoRun
<1>4. KeepOK(NoRun, db)
  BY <1>3 DEF KeepOK
<1> QED
  BY <1>1, <1>2, <1>4 DEF RInv

\* A step that changes one run and no row.
LEMMA OneRun ==
    ASSUME RInv, NEW r \in Runs, NEW x \in RunSet, KeepOK(x, db), run' = [run EXCEPT ![r] = x], db' = db
    PROVE  RInv'
  BY DEF RInv

\* A step that only takes guides away.
LEMMA FewerGuides ==
    ASSUME NEW x, NEW d, NEW e, KeepOK(x, d), ThereIn(e) \subseteq ThereIn(d)
    PROVE  KeepOK(x, e)
  BY DEF KeepOK, Through

LEMMA StartedInv ==
    ASSUME SInv, RInv, NEW r \in Runs, NEW what \in Whats \ {"none"}, NEW own \in Schedules \union Providers \union {NoTime},
           NEW parts \in SUBSET Kinds, Started(r, what, own, parts),
           what \in {"one", "single"} => own \in Providers, what = "scheduled" => own \in Schedules,
           what = "one" => "epg" \notin parts
    PROVE  RInv'
<1>1. PICK x : x = [NoRun EXCEPT !.step = "begin", !.what = what, !.own = own, !.parts = parts, !.left = parts, !.id = events']
  OBVIOUS
<1>2. x = [step |-> "begin", what |-> what, id |-> events', own |-> own, parts |-> parts,
           left |-> parts, todo |-> NoRun.todo, was |-> NoRun.was, out |-> NoRun.out, gone |-> NoRun.gone,
           met |-> NoRun.met, row |-> NoRun.row, kept |-> NoRun.kept, told |-> NoRun.told, cause |-> NoRun.cause]
  BY <1>1, NoRunType DEF RunSet
<1>3. events' \in Nat
  BY DEF Started, Event, SInv, SchedulerTypeOK
<1>4. x \in RunSet
  BY <1>2, <1>3, NoRunType DEF RunSet, RunSteps
<1>5. NoRun.out = <<>> /\ NoRun.told = {} /\ NoRun.cause = "none"
  BY DEF NoRun
<1>6. KeepOK(x, db)
  BY <1>2, <1>5 DEF KeepOK
<1>7. run' = [run EXCEPT ![r] = x] /\ db' = db
  BY <1>1 DEF Started
<1> QED
  BY <1>4, <1>6, <1>7, OneRun

LEMMA StartInv ==
    ASSUME SInv, RInv, NEW r \in Runs, Start(r)
    PROVE  RInv'
<1>1. ASSUME NEW s \in Schedules, Fire(r, s) PROVE RInv'
  <2>1. Started(r, "scheduled", s, {})
    BY <1>1 DEF Fire
  <2> QED
    BY <2>1, StartedInv DEF Whats
<1>2. CASE Started(r, "manual", NoTime, Kinds)
  BY <1>2, StartedInv DEF Whats
<1>3. CASE Started(r, "syncAll", NoTime, {"sources"})
  BY <1>3, StartedInv DEF Whats, Kinds
<1>4. ASSUME NEW v \in Videos, Started(r, "one", v, {"sources"}) PROVE RInv'
  BY <1>4, StartedInv DEF Whats, Kinds, Providers
<1>5. CASE Started(r, "all", NoTime, {"epg"})
  BY <1>5, StartedInv DEF Whats, Kinds
<1>6. ASSUME NEW g \in Guides, Started(r, "single", g, {"epg"}) PROVE RInv'
  BY <1>6, StartedInv DEF Whats, Kinds, Providers
<1> QED
  BY <1>1, <1>2, <1>3, <1>4, <1>5, <1>6 DEF Start, StartManual, StartJob

LEMMA BeginInv ==
    ASSUME SInv, RInv, NEW r \in Runs, Begin(r)
    PROVE  RInv'
<1>1. run[r] \in RunSet /\ KeepOK(run[r], db) /\ run[r].step = "begin" /\ db' = db
  BY DEF RInv, Begin
<1> DEFINE s == run[r].own
           dead == IF run[r].what = "scheduled" THEN ~Enabled(s) ELSE IsJob(r) /\ ~Contains(table, run[r].id)
           parts == IF run[r].what = "scheduled" THEN schedules[s].parts ELSE run[r].parts
<1>2. CASE dead
  <2>1. run' = [run EXCEPT ![r] = Ended(r, "nothing to do")]
    BY <1>2 DEF Begin
  <2>2. PICK e : e = Ended(r, "nothing to do")
    OBVIOUS
  <2>3. /\ e \in RunSet /\ e.step = "ended" /\ e.cause = "nothing to do" /\ e.told = {} /\ e.what = run[r].what
        /\ e.parts = run[r].parts
    BY ZenonT(40), <1>1, <2>2, EndedType DEF Causes
  <2>4. KeepOK(e, db)
    BY <1>1, <2>3 DEF KeepOK
  <2> QED
    BY <1>1, <2>1, <2>2, <2>3, <2>4, OneRun
<1>3. CASE ~dead
  <2>1. PICK x : x = [run[r] EXCEPT !.step = "load", !.parts = parts, !.left = parts]
    OBVIOUS
  <2>2. x = [step |-> "load", what |-> run[r].what, id |-> run[r].id, own |-> run[r].own, parts |-> parts,
             left |-> parts, todo |-> run[r].todo, was |-> run[r].was, out |-> run[r].out, gone |-> run[r].gone,
             met |-> run[r].met, row |-> run[r].row, kept |-> run[r].kept, told |-> run[r].told, cause |-> run[r].cause]
    BY <1>1, <2>1 DEF RunSet
  <2>3. parts \in SUBSET Kinds
    <3>1. CASE run[r].what = "scheduled"
      <4>1. s \in Schedules /\ Enabled(s)
        BY <1>1, <1>3, <3>1 DEF KeepOK
      <4>2. schedules[s] \in AnyRow
        BY <4>1, RowTypes DEF Enabled, SInv, SchedulerTypeOK
      <4> QED
        BY <3>1, <4>2, RowTypes
    <3>2. CASE run[r].what # "scheduled"
      BY <1>1, <3>2 DEF RunSet
    <3> QED
      BY <3>1, <3>2
  <2>4. x \in RunSet
    BY <1>1, <2>2, <2>3 DEF RunSet, RunSteps
  <2>5. KeepOK(x, db)
    BY <1>1, <2>2 DEF KeepOK
  <2>6. run' = [run EXCEPT ![r] = x]
    BY <1>3, <2>1 DEF Begin
  <2> QED
    BY <1>1, <2>4, <2>5, <2>6, OneRun
<1> QED
  BY <1>2, <1>3

\* What was noted and what is added make one function.
LEMMA MoreLoaded ==
    ASSUME NEW S, NEW ps \in SUBSET Providers, NEW new \in [ps -> S], NEW old \in Fns(S)
    PROVE  With(old, new) \in Fns(S)
<1>1. PICK D \in SUBSET Providers : old \in [D -> S]
  BY DEF Fns
<1>2. With(old, new) = [p \in ps \union D |-> IF p \in ps THEN new[p] ELSE old[p]]
  BY <1>1 DEF With
<1>3. With(old, new) \in [ps \union D -> S] /\ ps \union D \in SUBSET Providers
  BY <1>1, <1>2
<1> QED
  BY <1>1, <1>2, <1>3 DEF Fns

LEMMA LoadInv ==
    ASSUME RInv, NEW r \in Runs, Load(r)
    PROVE  RInv'
<1> DEFINE kind == IF "sources" \in run[r].left THEN "sources" ELSE "epg"
           ps == IF run[r].left = {} THEN {} ELSE Selected(r, kind)
<1>1. /\ run[r] \in RunSet /\ KeepOK(run[r], db) /\ db' = db /\ db \in [Providers -> DbRow]
      /\ \/ run[r].step = "load"
         \/ run[r].step = "work" /\ run[r].todo = {} /\ run[r].left # {}
  BY DEF RInv, Load
<1>2. /\ run[r].was \in StatusFns /\ run[r].out \in OutFns /\ run[r].gone \in BatchFns /\ run[r].left \subseteq Kinds
      /\ run[r].parts \subseteq Kinds
  BY <1>1 DEF RunSet
<1>3. ps \in SUBSET Providers
  <2>1. kind \in {"sources", "epg"} /\ Of(kind) \subseteq Providers
    BY DEF Of, Providers
  <2>2. run[r].what \in {"one", "single"} => run[r].own \in Providers
    BY <1>1 DEF KeepOK
  <2> QED
    BY <2>1, <2>2 DEF Selected
<1>4. run[r].left # {} /\ kind = "epg" /\ run[r].what \notin {"one", "single"} => ps = ThereIn(db)
  BY DEF Selected, Of, ThereIn
<1> HIDE DEF ps
<1>5. PICK was : was = With(run[r].was, [p \in ps |-> db[p].status])
  OBVIOUS
<1>6. PICK out : out = With(run[r].out, [p \in ps |-> "none"])
  OBVIOUS
<1>7. PICK gone : gone = With(run[r].gone, [p \in ps |-> {}])
  OBVIOUS
<1>8. was \in StatusFns
  <2>1. [p \in ps |-> db[p].status] \in [ps -> Statuses]
    BY <1>1, <1>3 DEF DbRow
  <2> QED
    BY <1>2, <1>3, <1>5, <2>1, MoreLoaded DEF StatusFns
<1>9. /\ out \in OutFns /\ DOMAIN out = ps \union DOMAIN run[r].out
      /\ \A p \in DOMAIN run[r].out \ ps : out[p] = run[r].out[p]
  <2>1. PICK new : new = [p \in ps |-> "none"]
    OBVIOUS
  <2>2. new \in [ps -> Outcomes] /\ out = With(run[r].out, new) /\ run[r].out \in Fns(Outcomes)
    BY <1>2, <1>6, <2>1 DEF Outcomes, OutFns
  <2>3. out \in Fns(Outcomes)
    BY <1>3, <2>2, MoreLoaded
  <2>4. DOMAIN new = ps
    BY <2>2
  <2> QED
    BY <2>2, <2>3, <2>4 DEF OutFns, With
<1>10. gone \in BatchFns
  <2>1. [p \in ps |-> {}] \in [ps -> SUBSET Nat]
    OBVIOUS
  <2> QED
    BY <1>2, <1>3, <1>7, <2>1, MoreLoaded DEF BatchFns
<1>11. PICK x : x = [run[r] EXCEPT !.step = "work", !.left = @ \ {kind}, !.todo = ps, !.was = was, !.out = out, !.gone = gone]
  OBVIOUS
<1>12. x = [step |-> "work", what |-> run[r].what, id |-> run[r].id, own |-> run[r].own, parts |-> run[r].parts,
            left |-> run[r].left \ {kind}, todo |-> ps, was |-> was, out |-> out, gone |-> gone,
            met |-> run[r].met, row |-> run[r].row, kept |-> run[r].kept, told |-> run[r].told, cause |-> run[r].cause]
  BY <1>1, <1>11 DEF RunSet
<1>13. run' = [run EXCEPT ![r] = x]
  BY <1>5, <1>6, <1>7, <1>11 DEF Load, ps
<1>14. x \in RunSet
  BY <1>1, <1>2, <1>3, <1>8, <1>9, <1>10, <1>12 DEF RunSet, RunSteps
<1>15. /\ x.step = "work" /\ x.what = run[r].what /\ x.own = run[r].own /\ x.parts = run[r].parts
       /\ x.left = run[r].left \ {kind} /\ x.todo = ps /\ x.out = out /\ x.told = run[r].told /\ x.cause = run[r].cause
  BY <1>12
<1>16. \A p \in DOMAIN out : out[p] = "none" => p \in ps
  BY <1>1, <1>9 DEF KeepOK
<1>17. "epg" \in x.parts \ x.left /\ x.what # "single" => ThereIn(db) \subseteq DOMAIN out
  <2> SUFFICES ASSUME "epg" \in x.parts, "epg" \notin x.left, x.what # "single" PROVE ThereIn(db) \subseteq DOMAIN out
    OBVIOUS
  <2>1. run[r].what \notin {"one", "single"}
    BY <1>1, <1>15 DEF KeepOK
  <2>2. CASE "epg" \in run[r].left
    BY <1>4, <1>9, <1>15, <2>1, <2>2
  <2>3. CASE "epg" \notin run[r].left
    BY <1>1, <1>9, <1>15, <2>3 DEF KeepOK
  <2> QED
    BY <2>2, <2>3
<1>18. KeepOK(x, db)
  <2>1. /\ run[r].what \in {"one", "single"} => run[r].own \in Providers
        /\ run[r].what = "scheduled" => run[r].own \in Schedules
        /\ run[r].cause # "done" /\ run[r].told = {}
        /\ run[r].what = "one" => "epg" \notin run[r].parts
    BY <1>1 DEF KeepOK
  <2> QED
    BY <1>15, <1>16, <1>17, <2>1 DEF KeepOK
<1> QED
  BY <1>1, <1>13, <1>14, <1>18, OneRun

\* Whatever it fails with, a run does not get through.
LEMMA FailedInv ==
    ASSUME RInv, NEW r \in Runs, NEW cause \in Causes \ {"done"}, Failed(r, cause), run[r].step \notin {"idle", "ended"}
    PROVE  RInv'
<1>1. run[r] \in RunSet /\ KeepOK(run[r], db) /\ db' = db
  BY DEF RInv, Failed
<1>2. CASE run[r].what = "single"
  <2>1. PICK x : x = [run[r] EXCEPT !.step = "record", !.cause = cause]
    OBVIOUS
  <2>2. x = [step |-> "record", what |-> run[r].what, id |-> run[r].id, own |-> run[r].own, parts |-> run[r].parts,
             left |-> run[r].left, todo |-> run[r].todo, was |-> run[r].was, out |-> run[r].out, gone |-> run[r].gone,
             met |-> run[r].met, row |-> run[r].row, kept |-> run[r].kept, told |-> run[r].told, cause |-> cause]
    BY <1>1, <2>1 DEF RunSet
  <2>3. x \in RunSet
    BY <1>1, <2>2 DEF RunSet, RunSteps
  <2>4. KeepOK(x, db)
    BY <1>1, <1>2, <2>2 DEF KeepOK
  <2>5. run' = [run EXCEPT ![r] = x]
    BY <1>2, <2>1 DEF Failed
  <2> QED
    BY <1>1, <2>3, <2>4, <2>5, OneRun
<1>3. CASE run[r].what # "single"
  <2>1. run' = [run EXCEPT ![r] = Ended(r, cause)]
    BY <1>3 DEF Failed
  <2>2. Ended(r, cause) \in RunSet /\ KeepOK(Ended(r, cause), db)
    BY <1>1, EndedType DEF KeepOK
  <2> QED
    BY <1>1, <2>1, <2>2, OneRun
<1> QED
  BY <1>2, <1>3

\* A provider has answered or not.
LEMMA AnsweredInv ==
    ASSUME RInv, NEW r \in Runs, NEW p \in run[r].todo, run[r].step = "work", NEW x, NEW outcome \in Outcomes \ {"none"},
           NEW out, out = [run[r].out EXCEPT ![p] = outcome],
           NEW gone \in BatchFns,
           x = [step |-> run[r].step, what |-> run[r].what, id |-> run[r].id, own |-> run[r].own, parts |-> run[r].parts,
                left |-> run[r].left, todo |-> run[r].todo \ {p}, was |-> run[r].was, out |-> out, gone |-> gone,
                met |-> run[r].met, row |-> run[r].row, kept |-> run[r].kept, told |-> run[r].told, cause |-> run[r].cause],
           run' = [run EXCEPT ![r] = x], db' = db
    PROVE  RInv'
<1>1. run[r] \in RunSet /\ KeepOK(run[r], db)
  BY DEF RInv
<1>2. run[r].out \in OutFns
  BY <1>1 DEF RunSet
<1>3. PICK D \in SUBSET Providers : run[r].out \in [D -> Outcomes]
  BY <1>2 DEF OutFns, Fns
<1>4. out \in [D -> Outcomes] /\ DOMAIN out = DOMAIN run[r].out
  BY <1>3
<1>5. out \in OutFns
  BY <1>4 DEF OutFns, Fns
<1>6. x \in RunSet
  BY <1>1, <1>5 DEF RunSet
<1>7. \A q \in DOMAIN out : out[q] = "none" => q \in run[r].todo \ {p}
  BY <1>1, <1>3, <1>4 DEF KeepOK
<1>8. KeepOK(x, db)
  BY <1>1, <1>4, <1>7 DEF KeepOK
<1> QED
  BY <1>6, <1>8, OneRun

LEMMA FetchFailsInv ==
    ASSUME RInv, NEW r \in Runs, NEW p \in Providers, FetchFails(r, p)
    PROVE  RInv'
<1>1. CASE Failed(r, "fetch")
  BY <1>1, FailedInv DEF FetchFails, Causes
<1>2. CASE run' = [run EXCEPT ![r].todo = @ \ {p}, ![r].out[p] = "failed"] /\ db' = db
  <2>1. run[r] \in RunSet /\ run \in [Runs -> RunSet] /\ p \in run[r].todo /\ run[r].step = "work" /\ run[r].gone \in BatchFns
    BY DEF RInv, FetchFails, RunSet
  <2>2. PICK out : out = [run[r].out EXCEPT ![p] = "failed"]
    OBVIOUS
  <2>3. PICK x : x = [run[r] EXCEPT !.todo = @ \ {p}, !.out = out]
    OBVIOUS
  <2>4. x = [step |-> run[r].step, what |-> run[r].what, id |-> run[r].id, own |-> run[r].own, parts |-> run[r].parts,
             left |-> run[r].left, todo |-> run[r].todo \ {p}, was |-> run[r].was, out |-> out, gone |-> run[r].gone,
             met |-> run[r].met, row |-> run[r].row, kept |-> run[r].kept, told |-> run[r].told, cause |-> run[r].cause]
    BY <2>1, <2>3 DEF RunSet
  <2>5. run' = [run EXCEPT ![r] = x]
    BY <1>2, <2>1, <2>2, <2>3 DEF RunSet
  <2>6. "failed" \in Outcomes \ {"none"} /\ db' = db
    BY <1>2 DEF Outcomes
  <2> QED
    BY <2>1, <2>2, <2>4, <2>5, <2>6, AnsweredInv
<1> QED
  BY <1>1, <1>2 DEF FetchFails

LEMMA WriteInv ==
    ASSUME RInv, NEW r \in Runs, NEW p \in Providers, Write(r, p)
    PROVE  RInv'
<1>1. /\ run[r] \in RunSet /\ run \in [Runs -> RunSet] /\ p \in run[r].todo /\ run[r].step = "work" /\ run[r].gone \in BatchFns
      /\ db' = db /\ db[p].batches \in SUBSET Nat
  BY DEF RInv, Write, RunSet, DbRow
<1>2. PICK out : out = [run[r].out EXCEPT ![p] = "success"]
  OBVIOUS
<1>3. PICK gone : gone = [run[r].gone EXCEPT ![p] = db[p].batches]
  OBVIOUS
<1>4. PICK x : x = [run[r] EXCEPT !.todo = @ \ {p}, !.out = out, !.gone = gone]
  OBVIOUS
<1>5. gone \in BatchFns
  <2>1. PICK D \in SUBSET Providers : run[r].gone \in [D -> SUBSET Nat]
    BY <1>1 DEF BatchFns, Fns
  <2>2. gone \in [D -> SUBSET Nat]
    BY <1>1, <1>3, <2>1
  <2> QED
    BY <2>2 DEF BatchFns, Fns
<1>6. x = [step |-> run[r].step, what |-> run[r].what, id |-> run[r].id, own |-> run[r].own, parts |-> run[r].parts,
           left |-> run[r].left, todo |-> run[r].todo \ {p}, was |-> run[r].was, out |-> out, gone |-> gone,
           met |-> run[r].met, row |-> run[r].row, kept |-> run[r].kept, told |-> run[r].told, cause |-> run[r].cause]
  BY <1>1, <1>4 DEF RunSet
<1>7. run' = [run EXCEPT ![r].todo = @ \ {p}, ![r].out[p] = "success", ![r].gone[p] = db[p].batches]
  BY DEF Write
<1>8. run' = [run EXCEPT ![r] = x]
  BY <1>1, <1>2, <1>3, <1>4, <1>7 DEF RunSet
<1> QED
  BY <1>1, <1>2, <1>5, <1>6, <1>8, AnsweredInv DEF Outcomes

\* A commit: r's run becomes x, other runs only note whose rows were written,
\* and no guide appears.
LEMMA RecordedInv ==
    ASSUME RInv, NEW r \in Runs, NEW x \in RunSet, KeepOK(x, db), NEW met \in [Runs -> SUBSET Providers],
           run' = [other \in Runs |-> IF other = r THEN x ELSE [run[other] EXCEPT !.met = met[other]]],
           db' \in [Providers -> DbRow], ThereIn(db') = ThereIn(db)
    PROVE  RInv'
<1>1. KeepOK(x, db')
  BY FewerGuides
<1>2. ASSUME NEW k \in Runs, k # r PROVE run'[k] \in RunSet /\ KeepOK(run'[k], db')
  <2>1. run[k] \in RunSet /\ KeepOK(run[k], db)
    BY DEF RInv
  <2>2. PICK m : m = met[k]
    OBVIOUS
  <2>3. m \in SUBSET Providers /\ run'[k] = [run[k] EXCEPT !.met = m]
    BY <1>2, <2>2
  <2>4. run'[k] = [step |-> run[k].step, what |-> run[k].what, id |-> run[k].id, own |-> run[k].own, parts |-> run[k].parts,
                   left |-> run[k].left, todo |-> run[k].todo, was |-> run[k].was, out |-> run[k].out, gone |-> run[k].gone,
                   met |-> m, row |-> run[k].row, kept |-> run[k].kept, told |-> run[k].told, cause |-> run[k].cause]
    BY <2>1, <2>3 DEF RunSet
  <2>5. run'[k] \in RunSet
    BY <2>1, <2>3, <2>4 DEF RunSet
  <2>6. PICK y : y = run'[k]
    OBVIOUS
  <2>7. KeepOK(y, db)
    BY <2>1, <2>4, <2>6 DEF KeepOK, Through
  <2> QED
    BY <2>5, <2>6, <2>7, FewerGuides
<1>3. run'[r] = x
  OBVIOUS
<1>4. run' \in [Runs -> RunSet]
  BY <1>2, <1>3
<1> QED
  BY <1>1, <1>2, <1>3, <1>4 DEF RInv

LEMMA CommitInv ==
    ASSUME RInv, NEW r \in Runs, Commit(r)
    PROVE  RInv'
<1> DEFINE ps == DOMAIN run[r].out
<1>1. /\ run[r] \in RunSet /\ KeepOK(run[r], db) /\ db \in [Providers -> DbRow] /\ run \in [Runs -> RunSet]
      /\ run[r].step = "work" /\ run[r].todo = {} /\ run[r].left = {}
      /\ db' = [p \in Providers |-> IF p \in ps
                  THEN [db[p] EXCEPT !.status = Status(r, p), !.batches = Batches(r, p)] ELSE db[p]]
  BY DEF RInv, Commit
<1>2. run[r].out \in OutFns /\ run[r].gone \in BatchFns /\ run[r].id \in Nat
  BY <1>1 DEF RunSet
<1>3. PICK x : x = [run[r] EXCEPT !.step = "committed", !.kept = TRUE, !.was = <<>>, !.gone = <<>>, !.met = {},
                                  !.row = IF Full(r) THEN Outcome(r) ELSE "none"]
  OBVIOUS
<1>4. PICK row : row = IF Full(r) THEN Outcome(r) ELSE "none"
  OBVIOUS
<1>5. row \in Results /\ (Full(r) => (row = "partial" <=> \E p \in ps : run[r].out[p] = "failed"))
  BY <1>4 DEF Outcome, Results
<1>6. <<>> \in StatusFns /\ <<>> \in BatchFns
  BY NoRunType DEF NoRun, RunSet
<1>7. x = [step |-> "committed", what |-> run[r].what, id |-> run[r].id, own |-> run[r].own, parts |-> run[r].parts,
           left |-> run[r].left, todo |-> run[r].todo, was |-> <<>>, out |-> run[r].out, gone |-> <<>>,
           met |-> {}, row |-> row, kept |-> TRUE, told |-> run[r].told, cause |-> run[r].cause]
  BY <1>1, <1>3, <1>4 DEF RunSet
<1>8. x \in RunSet
  BY <1>1, <1>5, <1>6, <1>7 DEF RunSet, RunSteps
<1>9. KeepOK(x, db)
  <2>1. \A p \in ps : run[r].out[p] # "none"
    BY <1>1 DEF KeepOK
  <2>2. "epg" \in run[r].parts /\ run[r].what # "single" => ThereIn(db) \subseteq ps
    BY <1>1 DEF KeepOK
  <2>3. run[r].what \in {"scheduled", "manual"} => (row = "partial" <=> \E p \in ps : run[r].out[p] = "failed")
    BY <1>5 DEF Full
  <2>4. /\ x.step = "committed" /\ x.what = run[r].what /\ x.own = run[r].own /\ x.parts = run[r].parts
        /\ x.out = run[r].out /\ x.row = row /\ x.kept = TRUE /\ x.told = run[r].told /\ x.cause = run[r].cause
    BY <1>7
  <2>5. Through(x, db)
    BY <2>1, <2>2, <2>3, <2>4 DEF Through
  <2> QED
    BY <1>1, <2>4, <2>5 DEF KeepOK
<1>10. ASSUME NEW p \in Providers PROVE db'[p] \in DbRow /\ db'[p].there = db[p].there
  <2>1. db[p] \in DbRow
    BY <1>1
  <2>2. CASE p \in ps
    <3>1. run[r].out[p] \in Outcomes
      BY <1>2, <2>2 DEF OutFns, Fns
    <3>2. Status(r, p) \in Statuses
      BY <2>1, <3>1 DEF Status, DbRow, Outcomes, Statuses
    <3>3. Batches(r, p) \in SUBSET Nat
      BY <1>2, <2>1 DEF Batches, DbRow
    <3>4. PICK status : status = Status(r, p)
      OBVIOUS
    <3>5. PICK batches : batches = Batches(r, p)
      OBVIOUS
    <3>6. PICK e : e = [db[p] EXCEPT !.status = status, !.batches = batches]
      OBVIOUS
    <3>7. db'[p] = e
      BY <1>1, <2>2, <3>4, <3>5, <3>6
    <3>8. status \in Statuses /\ batches \in SUBSET Nat
      BY <3>2, <3>3, <3>4, <3>5
    <3>9. e = [there |-> db[p].there, enabled |-> db[p].enabled, status |-> status, batches |-> batches]
      BY <2>1, <3>6 DEF DbRow
    <3>10. e \in DbRow /\ e.there = db[p].there
      BY <2>1, <3>8, <3>9 DEF DbRow
    <3> QED
      BY <3>7, <3>10
  <2>3. CASE p \notin ps
    BY <1>1, <2>1, <2>3
  <2> QED
    BY <2>2, <2>3
<1>11. db' \in [Providers -> DbRow]
  BY <1>1, <1>10
<1>12. ThereIn(db') = ThereIn(db)
  BY <1>10 DEF ThereIn, Providers
<1>13. PICK met : met = Met(r, ps)
  OBVIOUS
<1>14. met \in [Runs -> SUBSET Providers]
  <2>1. \A k \in Runs : run[k].met \in SUBSET Providers
    BY <1>1 DEF RunSet
  <2>2. ps \in SUBSET Providers
    BY <1>2 DEF OutFns, Fns
  <2> QED
    BY <1>13, <2>1, <2>2 DEF Met
<1>15. run' = [other \in Runs |-> IF other = r THEN x ELSE [run[other] EXCEPT !.met = met[other]]]
  BY <1>3, <1>13 DEF Commit
<1> QED
  BY <1>8, <1>9, <1>11, <1>12, <1>14, <1>15, RecordedInv

LEMMA NotifyInv ==
    ASSUME RInv, NEW r \in Runs, Notify(r)
    PROVE  RInv'
<1>1. run[r] \in RunSet /\ KeepOK(run[r], db) /\ run[r].step = "committed"
  BY DEF RInv, Notify
<1>2. CASE Failed(r, "notify")
  BY <1>1, <1>2, FailedInv DEF Causes
<1>3. CASE run' = [run EXCEPT ![r] = [Ended(r, "done") EXCEPT !.told = run[r].parts]] /\ db' = db
  <2>1. PICK e : e = Ended(r, "done")
    OBVIOUS
  <2>2. /\ e \in RunSet /\ e.step = "ended" /\ e.cause = "done" /\ e.what = run[r].what /\ e.parts = run[r].parts
        /\ e.out = run[r].out /\ e.row = run[r].row /\ e.kept = run[r].kept
    BY <1>1, <2>1, EndedType DEF Causes
  <2>3. PICK x : x = [e EXCEPT !.told = run[r].parts]
    OBVIOUS
  <2>4. x = [step |-> e.step, what |-> e.what, id |-> e.id, own |-> e.own, parts |-> e.parts,
             left |-> e.left, todo |-> e.todo, was |-> e.was, out |-> e.out, gone |-> e.gone,
             met |-> e.met, row |-> e.row, kept |-> e.kept, told |-> run[r].parts, cause |-> e.cause]
    BY <2>2, <2>3 DEF RunSet
  <2>5. x \in RunSet
    BY <1>1, <2>2, <2>4 DEF RunSet
  <2>6. KeepOK(x, db)
    <3>1. Through(run[r], db)
      BY <1>1 DEF KeepOK
    <3>2. Through(x, db)
      BY <2>2, <2>4, <3>1 DEF Through
    <3> QED
      BY <1>1, <2>2, <2>4, <3>2 DEF KeepOK
  <2>7. run' = [run EXCEPT ![r] = x]
    BY <1>3, <2>1, <2>3
  <2> QED
    BY <1>3, <2>5, <2>6, <2>7, OneRun
<1> QED
  BY <1>2, <1>3 DEF Notify

LEMMA RecordInv ==
    ASSUME RInv, NEW r \in Runs, RecordBegin(r) \/ RecordCommit(r)
    PROVE  RInv'
<1> DEFINE g == run[r].own
<1>1. /\ run[r] \in RunSet /\ KeepOK(run[r], db) /\ run[r].step \in {"record", "recording"}
      /\ db \in [Providers -> DbRow] /\ run \in [Runs -> RunSet]
  BY DEF RInv, RecordBegin, RecordCommit
<1>2. run[r].cause \in Causes /\ run[r].cause # "done"
  BY <1>1 DEF RunSet, KeepOK
<1>3. PICK e : e = Ended(r, run[r].cause)
  OBVIOUS
<1>4. e \in RunSet /\ KeepOK(e, db)
  <2>1. /\ e \in RunSet /\ e.step = "ended" /\ e.cause = run[r].cause /\ e.told = {} /\ e.what = run[r].what /\ e.parts = run[r].parts
    BY <1>1, <1>2, <1>3, EndedType
  <2> QED
    BY <1>1, <1>2, <2>1 DEF KeepOK
<1>5. CASE run' = [run EXCEPT ![r] = e] /\ db' = db
  BY <1>4, <1>5, OneRun
<1>6. CASE RecordBegin(r) /\ db[g].there
  <2>1. PICK was : was = [p \in {g} |-> db[g].status]
    OBVIOUS
  <2>2. PICK x : x = [run[r] EXCEPT !.step = "recording", !.was = was, !.met = {}]
    OBVIOUS
  <2>3. x = [step |-> "recording", what |-> run[r].what, id |-> run[r].id, own |-> run[r].own, parts |-> run[r].parts,
             left |-> run[r].left, todo |-> run[r].todo, was |-> was, out |-> run[r].out, gone |-> run[r].gone,
             met |-> {}, row |-> run[r].row, kept |-> run[r].kept, told |-> run[r].told, cause |-> run[r].cause]
    BY <1>1, <2>2 DEF RunSet
  <2>4. run' = [run EXCEPT ![r] = x] /\ db' = db
    BY <1>6, <2>1, <2>2 DEF RecordBegin
  <2>5. KeepOK(x, db)
    BY <1>1, <2>3 DEF KeepOK
  <2>6. x \in RunSet
    <3>1. was \in StatusFns
      <4>1. run[r].own \in Providers
        BY <1>1, <1>6 DEF KeepOK, RecordBegin
      <4>2. db[g].status \in Statuses
        BY <1>1, <4>1 DEF DbRow
      <4> QED
        BY <2>1, <4>1, <4>2 DEF StatusFns, Fns
    <3> QED
      BY <1>1, <2>3, <3>1 DEF RunSet, RunSteps
  <2> QED
    BY <2>4, <2>5, <2>6, OneRun
<1>7. CASE /\ db[g].there
           /\ db' = [db EXCEPT ![g].status = IF run[r].was[g] = "failed" THEN @ ELSE "failed"]
           /\ run' = [other \in Runs |-> IF other = r THEN Ended(r, run[r].cause)
                                         ELSE [run[other] EXCEPT !.met = Met(r, {g})[other]]]
  <2>1. g \in Providers /\ db[g] \in DbRow
    BY <1>1 DEF KeepOK
  <2>2. PICK status : status = IF run[r].was[g] = "failed" THEN db[g].status ELSE "failed"
    OBVIOUS
  <2>3. PICK d : d = [db[g] EXCEPT !.status = status]
    OBVIOUS
  <2>4. status \in Statuses
    BY <2>1, <2>2 DEF DbRow, Statuses
  <2>5. d = [there |-> db[g].there, enabled |-> db[g].enabled, status |-> status, batches |-> db[g].batches]
    BY <2>1, <2>3 DEF DbRow
  <2>6. d \in DbRow /\ d.there = db[g].there
    BY <2>1, <2>4, <2>5 DEF DbRow
  <2>7. db' = [db EXCEPT ![g] = d]
    BY <1>1, <1>7, <2>1, <2>2, <2>3
  <2>8. db' \in [Providers -> DbRow]
    BY <1>1, <2>6, <2>7
  <2>9. ThereIn(db') = ThereIn(db)
    BY <1>1, <2>1, <2>6, <2>7 DEF ThereIn, Providers
  <2>10. PICK met : met = Met(r, {g})
    OBVIOUS
  <2>11. met \in [Runs -> SUBSET Providers]
    <3>1. \A k \in Runs : run[k].met \in SUBSET Providers
      BY <1>1 DEF RunSet
    <3> QED
      BY <2>1, <2>10, <3>1 DEF Met
  <2>12. run' = [other \in Runs |-> IF other = r THEN e ELSE [run[other] EXCEPT !.met = met[other]]]
    BY <1>3, <1>7, <2>10
  <2> QED
    BY <1>4, <2>8, <2>9, <2>11, <2>12, RecordedInv
<1>8. CASE RecordBegin(r)
  <2>1. CASE db[g].there
    BY <1>6, <1>8, <2>1
  <2>2. CASE ~db[g].there
    BY <1>3, <1>5, <1>8, <2>2 DEF RecordBegin
  <2> QED
    BY <2>1, <2>2
<1>9. CASE RecordCommit(r)
  <2>1. CASE run' = [run EXCEPT ![r] = Ended(r, run[r].cause)] /\ UNCHANGED db
    BY <1>3, <1>5, <2>1
  <2> QED
    BY <1>7, <1>9, <2>1 DEF RecordCommit
<1> QED
  BY <1>8, <1>9

LEMMA WorkInv ==
    ASSUME RInv, SInv, NEW r \in Runs, Work(r)
    PROVE  RInv'
<1>1. CASE DatabaseFails(r)
  BY <1>1, FailedInv DEF DatabaseFails, Causes
<1> QED
  BY <1>1, BeginInv, LoadInv, CommitInv, NotifyInv, RecordInv, FetchFailsInv, WriteInv DEF Work

\* The administrator and the process: rows change no more than a guide being
\* deleted, and a run goes on as it was or is cut short.
LEMMA OutsideInv ==
    ASSUME RInv, EditScheduler \/ (\E v \in Videos : ToggleSource(v)) \/ (\E p \in Providers : DeleteProvider(p)) \/ Restart
    PROVE  RInv'
<1>1. CASE EditScheduler
  <2>1. db' = db /\ run' = run
    BY <1>1 DEF EditScheduler, runVars
  <2> QED
    BY <2>1 DEF RInv
<1>2. ASSUME NEW v \in Videos, ToggleSource(v) PROVE RInv'
  <2>1. db[v] \in DbRow /\ v \in Providers /\ db \in [Providers -> DbRow]
    BY DEF RInv, Providers
  <2>2. PICK d : d = [db[v] EXCEPT !.enabled = ~@]
    OBVIOUS
  <2>3. d = [there |-> db[v].there, enabled |-> ~db[v].enabled, status |-> db[v].status, batches |-> db[v].batches]
    BY <2>1, <2>2 DEF DbRow
  <2>4. d \in DbRow /\ d.there = db[v].there
    BY <2>1, <2>3 DEF DbRow
  <2>5. db' = [db EXCEPT ![v] = d] /\ run' = run
    BY <1>2, <2>1, <2>2 DEF ToggleSource
  <2>6. db' \in [Providers -> DbRow] /\ ThereIn(db') \subseteq ThereIn(db)
    BY <2>1, <2>4, <2>5 DEF ThereIn, Providers
  <2> QED
    BY <2>5, <2>6, FewerGuides DEF RInv
<1>3. ASSUME NEW p \in Providers, DeleteProvider(p) PROVE RInv'
  <2>1. PICK d : d = [there |-> FALSE, enabled |-> FALSE, status |-> "never", batches |-> {}]
    OBVIOUS
  <2>2. d \in DbRow /\ ~d.there
    BY <2>1 DEF DbRow, Statuses
  <2>3. db' = [db EXCEPT ![p] = d] /\ run' = run
    BY <1>3, <2>1 DEF DeleteProvider
  <2>4. db' \in [Providers -> DbRow] /\ ThereIn(db') \subseteq ThereIn(db)
    BY <2>2, <2>3 DEF ThereIn, Providers, RInv
  <2> QED
    BY <2>3, <2>4, FewerGuides DEF RInv
<1>4. CASE Restart
  <2>1. run' = [r \in Runs |-> IF Active(r) THEN Ended(r, "restart") ELSE run[r]] /\ db' = db
    BY <1>4 DEF Restart
  <2>2. ASSUME NEW r \in Runs PROVE run'[r] \in RunSet /\ KeepOK(run'[r], db)
    <3>1. run[r] \in RunSet /\ KeepOK(run[r], db)
      BY DEF RInv
    <3>2. CASE Active(r)
      <4>1. PICK e : e = Ended(r, "restart")
        OBVIOUS
      <4>2. e \in RunSet /\ e.step = "ended" /\ e.cause = "restart" /\ e.told = {} /\ e.what = run[r].what /\ e.parts = run[r].parts
        BY <3>1, <4>1, EndedType DEF Causes
      <4>3. KeepOK(e, db)
        BY <3>1, <4>2 DEF KeepOK
      <4>4. run'[r] = e
        BY <2>1, <3>2, <4>1
      <4> QED
        BY <4>2, <4>3, <4>4
    <3>3. CASE ~Active(r)
      BY <2>1, <3>1, <3>3
    <3> QED
      BY <3>2, <3>3
  <2> QED
    BY <2>1, <2>2 DEF RInv
<1> QED
  BY <1>1, <1>2, <1>3, <1>4

(* What is known of every run: what it has loaded it has asked for, and what it
   asked for it has an answer to before it gets through. *)
THEOREM RunsInvariance == Spec => [](SInv /\ RInv)
<1>1. Init => RInv
  BY RunsInitially
<1>2. SInv /\ RInv /\ [Next]_vars => RInv'
  <2> SUFFICES ASSUME SInv, RInv, [Next]_vars PROVE RInv'
    OBVIOUS
  <2>1. CASE UNCHANGED vars
    BY <2>1 DEF vars, runVars, RInv
  <2> QED
    BY <2>1, WorkInv, StartInv, OutsideInv DEF Next
<1> QED
  BY <1>1, <1>2, SchedulerInvariance, PTL DEF Spec

(* A run that gets to its end keeps what each provider answered, has asked all
   the guides there are if they were part of it, and says whether one failed:
   for any number of providers, runs and schedules. *)
THEOREM RunsKeepWhatTheyGot == Spec => []RunKeepsWhatItGot
<1>1. RInv => RunKeepsWhatItGot
  <2> SUFFICES ASSUME RInv, NEW r \in Runs, run[r].step = "committed" \/ run[r].cause = "done" \/ run[r].told # {}
               PROVE  Through(run[r], db)
    BY DEF RunKeepsWhatItGot, Through, ThereIn, Full
  <2> QED
    BY DEF RInv, KeepOK
<1> QED
  BY <1>1, RunsInvariance, PTL

-----------------------------------------------------------------------------
(* A refresh whose notification failed *)

\* Only a URL that is none makes the notification fail, and only of guides is a
\* failure recorded in a session of its own.
NoteOK(x) ==
    /\ x.cause = "notify" => notifyBad
    /\ x.what = "single" /\ x.step \notin {"idle", "ended"} => x.own \in Guides

NInv == \A r \in Runs : NoteOK(run[r])

\* A step that changes one run.
LEMMA NOneRun ==
    ASSUME RInv, NInv, notifyBad' = notifyBad, NEW r \in Runs, NEW x, NoteOK(x), run' = [run EXCEPT ![r] = x]
    PROVE  NInv'
<1>1. \A k \in Runs : run'[k] = IF k = r THEN x ELSE run[k]
  BY DEF RInv
<1> QED
  BY <1>1 DEF NInv, NoteOK

LEMMA EndedNote ==
    ASSUME NEW r \in Runs, run[r] \in RunSet, NEW cause \in Causes, cause = "notify" => notifyBad
    PROVE  NoteOK(Ended(r, cause))
<1>1. Ended(r, cause).step = "ended" /\ Ended(r, cause).cause = cause
  BY EndedType
<1> QED
  BY <1>1 DEF NoteOK

\* A run that works: its cause and what it is about stay.
LEMMA NWorks ==
    ASSUME RInv, NInv, NEW r \in Runs, Active(r), NEW x, run' = [run EXCEPT ![r] = x], notifyBad' = notifyBad,
           x.what = run[r].what, x.own = run[r].own, x.cause = run[r].cause
    PROVE  NInv'
  BY NOneRun DEF NInv, NoteOK, Active

LEMMA NFailed ==
    ASSUME RInv, NInv, NEW r \in Runs, NEW cause \in Causes, Failed(r, cause), Active(r), cause = "notify" => notifyBad
    PROVE  NInv'
<1>1. run[r] \in RunSet /\ NoteOK(run[r]) /\ notifyBad' = notifyBad
  BY DEF RInv, NInv, Failed
<1>2. CASE run[r].what = "single"
  <2>1. PICK x : x = [run[r] EXCEPT !.step = "record", !.cause = cause]
    OBVIOUS
  <2>2. x.what = run[r].what /\ x.own = run[r].own /\ x.cause = cause
    BY <1>1, <2>1 DEF RunSet
  <2>3. NoteOK(x)
    BY <1>1, <1>2, <2>2 DEF NoteOK, Active
  <2>4. run' = [run EXCEPT ![r] = x]
    BY <1>2, <2>1 DEF Failed
  <2> QED
    BY <1>1, <2>3, <2>4, NOneRun
<1>3. CASE run[r].what # "single"
  <2>1. run' = [run EXCEPT ![r] = Ended(r, cause)]
    BY <1>3 DEF Failed
  <2> QED
    BY <1>1, <2>1, EndedNote, NOneRun
<1> QED
  BY <1>2, <1>3

\* What another run's commit notes of this one is none of this.
LEMMA NRecorded ==
    ASSUME RInv, NInv, NEW r \in Runs, NEW x, NoteOK(x), NEW ps, notifyBad' = notifyBad,
           run' = [other \in Runs |-> IF other = r THEN x ELSE [run[other] EXCEPT !.met = Met(r, ps)[other]]]
    PROVE  NInv'
<1> SUFFICES ASSUME NEW k \in Runs, k # r PROVE NoteOK(run'[k])
  BY DEF NInv, NoteOK
<1>1. run[k] \in RunSet /\ NoteOK(run[k])
  BY DEF RInv, NInv
<1>2. PICK met : met = Met(r, ps)[k]
  OBVIOUS
<1>3. run'[k] = [run[k] EXCEPT !.met = met]
  BY <1>2
<1>4. run'[k].what = run[k].what /\ run'[k].own = run[k].own /\ run'[k].cause = run[k].cause /\ run'[k].step = run[k].step
  BY <1>1, <1>3 DEF RunSet
<1> QED
  BY <1>1, <1>4 DEF NoteOK

LEMMA NStart == ASSUME RInv, NInv, NEW r \in Runs, Start(r) PROVE NInv'
<1>1. PICK what, own, parts : Started(r, what, own, parts) /\ (what = "single" => own \in Guides)
  BY DEF Start, Fire, StartManual, StartJob
<1>2. PICK x : x = [NoRun EXCEPT !.step = "begin", !.what = what, !.own = own, !.parts = parts, !.left = parts, !.id = events']
  OBVIOUS
<1>3. x.what = what /\ x.own = own /\ x.cause = "none"
  BY <1>2 DEF NoRun
<1>4. run' = [run EXCEPT ![r] = x] /\ notifyBad' = notifyBad
  BY <1>1, <1>2 DEF Started
<1> QED
  BY <1>1, <1>3, <1>4, NOneRun DEF NoteOK

LEMMA NWork == ASSUME RInv, NInv, NEW r \in Runs, Work(r) PROVE NInv'
<1>1. run[r] \in RunSet /\ NoteOK(run[r])
  BY DEF RInv, NInv
<1>2. CASE Begin(r)
  <2>1. Active(r) /\ notifyBad' = notifyBad
    BY <1>2 DEF Begin, Active
  <2>2. CASE run' = [run EXCEPT ![r] = Ended(r, "nothing to do")]
    BY <1>1, <2>1, <2>2, EndedNote, NOneRun DEF Causes
  <2>3. ASSUME NEW parts, run' = [run EXCEPT ![r] = [@ EXCEPT !.step = "load", !.parts = parts, !.left = parts]] PROVE NInv'
    <3>1. PICK x : x = [run[r] EXCEPT !.step = "load", !.parts = parts, !.left = parts]
      OBVIOUS
    <3>2. x.what = run[r].what /\ x.own = run[r].own /\ x.cause = run[r].cause
      BY <1>1, <3>1 DEF RunSet
    <3> QED
      BY <2>1, <2>3, <3>1, <3>2, NWorks
  <2> QED
    BY <1>2, <2>2, <2>3 DEF Begin
<1>3. CASE Load(r)
  <2>1. Active(r) /\ notifyBad' = notifyBad
    BY <1>3 DEF Load, Active
  <2>2. PICK left, todo, was, out, gone :
           run' = [run EXCEPT ![r] = [run[r] EXCEPT !.step = "work", !.left = left, !.todo = todo, !.was = was, !.out = out, !.gone = gone]]
    BY <1>3 DEF Load
  <2>3. PICK x : x = [run[r] EXCEPT !.step = "work", !.left = left, !.todo = todo, !.was = was, !.out = out, !.gone = gone]
    OBVIOUS
  <2>4. x.what = run[r].what /\ x.own = run[r].own /\ x.cause = run[r].cause
    BY <1>1, <2>3 DEF RunSet
  <2> QED
    BY <2>1, <2>2, <2>3, <2>4, NWorks
<1>4. CASE DatabaseFails(r)
  BY <1>4, NFailed DEF DatabaseFails, Active, Causes
<1>5. ASSUME NEW p \in Providers, FetchFails(r, p) PROVE NInv'
  <2>1. Active(r) /\ notifyBad' = notifyBad
    BY <1>5 DEF FetchFails, Active, Failed
  <2>2. CASE Failed(r, "fetch")
    BY <2>1, <2>2, NFailed DEF Causes
  <2>3. CASE run' = [run EXCEPT ![r].todo = @ \ {p}, ![r].out[p] = "failed"]
    <3>1. PICK todo, out : todo = run[r].todo \ {p} /\ out = [run[r].out EXCEPT ![p] = "failed"]
      OBVIOUS
    <3>2. PICK x : x = [run[r] EXCEPT !.todo = todo, !.out = out]
      OBVIOUS
    <3>3. x.what = run[r].what /\ x.own = run[r].own /\ x.cause = run[r].cause
      BY <1>1, <3>2 DEF RunSet
    <3>4. run' = [run EXCEPT ![r] = x]
      BY <1>1, <2>3, <3>1, <3>2 DEF RunSet, RInv
    <3> QED
      BY <2>1, <3>3, <3>4, NWorks
  <2> QED
    BY <1>5, <2>2, <2>3 DEF FetchFails
<1>6. ASSUME NEW p \in Providers, Write(r, p) PROVE NInv'
  <2>1. Active(r) /\ notifyBad' = notifyBad
    BY <1>6 DEF Write, Active
  <2>2. run' = [run EXCEPT ![r].todo = @ \ {p}, ![r].out[p] = "success", ![r].gone[p] = db[p].batches]
    BY <1>6 DEF Write
  <2>3. PICK todo, out, gone : /\ todo = run[r].todo \ {p} /\ out = [run[r].out EXCEPT ![p] = "success"]
                              /\ gone = [run[r].gone EXCEPT ![p] = db[p].batches]
    OBVIOUS
  <2>4. PICK x : x = [run[r] EXCEPT !.todo = todo, !.out = out, !.gone = gone]
    OBVIOUS
  <2>5. x.what = run[r].what /\ x.own = run[r].own /\ x.cause = run[r].cause
    BY <1>1, <2>4 DEF RunSet
  <2>6. run' = [run EXCEPT ![r] = x]
    BY <1>1, <2>2, <2>3, <2>4 DEF RunSet, RInv
  <2> QED
    BY <2>1, <2>5, <2>6, NWorks
<1>7. CASE Commit(r)
  <2>1. Active(r) /\ notifyBad' = notifyBad
    BY <1>7 DEF Commit, Active
  <2>2. PICK row : row = IF Full(r) THEN Outcome(r) ELSE "none"
    OBVIOUS
  <2>3. PICK x : x = [run[r] EXCEPT !.step = "committed", !.kept = TRUE, !.was = <<>>, !.gone = <<>>, !.met = {}, !.row = row]
    OBVIOUS
  <2>4. x.what = run[r].what /\ x.own = run[r].own /\ x.cause = run[r].cause
    BY <1>1, <2>3 DEF RunSet
  <2>5. NoteOK(x)
    BY <1>1, <2>1, <2>4 DEF NoteOK, Active
  <2>6. PICK ps : run' = [other \in Runs |-> IF other = r THEN x ELSE [run[other] EXCEPT !.met = Met(r, ps)[other]]]
    BY <1>7, <2>2, <2>3 DEF Commit
  <2> QED
    BY <2>1, <2>5, <2>6, NRecorded
<1>8. CASE Notify(r)
  <2>1. Active(r) /\ notifyBad' = notifyBad
    BY <1>8 DEF Notify, Active, Failed
  <2>2. CASE notifyBad /\ Failed(r, "notify")
    BY <2>1, <2>2, NFailed DEF Causes
  <2>3. CASE run' = [run EXCEPT ![r] = [Ended(r, "done") EXCEPT !.told = run[r].parts]]
    <3>1. PICK e : e = Ended(r, "done")
      OBVIOUS
    <3>2. e \in RunSet /\ e.step = "ended" /\ e.cause = "done"
      BY <1>1, <3>1, EndedType DEF Causes
    <3>3. PICK x : x = [e EXCEPT !.told = run[r].parts]
      OBVIOUS
    <3>4. x.step = "ended" /\ x.cause = "done"
      BY <3>2, <3>3 DEF RunSet
    <3>5. run' = [run EXCEPT ![r] = x]
      BY <2>3, <3>1, <3>3
    <3> QED
      BY <2>1, <3>4, <3>5, NOneRun DEF NoteOK
  <2> QED
    BY <1>8, <2>2, <2>3 DEF Notify
<1>9. run[r].cause \in Causes
  BY <1>1 DEF RunSet
<1>10. NoteOK(Ended(r, run[r].cause))
  BY <1>1, <1>9, EndedNote DEF NoteOK
<1>11. CASE RecordBegin(r)
  <2>1. Active(r) /\ notifyBad' = notifyBad
    BY <1>11 DEF RecordBegin, Active
  <2>2. CASE run' = [run EXCEPT ![r] = Ended(r, run[r].cause)]
    BY <1>10, <2>1, <2>2, NOneRun
  <2>3. ASSUME NEW was, run' = [run EXCEPT ![r] = [@ EXCEPT !.step = "recording", !.was = was, !.met = {}]] PROVE NInv'
    <3>1. PICK x : x = [run[r] EXCEPT !.step = "recording", !.was = was, !.met = {}]
      OBVIOUS
    <3>2. x.what = run[r].what /\ x.own = run[r].own /\ x.cause = run[r].cause
      BY <1>1, <3>1 DEF RunSet
    <3> QED
      BY <2>1, <2>3, <3>1, <3>2, NWorks
  <2> QED
    BY <1>11, <2>2, <2>3 DEF RecordBegin
<1>12. CASE RecordCommit(r)
  <2>1. notifyBad' = notifyBad
    BY <1>12 DEF RecordCommit
  <2>2. CASE run' = [run EXCEPT ![r] = Ended(r, run[r].cause)]
    BY <1>10, <2>1, <2>2, NOneRun
  <2>3. ASSUME NEW ps, run' = [other \in Runs |-> IF other = r THEN Ended(r, run[r].cause)
                                                  ELSE [run[other] EXCEPT !.met = Met(r, ps)[other]]]
        PROVE  NInv'
    BY <1>10, <2>1, <2>3, NRecorded
  <2> QED
    BY <1>12, <2>2, <2>3 DEF RecordCommit
<1> QED
  BY <1>2, <1>3, <1>4, <1>5, <1>6, <1>7, <1>8, <1>11, <1>12 DEF Work

LEMMA NotifyStays == [Next]_vars => notifyBad' = notifyBad
<1>1. ASSUME NEW r \in Runs, Work(r) PROVE notifyBad' = notifyBad
  BY <1>1 DEF Work, Begin, Load, Commit, Notify, RecordBegin, RecordCommit, FetchFails, Write, DatabaseFails, Failed
<1>2. ASSUME NEW r \in Runs, Start(r) PROVE notifyBad' = notifyBad
  BY <1>2 DEF Start, Fire, StartManual, StartJob, Started
<1> QED
  BY <1>1, <1>2 DEF Next, EditScheduler, ToggleSource, DeleteProvider, Restart, vars, runVars

(* The notification of a run fails only where the URL is none, and only the
   refresh of a guide records that in a session of its own. *)
THEOREM NotifyInvariance == Spec => []NInv
<1>1. Init => NInv
  BY DEF Init, NInv, NoteOK, NoRun
<1>2. RInv /\ NInv /\ [Next]_vars => NInv'
  <2> SUFFICES ASSUME RInv, NInv, [Next]_vars PROVE NInv'
    OBVIOUS
  <2>1. notifyBad' = notifyBad
    BY NotifyStays
  <2>2. CASE run' = run
    BY <2>1, <2>2 DEF NInv, NoteOK
  <2>3. CASE Restart
    <3> SUFFICES ASSUME NEW r \in Runs PROVE NoteOK(run'[r])
      BY <2>1 DEF NInv, NoteOK
    <3>1. run[r] \in RunSet /\ NoteOK(run[r])
      BY DEF RInv, NInv
    <3>2. NoteOK(Ended(r, "restart"))
      BY <3>1, EndedNote DEF Causes
    <3> QED
      BY <2>3, <3>1, <3>2 DEF Restart
  <2> QED
    BY <2>2, <2>3, NWork, NStart DEF Next, EditScheduler, ToggleSource, DeleteProvider, vars, runVars
<1> QED
  BY <1>1, <1>2, RunsInvariance, PTL DEF Spec

-----------------------------------------------------------------------------
(* What a refresh leaves *)

\* What a run x has loaded and replaced is what is there, until another run
\* records something of it.
LoadedOK(x, d) ==
    /\ x.todo \subseteq DOMAIN x.out
    /\ x.step \in {"begin", "load"} => x.was = <<>> /\ x.gone = <<>>
    /\ x.step = "work" => DOMAIN x.was = DOMAIN x.out /\ DOMAIN x.gone = DOMAIN x.out
    /\ x.step = "recording" => DOMAIN x.was = {x.own}
    /\ x.step \in {"work", "recording"} => \A p \in DOMAIN x.was \ x.met : d[p].there => d[p].status = x.was[p]
    /\ x.step = "work" => \A p \in DOMAIN x.out \ x.met : x.out[p] = "success" /\ d[p].there => d[p].batches = x.gone[p]

IdOK(x, n) == x.id \in 0..n /\ (x.step \notin {"idle", "ended"} => x.id # 0)

RowOK(row, n, p) == row.batches \subseteq 1..n /\ (p \in Videos => row.batches = {})

LastOK(row, status, p) ==
    /\ row.status = status \/ (notifyBad /\ p \in Guides /\ row.status = "failed")
    /\ Cardinality(row.batches) <= 1

HTypes == DOMAIN last = Providers /\ DOMAIN overlapped = Providers

HInv ==
    /\ events \in 0..MaxEvents /\ HTypes
    /\ \A r \in Runs : LoadedOK(run[r], db) /\ IdOK(run[r], events)
    /\ \A p \in Providers : RowOK(db[p], events, p)
    /\ \A p \in Providers : overlapped[p] \/ LastOK(db[p], last[p], p)

LEMMA EndedIsOK ==
    ASSUME NEW r \in Runs, run[r] \in RunSet, NEW cause \in Causes, NEW d, NEW n \in Nat
    PROVE  LoadedOK(Ended(r, cause), d) /\ IdOK(Ended(r, cause), n)
<1>1. Ended(r, cause).step = "ended" /\ Ended(r, cause).todo = {} /\ Ended(r, cause).id = 0
  BY EndedType
<1> QED
  BY <1>1 DEF LoadedOK, IdOK

LEMMA HInitially == Init => HInv
<1> SUFFICES ASSUME Init PROVE HInv
  OBVIOUS
<1>1. events = 0 /\ MaxEvents \in Nat
  BY SchedulerAssumptions DEF Init, SchedulerInit
<1>2. \A r \in Runs : run[r] = NoRun
  BY DEF Init
<1>3. NoRun.step = "idle" /\ NoRun.todo = {} /\ NoRun.id = 0
  BY DEF NoRun
<1>4. \A r \in Runs : LoadedOK(run[r], db) /\ IdOK(run[r], events)
  BY <1>1, <1>2, <1>3 DEF LoadedOK, IdOK
<1>5. \A p \in Providers : db[p].status = "never" /\ db[p].batches = {} /\ last[p] = "never"
  BY DEF Init
<1>6. Cardinality({}) = 0
  BY FS_EmptySet
<1>7. \A p \in Providers : RowOK(db[p], events, p)
  BY <1>5 DEF RowOK
<1>8. ASSUME NEW p \in Providers PROVE LastOK(db[p], last[p], p)
  <2>1. Cardinality(db[p].batches) = Cardinality({})
    BY <1>5
  <2> QED
    BY <1>5, <1>6, <2>1 DEF LastOK
<1>9. HTypes
  BY DEF Init, HTypes
<1> QED
  BY <1>1, <1>4, <1>7, <1>8, <1>9 DEF HInv

\* Events are counted, and nothing else depends on how many there were.
LEMMA MoreEvents ==
    ASSUME NEW n \in Nat, NEW m \in Nat, n <= m
    PROVE  /\ \A x : IdOK(x, n) => IdOK(x, m)
           /\ \A row, p : RowOK(row, n, p) => RowOK(row, m, p)
  BY DEF IdOK, RowOK

\* A step that changes one run and no row.
LEMMA HOneRun ==
    ASSUME RInv, HInv, notifyBad' = notifyBad, NEW r \in Runs, NEW x, LoadedOK(x, db), IdOK(x, events'),
           run' = [run EXCEPT ![r] = x], db' = db, last' = last, overlapped' = overlapped,
           events' \in events..MaxEvents
    PROVE  HInv'
<1>1. events \in Nat /\ events' \in Nat /\ events <= events' /\ events' \in 0..MaxEvents
  BY SchedulerAssumptions DEF HInv
<1>2. \A k \in Runs : run'[k] = IF k = r THEN x ELSE run[k]
  BY DEF RInv
<1>3. \A k \in Runs : LoadedOK(run'[k], db') /\ IdOK(run'[k], events')
  BY <1>1, <1>2, MoreEvents DEF HInv
<1>4. \A p \in Providers : RowOK(db'[p], events', p)
  BY <1>1, MoreEvents DEF HInv
<1>5. \A p \in Providers : overlapped'[p] \/ LastOK(db'[p], last'[p], p)
  BY DEF HInv
<1> QED
  BY <1>1, <1>3, <1>4, <1>5 DEF HInv, HTypes, LastOK

LEMMA HStarted ==
    ASSUME RInv, HInv, notifyBad' = notifyBad, NEW r \in Runs, NEW what, NEW own, NEW parts, Started(r, what, own, parts)
    PROVE  HInv'
<1>1. PICK x : x = [NoRun EXCEPT !.step = "begin", !.what = what, !.own = own, !.parts = parts, !.left = parts, !.id = events']
  OBVIOUS
<1>2. x = [step |-> "begin", what |-> what, id |-> events', own |-> own, parts |-> parts,
           left |-> parts, todo |-> NoRun.todo, was |-> NoRun.was, out |-> NoRun.out, gone |-> NoRun.gone,
           met |-> NoRun.met, row |-> NoRun.row, kept |-> NoRun.kept, told |-> NoRun.told, cause |-> NoRun.cause]
  BY <1>1, NoRunType DEF RunSet
<1>3. events' = events + 1 /\ events' \in events..MaxEvents /\ events' \in Nat
  BY SchedulerAssumptions DEF Started, Event, HInv
<1>4. NoRun.out = <<>> /\ NoRun.was = <<>> /\ NoRun.gone = <<>> /\ NoRun.todo = {}
  BY DEF NoRun
<1>5. x.step = "begin" /\ x.id = events' /\ x.todo = {} /\ x.was = <<>> /\ x.gone = <<>>
  BY <1>2, <1>4
<1>6. LoadedOK(x, db) /\ IdOK(x, events')
  BY <1>3, <1>5, SchedulerAssumptions DEF LoadedOK, IdOK, HInv
<1>7. run' = [run EXCEPT ![r] = x] /\ db' = db /\ last' = last /\ overlapped' = overlapped
  BY <1>1 DEF Started
<1> QED
  BY <1>3, <1>6, <1>7, HOneRun

LEMMA HStart == ASSUME RInv, HInv, notifyBad' = notifyBad, NEW r \in Runs, Start(r) PROVE HInv'
<1>1. \E what, own, parts : Started(r, what, own, parts)
  BY DEF Start, Fire, StartManual, StartJob
<1> QED
  BY <1>1, HStarted

\* What a step of a run leaves alone.
LEMMA HStays ==
    ASSUME HInv, UNCHANGED schedulerVars
    PROVE  events' = events /\ events' \in events..MaxEvents /\ events \in Nat
  BY SchedulerAssumptions DEF HInv, schedulerVars

LEMMA HBegin == ASSUME RInv, HInv, notifyBad' = notifyBad, NEW r \in Runs, Begin(r) PROVE HInv'
<1> DEFINE s == run[r].own
           dead == IF run[r].what = "scheduled" THEN ~Enabled(s) ELSE IsJob(r) /\ ~Contains(table, run[r].id)
           parts == IF run[r].what = "scheduled" THEN schedules[s].parts ELSE run[r].parts
<1>1. /\ run[r] \in RunSet /\ LoadedOK(run[r], db) /\ IdOK(run[r], events) /\ run[r].step = "begin"
      /\ db' = db /\ last' = last /\ overlapped' = overlapped /\ UNCHANGED schedulerVars
  BY DEF RInv, HInv, Begin
<1>2. CASE dead
  <2>1. run' = [run EXCEPT ![r] = Ended(r, "nothing to do")]
    BY <1>2 DEF Begin
  <2>2. LoadedOK(Ended(r, "nothing to do"), db) /\ IdOK(Ended(r, "nothing to do"), events')
    BY <1>1, HStays, EndedIsOK DEF Causes
  <2> QED
    BY <1>1, <2>1, <2>2, HStays, HOneRun
<1>3. CASE ~dead
  <2>1. PICK x : x = [run[r] EXCEPT !.step = "load", !.parts = parts, !.left = parts]
    OBVIOUS
  <2>2. /\ x.step = "load" /\ x.id = run[r].id /\ x.todo = run[r].todo /\ x.was = run[r].was /\ x.gone = run[r].gone
        /\ x.out = run[r].out
    BY <1>1, <2>1 DEF RunSet
  <2>3. LoadedOK(x, db) /\ IdOK(x, events)
    BY <1>1, <2>2 DEF LoadedOK, IdOK
  <2>4. run' = [run EXCEPT ![r] = x]
    BY <1>3, <2>1 DEF Begin
  <2> QED
    BY <1>1, <2>3, <2>4, HStays, HOneRun
<1> QED
  BY <1>2, <1>3

LEMMA HLoad == ASSUME RInv, HInv, notifyBad' = notifyBad, NEW r \in Runs, Load(r) PROVE HInv'
<1> DEFINE kind == IF "sources" \in run[r].left THEN "sources" ELSE "epg"
           ps == IF run[r].left = {} THEN {} ELSE Selected(r, kind)
<1>1. /\ run[r] \in RunSet /\ LoadedOK(run[r], db) /\ IdOK(run[r], events) /\ run[r].step \in {"load", "work"}
      /\ db' = db /\ last' = last /\ overlapped' = overlapped /\ UNCHANGED schedulerVars
      /\ run[r].step = "load" => run[r].out = <<>>
  BY DEF RInv, HInv, Load, KeepOK
<1> HIDE DEF ps
<1>2. PICK was, out, gone : /\ was = With(run[r].was, [p \in ps |-> db[p].status])
                            /\ out = With(run[r].out, [p \in ps |-> "none"])
                            /\ gone = With(run[r].gone, [p \in ps |-> {}])
  OBVIOUS
<1>3. PICK x : x = [run[r] EXCEPT !.step = "work", !.left = @ \ {kind}, !.todo = ps, !.was = was, !.out = out, !.gone = gone]
  OBVIOUS
<1>4. /\ x.step = "work" /\ x.id = run[r].id /\ x.todo = ps /\ x.was = was /\ x.out = out /\ x.gone = gone /\ x.met = run[r].met
  BY <1>1, <1>3 DEF RunSet
<1>5. run' = [run EXCEPT ![r] = x]
  BY <1>2, <1>3 DEF Load, ps
<1>6. DOMAIN run[r].was = DOMAIN run[r].out /\ DOMAIN run[r].gone = DOMAIN run[r].out
  BY <1>1 DEF LoadedOK
<1>7. /\ DOMAIN was = ps \union DOMAIN run[r].was
      /\ \A p \in DOMAIN was : was[p] = IF p \in ps THEN db[p].status ELSE run[r].was[p]
  BY <1>2 DEF With
<1>8. /\ DOMAIN out = ps \union DOMAIN run[r].out
      /\ \A p \in DOMAIN out : out[p] = IF p \in ps THEN "none" ELSE run[r].out[p]
  BY <1>2 DEF With
<1>9. /\ DOMAIN gone = ps \union DOMAIN run[r].gone
      /\ \A p \in DOMAIN gone : gone[p] = IF p \in ps THEN {} ELSE run[r].gone[p]
  BY <1>2 DEF With
<1>10. ASSUME NEW p \in DOMAIN was \ run[r].met, db[p].there PROVE db[p].status = was[p]
  <2>1. CASE p \in ps
    BY <2>1, <1>7
  <2>2. CASE p \notin ps
    <3>1. p \in DOMAIN run[r].was /\ was[p] = run[r].was[p]
      BY <2>2, <1>7
    <3>2. run[r].step = "work"
      BY <3>1, <1>1 DEF LoadedOK
    <3> QED
      BY <3>1, <3>2, <1>1, <1>10 DEF LoadedOK
  <2> QED
    BY <2>1, <2>2
<1>11. ASSUME NEW p \in DOMAIN out \ run[r].met, out[p] = "success", db[p].there PROVE db[p].batches = gone[p]
  <2>1. p \notin ps /\ p \in DOMAIN run[r].out /\ run[r].out[p] = "success" /\ gone[p] = run[r].gone[p]
    BY <1>6, <1>8, <1>9, <1>11
  <2>2. run[r].step = "work"
    BY <2>1, <1>1
  <2> QED
    BY <2>1, <2>2, <1>1, <1>11 DEF LoadedOK
<1>12. LoadedOK(x, db) /\ IdOK(x, events)
  BY <1>1, <1>4, <1>6, <1>7, <1>8, <1>9, <1>10, <1>11 DEF LoadedOK, IdOK
<1> QED
  BY <1>1, <1>5, <1>12, HStays, HOneRun

LEMMA HFailed ==
    ASSUME RInv, HInv, notifyBad' = notifyBad, NEW r \in Runs, NEW cause \in Causes, Failed(r, cause), run[r].step \notin {"idle", "ended"}
    PROVE  HInv'
<1>1. /\ run[r] \in RunSet /\ LoadedOK(run[r], db) /\ IdOK(run[r], events)
      /\ db' = db /\ last' = last /\ overlapped' = overlapped /\ UNCHANGED schedulerVars
  BY DEF RInv, HInv, Failed
<1>2. CASE run[r].what = "single"
  <2>1. PICK x : x = [run[r] EXCEPT !.step = "record", !.cause = cause]
    OBVIOUS
  <2>2. x.step = "record" /\ x.id = run[r].id /\ x.todo = run[r].todo /\ x.out = run[r].out
    BY <1>1, <2>1 DEF RunSet
  <2>3. LoadedOK(x, db) /\ IdOK(x, events)
    BY <1>1, <2>2 DEF LoadedOK, IdOK
  <2>4. run' = [run EXCEPT ![r] = x]
    BY <1>2, <2>1 DEF Failed
  <2> QED
    BY <1>1, <2>3, <2>4, HStays, HOneRun
<1>3. CASE run[r].what # "single"
  <2>1. run' = [run EXCEPT ![r] = Ended(r, cause)]
    BY <1>3 DEF Failed
  <2>2. LoadedOK(Ended(r, cause), db) /\ IdOK(Ended(r, cause), events')
    BY <1>1, HStays, EndedIsOK
  <2> QED
    BY <1>1, <2>1, <2>2, HStays, HOneRun
<1> QED
  BY <1>2, <1>3

\* A provider has answered or not.
\* x is y with the answer of p; its rows, if there are any, replace those of d.
AnswerOf(y, p, d, x) ==
    /\ x.step = "work" /\ x.id = y.id /\ x.todo = y.todo \ {p} /\ x.was = y.was /\ x.met = y.met
    /\ DOMAIN x.out = DOMAIN y.out /\ \A q \in DOMAIN y.out \ {p} : x.out[q] = y.out[q]
    /\ DOMAIN x.gone = DOMAIN y.gone /\ \A q \in DOMAIN y.gone \ {p} : x.gone[q] = y.gone[q]
    /\ x.out[p] = "success" => x.gone[p] = d[p].batches

LEMMA HAnswered ==
    ASSUME NEW d, NEW y, NEW p, NEW x, NEW n, LoadedOK(y, d), IdOK(y, n), y.step = "work", AnswerOf(y, p, d, x)
    PROVE  LoadedOK(x, d) /\ IdOK(x, n)
<1> USE DEF AnswerOf
<1>1. ASSUME NEW q \in DOMAIN x.out \ x.met, x.out[q] = "success", d[q].there PROVE d[q].batches = x.gone[q]
  <2>1. CASE q = p
    BY <2>1, <1>1
  <2>2. CASE q # p
    <3>1. q \in DOMAIN y.out \ y.met /\ q \in DOMAIN y.gone /\ y.out[q] = "success" /\ x.gone[q] = y.gone[q]
      BY <2>2, <1>1 DEF LoadedOK
    <3> QED
      BY <3>1, <1>1 DEF LoadedOK
  <2> QED
    BY <2>1, <2>2
<1> QED
  BY <1>1 DEF LoadedOK, IdOK

LEMMA HFetchFails == ASSUME RInv, HInv, notifyBad' = notifyBad, NEW r \in Runs, NEW p \in Providers, FetchFails(r, p) PROVE HInv'
<1>1. CASE Failed(r, "fetch")
  BY <1>1, HFailed DEF FetchFails, Causes
<1>2. CASE run' = [run EXCEPT ![r].todo = @ \ {p}, ![r].out[p] = "failed"] /\ db' = db /\ last' = last /\ overlapped' = overlapped
           /\ UNCHANGED schedulerVars
  <2>1. run[r] \in RunSet /\ run \in [Runs -> RunSet] /\ p \in run[r].todo /\ run[r].step = "work"
    BY DEF RInv, FetchFails
  <2>2. PICK out : out = [run[r].out EXCEPT ![p] = "failed"]
    OBVIOUS
  <2>3. PICK x : x = [run[r] EXCEPT !.todo = @ \ {p}, !.out = out]
    OBVIOUS
  <2>4. /\ x.step = "work" /\ x.id = run[r].id /\ x.todo = run[r].todo \ {p} /\ x.was = run[r].was /\ x.out = out
        /\ x.gone = run[r].gone /\ x.met = run[r].met
    BY <2>1, <2>3 DEF RunSet
  <2>5. run' = [run EXCEPT ![r] = x]
    BY <1>2, <2>1, <2>2, <2>3 DEF RunSet
  <2>6. AnswerOf(run[r], p, db, x)
    <3>1. DOMAIN out = DOMAIN run[r].out /\ (\A q \in DOMAIN out \ {p} : out[q] = run[r].out[q]) /\ out[p] # "success"
      <4>1. p \in DOMAIN run[r].out
        BY <2>1 DEF HInv, LoadedOK
      <4> QED
        BY <2>2, <4>1
    <3> QED
      BY <3>1, <2>4 DEF AnswerOf
  <2>7. LoadedOK(x, db) /\ IdOK(x, events)
    BY <2>1, <2>6, HAnswered DEF HInv
  <2>8. events' = events /\ events' \in events..MaxEvents
    BY <1>2, HStays
  <2> QED
    BY <1>2, <2>5, <2>7, <2>8, HOneRun
<1> QED
  BY <1>1, <1>2 DEF FetchFails

LEMMA HWrite == ASSUME RInv, HInv, notifyBad' = notifyBad, NEW r \in Runs, NEW p \in Providers, Write(r, p) PROVE HInv'
<1>1. /\ run[r] \in RunSet /\ run \in [Runs -> RunSet] /\ p \in run[r].todo /\ run[r].step = "work"
      /\ db' = db /\ last' = last /\ overlapped' = overlapped /\ UNCHANGED schedulerVars
  BY DEF RInv, Write
<1>2. PICK out, gone : out = [run[r].out EXCEPT ![p] = "success"] /\ gone = [run[r].gone EXCEPT ![p] = db[p].batches]
  OBVIOUS
<1>3. PICK x : x = [run[r] EXCEPT !.todo = @ \ {p}, !.out = out, !.gone = gone]
  OBVIOUS
<1>4. /\ x.step = "work" /\ x.id = run[r].id /\ x.todo = run[r].todo \ {p} /\ x.was = run[r].was /\ x.out = out
      /\ x.gone = gone /\ x.met = run[r].met
  BY <1>1, <1>3 DEF RunSet
<1>5. run' = [run EXCEPT ![r].todo = @ \ {p}, ![r].out[p] = "success", ![r].gone[p] = db[p].batches]
  BY DEF Write
<1>6. run' = [run EXCEPT ![r] = x]
  BY <1>1, <1>2, <1>3, <1>5 DEF RunSet
<1>7. /\ DOMAIN gone = DOMAIN run[r].gone /\ \A q \in DOMAIN gone \ {p} : gone[q] = run[r].gone[q]
      /\ gone[p] = db[p].batches
  <2>1. p \in DOMAIN run[r].gone
    BY <1>1 DEF HInv, LoadedOK
  <2> QED
    BY <1>2, <2>1
<1>8. DOMAIN out = DOMAIN run[r].out /\ \A q \in DOMAIN out \ {p} : out[q] = run[r].out[q]
  BY <1>2
<1>9. AnswerOf(run[r], p, db, x)
  BY <1>4, <1>7, <1>8 DEF AnswerOf
<1>10. LoadedOK(x, db) /\ IdOK(x, events)
  BY <1>1, <1>9, HAnswered DEF HInv
<1> QED
  BY <1>1, <1>6, <1>10, HStays, HOneRun

\* Whoever has loaded what is recorded of ps notes it.
LEMMA MetNoted ==
    ASSUME RInv, NEW r \in Runs, NEW k \in Runs, k # r, NEW ps, LoadedOK(run[k], db), NEW d, \A p \in Providers \ ps : d[p] = db[p],
           NEW m, m = Met(r, ps)[k], NEW x, x = [run[k] EXCEPT !.met = m], NEW n, IdOK(run[k], n)
    PROVE  LoadedOK(x, d) /\ IdOK(x, n)
<1>1. run[k] \in RunSet
  BY DEF RInv
<1>2. /\ x.step = run[k].step /\ x.id = run[k].id /\ x.todo = run[k].todo /\ x.was = run[k].was /\ x.out = run[k].out
      /\ x.gone = run[k].gone /\ x.own = run[k].own /\ x.met = m
  BY <1>1 DEF RunSet
<1>3. m = run[k].met \union {p \in ps : Loaded(k, p)}
  BY DEF Met
<1>4. run[k].step \in {"work", "recording"} => \A p \in DOMAIN run[k].was \ m : p \notin run[k].met /\ d[p] = db[p]
  <2>1. DOMAIN run[k].was \subseteq Providers
    BY <1>1 DEF RunSet, StatusFns, Fns
  <2> QED
    BY <1>3, <2>1 DEF Loaded
<1>5. x.step \in {"work", "recording"} => \A p \in DOMAIN x.was \ x.met : d[p].there => d[p].status = x.was[p]
  BY <1>2, <1>4 DEF LoadedOK
<1>6. x.step = "work" => \A p \in DOMAIN x.out \ x.met : x.out[p] = "success" /\ d[p].there => d[p].batches = x.gone[p]
  BY <1>2, <1>4 DEF LoadedOK
<1> QED
  BY <1>2, <1>5, <1>6 DEF LoadedOK, IdOK

\* What is recorded of ps is noted by each of the other runs.
LEMMA OthersNoted ==
    ASSUME RInv, NEW r \in Runs, NEW ps, NEW d, \A p \in Providers \ ps : d[p] = db[p],
           NEW k \in Runs, k # r, LoadedOK(run[k], db), IdOK(run[k], events)
    PROVE  LET y == [run[k] EXCEPT !.met = Met(r, ps)[k]] IN LoadedOK(y, d) /\ IdOK(y, events)
<1>1. PICK m : m = Met(r, ps)[k]
  OBVIOUS
<1>2. PICK y : y = [run[k] EXCEPT !.met = m]
  OBVIOUS
<1>3. LoadedOK(y, d) /\ IdOK(y, events)
  BY <1>1, <1>2, MetNoted
<1> QED
  BY <1>1, <1>2, <1>3

LEMMA HRecorded ==
    ASSUME RInv, HInv, notifyBad' = notifyBad, NEW r \in Runs, NEW x, NEW ps, \A p \in Providers \ ps : db'[p] = db[p],
           LoadedOK(x, db'), IdOK(x, events),
           run' = [other \in Runs |-> IF other = r THEN x ELSE [run[other] EXCEPT !.met = Met(r, ps)[other]]],
           \A p \in Providers : RowOK(db'[p], events, p) /\ (overlapped'[p] \/ LastOK(db'[p], last'[p], p)),
           HTypes', events' = events
    PROVE  HInv'
<1>1. ASSUME NEW k \in Runs PROVE LoadedOK(run'[k], db') /\ IdOK(run'[k], events)
  <2>1. CASE k = r
    BY <2>1
  <2>2. CASE k # r
    <3>1. LoadedOK(run[k], db) /\ IdOK(run[k], events)
      BY DEF HInv
    <3>2. run'[k] = [run[k] EXCEPT !.met = Met(r, ps)[k]]
      BY <2>2
    <3>3. LET y == [run[k] EXCEPT !.met = Met(r, ps)[k]] IN LoadedOK(y, db') /\ IdOK(y, events)
      BY <2>2, <3>1, OthersNoted
    <3> QED
      BY <3>2, <3>3
  <2> QED
    BY <2>1, <2>2
<1> QED
  BY <1>1 DEF HInv, LastOK

\* A run that has nothing left to do but commit: the row of one provider.
LEMMA CommittedRow ==
    ASSUME RInv, HInv, notifyBad' = notifyBad, NEW r \in Runs, run[r].step = "work", run[r].todo = {}, NEW p \in Providers, p \in DOMAIN run[r].out,
           db[p].there, NEW d, NEW over, d.status = Status(r, p), d.batches = Batches(r, p),
           over = (p \in run[r].met \/ (run[r].out[p] = "failed" /\ overlapped[p]))
    PROVE  RowOK(d, events, p) /\ (over \/ LastOK(d, run[r].out[p], p))
<1>1. /\ LoadedOK(run[r], db) /\ IdOK(run[r], events) /\ run[r].id \in 1..events /\ events \in Nat
      /\ RowOK(db[p], events, p) /\ (overlapped[p] \/ LastOK(db[p], last[p], p))
      /\ KeepOK(run[r], db) /\ run[r] \in RunSet
  BY DEF HInv, IdOK, RInv
<1>2. run[r].out[p] \in {"success", "failed"}
  <2>1. run[r].out \in OutFns /\ run[r].out[p] # "none"
    BY <1>1 DEF RunSet, KeepOK
  <2> QED
    BY <2>1 DEF OutFns, Fns, Outcomes
<1>3. Videos \intersect Guides = {}
  BY RunAssumptions
<1>4. RowOK(d, events, p)
  BY <1>1, <1>3 DEF RowOK, Batches
<1>5. ASSUME ~over PROVE d.status = run[r].out[p]
  <2>1. p \in DOMAIN run[r].was \ run[r].met
    BY <1>1, <1>5 DEF LoadedOK
  <2>2. db[p].status = run[r].was[p]
    BY <1>1, <2>1 DEF LoadedOK
  <2> QED
    BY <1>2, <2>2 DEF Status
<1>6. ASSUME ~over PROVE Cardinality(d.batches) <= 1
  <2>1. CASE p \in Videos
    <3>1. d.batches = {}
      BY <1>4, <2>1 DEF RowOK
    <3>2. Cardinality(d.batches) = Cardinality({})
      BY <3>1
    <3> QED
      BY <3>2, FS_EmptySet
  <2>2. CASE p \in Guides /\ run[r].out[p] = "success"
    <3>1. db[p].batches = run[r].gone[p]
      BY <1>1, <1>6, <2>2 DEF LoadedOK
    <3>2. d.batches = {run[r].id}
      BY <2>2, <3>1 DEF Batches
    <3>3. Cardinality(d.batches) = Cardinality({run[r].id})
      BY <3>2
    <3>4. Cardinality({run[r].id}) = 1
      BY FS_Singleton, Zenon
    <3> QED
      BY <3>3, <3>4
  <2>3. CASE run[r].out[p] = "failed"
    <3>1. d.batches = db[p].batches
      BY <2>3 DEF Batches
    <3>2. ~overlapped[p]
      BY <1>6, <2>3
    <3> QED
      BY <3>1, <3>2, <1>1 DEF LastOK
  <2> QED
    BY <1>2, <2>1, <2>2, <2>3 DEF Providers
<1>7. over \in BOOLEAN
  OBVIOUS
<1> QED
  BY <1>4, <1>5, <1>6, <1>7 DEF LastOK

LEMMA HCommit == ASSUME RInv, HInv, notifyBad' = notifyBad, NEW r \in Runs, Commit(r) PROVE HInv'
<1> DEFINE ps == DOMAIN run[r].out
<1>1. /\ run[r] \in RunSet /\ LoadedOK(run[r], db) /\ IdOK(run[r], events) /\ db \in [Providers -> DbRow]
      /\ run[r].step = "work" /\ run[r].todo = {} /\ \A p \in ps : db[p].there
      /\ db' = [p \in Providers |-> IF p \in ps
                  THEN [db[p] EXCEPT !.status = Status(r, p), !.batches = Batches(r, p)] ELSE db[p]]
      /\ last' = [p \in Providers |-> IF p \in ps THEN run[r].out[p] ELSE last[p]]
      /\ overlapped' = [p \in Providers |-> IF p \notin ps THEN overlapped[p]
                                               ELSE p \in run[r].met \/ (run[r].out[p] = "failed" /\ overlapped[p])]
  BY DEF RInv, HInv, Commit
<1>2. PICK row : row = IF Full(r) THEN Outcome(r) ELSE "none"
  OBVIOUS
<1>3. PICK x : x = [run[r] EXCEPT !.step = "committed", !.kept = TRUE, !.was = <<>>, !.gone = <<>>, !.met = {}, !.row = row]
  OBVIOUS
<1>4. x.step = "committed" /\ x.todo = {} /\ x.id = run[r].id
  BY <1>1, <1>3 DEF RunSet
<1>5. \A d : LoadedOK(x, d)
  BY <1>4 DEF LoadedOK
<1>6. IdOK(x, events)
  BY <1>1, <1>4 DEF IdOK
<1>7. run' = [other \in Runs |-> IF other = r THEN x ELSE [run[other] EXCEPT !.met = Met(r, ps)[other]]]
  BY <1>2, <1>3 DEF Commit
<1>8. ps \in SUBSET Providers
  BY ZenonT(40), <1>1 DEF RunSet, OutFns, Fns
<1>9. \A p \in Providers \ ps : db'[p] = db[p]
  BY <1>1
<1>10. ASSUME NEW p \in Providers PROVE RowOK(db'[p], events, p) /\ (overlapped'[p] \/ LastOK(db'[p], last'[p], p))
  <2>1. CASE p \in ps
    <3>1. PICK status, batches : status = Status(r, p) /\ batches = Batches(r, p)
      OBVIOUS
    <3>2. PICK d : d = [db[p] EXCEPT !.status = status, !.batches = batches]
      OBVIOUS
    <3>3. db'[p] = d
      BY <1>1, <2>1, <3>1, <3>2
    <3>4. d.status = Status(r, p) /\ d.batches = Batches(r, p)
      BY <1>1, <3>1, <3>2 DEF DbRow
    <3>5. PICK over : over = (p \in run[r].met \/ (run[r].out[p] = "failed" /\ overlapped[p]))
      OBVIOUS
    <3>6. overlapped'[p] = over /\ last'[p] = run[r].out[p]
      BY <1>1, <2>1, <3>5
    <3>7. RowOK(d, events, p) /\ (over \/ LastOK(d, run[r].out[p], p))
      BY <1>1, <2>1, <3>4, <3>5, CommittedRow
    <3> QED
      BY <3>3, <3>6, <3>7
  <2>2. CASE p \notin ps
    BY <1>1, <2>2 DEF HInv
  <2> QED
    BY <2>1, <2>2
<1>11. events' = events
  BY HStays DEF Commit
<1>12. HTypes'
  BY <1>1 DEF HTypes
<1> QED
  BY <1>5, <1>6, <1>7, <1>9, <1>10, <1>11, <1>12, HRecorded

LEMMA HNotify == ASSUME RInv, HInv, notifyBad' = notifyBad, NEW r \in Runs, Notify(r) PROVE HInv'
<1>1. run[r] \in RunSet /\ run[r].step = "committed"
  BY DEF RInv, Notify
<1>2. CASE Failed(r, "notify")
  BY <1>1, <1>2, HFailed DEF Causes
<1>3. CASE run' = [run EXCEPT ![r] = [Ended(r, "done") EXCEPT !.told = run[r].parts]] /\ db' = db /\ last' = last
           /\ overlapped' = overlapped /\ UNCHANGED schedulerVars
  <2>1. PICK e : e = Ended(r, "done")
    OBVIOUS
  <2>2. e \in RunSet /\ e.step = "ended" /\ e.todo = {} /\ e.id = 0
    BY <1>1, <2>1, EndedType DEF Causes
  <2>3. PICK x : x = [e EXCEPT !.told = run[r].parts]
    OBVIOUS
  <2>4. x.step = "ended" /\ x.todo = {} /\ x.id = 0
    BY <2>2, <2>3 DEF RunSet
  <2>5. events' = events /\ events' \in events..MaxEvents /\ events \in Nat
    BY <1>3, HStays
  <2>6. LoadedOK(x, db) /\ IdOK(x, events')
    BY <2>4, <2>5 DEF LoadedOK, IdOK
  <2>7. run' = [run EXCEPT ![r] = x]
    BY <1>3, <2>1, <2>3
  <2> QED
    BY <1>3, <2>5, <2>6, <2>7, HOneRun
<1> QED
  BY <1>2, <1>3 DEF Notify

LEMMA HRecordBegin == ASSUME RInv, HInv, notifyBad' = notifyBad, NEW r \in Runs, RecordBegin(r) PROVE HInv'
<1> DEFINE g == run[r].own
<1>1. /\ run[r] \in RunSet /\ LoadedOK(run[r], db) /\ IdOK(run[r], events) /\ run[r].step = "record" /\ run[r].cause \in Causes
      /\ db' = db /\ last' = last /\ overlapped' = overlapped /\ UNCHANGED schedulerVars
  BY DEF RInv, HInv, RecordBegin, RunSet
<1>2. events' = events /\ events' \in events..MaxEvents /\ events \in Nat
  BY <1>1, HStays
<1>3. CASE db[g].there
  <2>1. PICK was : was = [p \in {g} |-> db[g].status]
    OBVIOUS
  <2>2. PICK x : x = [run[r] EXCEPT !.step = "recording", !.was = was, !.met = {}]
    OBVIOUS
  <2>3. /\ x.step = "recording" /\ x.id = run[r].id /\ x.todo = run[r].todo /\ x.out = run[r].out /\ x.was = was
        /\ x.own = g /\ DOMAIN was = {g} /\ was[g] = db[g].status
    BY <1>1, <2>1, <2>2 DEF RunSet
  <2>4. LoadedOK(x, db) /\ IdOK(x, events')
    BY <1>1, <1>2, <2>3 DEF LoadedOK, IdOK
  <2>5. run' = [run EXCEPT ![r] = x]
    BY <1>3, <2>1, <2>2 DEF RecordBegin
  <2> QED
    BY <1>1, <1>2, <2>4, <2>5, HOneRun
<1>4. CASE ~db[g].there
  <2>1. run' = [run EXCEPT ![r] = Ended(r, run[r].cause)]
    BY <1>4 DEF RecordBegin
  <2>2. LoadedOK(Ended(r, run[r].cause), db) /\ IdOK(Ended(r, run[r].cause), events')
    BY <1>1, <1>2, EndedIsOK
  <2> QED
    BY <1>1, <1>2, <2>1, <2>2, HOneRun
<1> QED
  BY <1>3, <1>4

LEMMA HRecordCommit == ASSUME RInv, NInv, HInv, notifyBad' = notifyBad, NEW r \in Runs, RecordCommit(r) PROVE HInv'
<1> DEFINE g == run[r].own
<1>1. /\ run[r] \in RunSet /\ LoadedOK(run[r], db) /\ IdOK(run[r], events) /\ run[r].step = "recording" /\ run[r].cause \in Causes
      /\ g \in Providers /\ db[g] \in DbRow /\ db \in [Providers -> DbRow] /\ UNCHANGED schedulerVars
  BY DEF RInv, HInv, RecordCommit, RunSet, KeepOK
<1>0. g \in Guides /\ (run[r].cause = "notify" => notifyBad)
  BY <1>1 DEF RInv, KeepOK, NInv, NoteOK
<1>2. events' = events /\ events' \in events..MaxEvents /\ events \in Nat
  BY <1>1, HStays
<1>3. PICK e : e = Ended(r, run[r].cause)
  OBVIOUS
<1>4. \A d : LoadedOK(e, d) /\ IdOK(e, events)
  BY <1>1, <1>2, <1>3, EndedIsOK
<1>5. CASE run' = [run EXCEPT ![r] = Ended(r, run[r].cause)] /\ db' = db /\ last' = last /\ overlapped' = overlapped
  <2>1. run' = [run EXCEPT ![r] = e] /\ LoadedOK(e, db) /\ IdOK(e, events')
    BY <1>2, <1>3, <1>4, <1>5
  <2> QED
    BY <1>2, <1>5, <2>1, HOneRun
<1>6. CASE /\ db[g].there
           /\ db' = [db EXCEPT ![g].status = IF run[r].was[g] = "failed" THEN @ ELSE "failed"]
           /\ last' = [last EXCEPT ![g] = IF run[r].cause = "notify" THEN @ ELSE "failed"]
           /\ overlapped' = [overlapped EXCEPT ![g] = @ \/ g \in run[r].met]
           /\ run' = [other \in Runs |-> IF other = r THEN Ended(r, run[r].cause)
                                         ELSE [run[other] EXCEPT !.met = Met(r, {g})[other]]]
  <2>1. PICK status : status = IF run[r].was[g] = "failed" THEN db[g].status ELSE "failed"
    OBVIOUS
  <2>2. PICK d : d = [db[g] EXCEPT !.status = status]
    OBVIOUS
  <2>3. d.status = status /\ d.batches = db[g].batches
    BY <1>1, <2>2 DEF DbRow
  <2>4. db' = [db EXCEPT ![g] = d]
    BY <1>1, <1>6, <2>1, <2>2
  <2>5. db'[g] = d /\ \A p \in Providers \ {g} : db'[p] = db[p]
    BY <1>1, <2>4
  <2>6. g \notin run[r].met => status = "failed"
    <3>1. g \notin run[r].met => db[g].status = run[r].was[g]
      BY <1>1, <1>6 DEF LoadedOK
    <3> QED
      BY <2>1, <3>1
  <2>7. ASSUME NEW p \in Providers PROVE RowOK(db'[p], events, p) /\ (overlapped'[p] \/ LastOK(db'[p], last'[p], p))
    <3>1. RowOK(db[p], events, p) /\ (overlapped[p] \/ LastOK(db[p], last[p], p))
      BY DEF HInv
    <3>2. CASE p = g
      <4>1. RowOK(d, events, g)
        BY <3>1, <3>2, <2>3 DEF RowOK
      <4>2. PICK l : l = IF run[r].cause = "notify" THEN last[g] ELSE "failed"
        OBVIOUS
      <4>3. LastOK(d, l, g) \/ overlapped[g] \/ g \in run[r].met
        BY <1>0, <3>1, <3>2, <2>3, <2>6, <4>2 DEF LastOK
      <4>4. overlapped'[g] = (overlapped[g] \/ g \in run[r].met) /\ last'[g] = l
        BY <1>1, <1>6, <4>2 DEF HInv, HTypes
      <4> QED
        BY <3>2, <4>1, <4>3, <4>4, <2>5
    <3>3. CASE p # g
      <4>1. db'[p] = db[p] /\ overlapped'[p] = overlapped[p] /\ last'[p] = last[p]
        BY <3>3, <2>5, <1>6 DEF HInv, HTypes
      <4> QED
        BY <3>1, <4>1
    <3> QED
      BY <3>2, <3>3
  <2>8. LoadedOK(e, db') /\ IdOK(e, events)
    BY <1>4
  <2>9. run' = [other \in Runs |-> IF other = r THEN e ELSE [run[other] EXCEPT !.met = Met(r, {g})[other]]]
    BY <1>3, <1>6
  <2>10. HTypes'
    BY <1>6 DEF HInv, HTypes
  <2> QED
    BY <1>2, <2>5, <2>7, <2>8, <2>9, <2>10, HRecorded
<1> QED
  BY <1>5, <1>6 DEF RecordCommit

LEMMA HOutside ==
    ASSUME RInv, HInv, notifyBad' = notifyBad, EditScheduler \/ (\E v \in Videos : ToggleSource(v)) \/ (\E p \in Providers : DeleteProvider(p)) \/ Restart,
           events' \in events..MaxEvents
    PROVE  HInv'
<1>1. events \in Nat /\ events' \in Nat /\ events <= events' /\ events' \in 0..MaxEvents
  BY SchedulerAssumptions DEF HInv
<1>2. CASE EditScheduler
  <2>1. db' = db /\ run' = run /\ last' = last /\ overlapped' = overlapped
    BY <1>2 DEF EditScheduler, runVars
  <2> QED
    BY <1>1, <2>1, MoreEvents DEF HInv, HTypes, LastOK
<1>3. ASSUME NEW v \in Videos, ToggleSource(v) PROVE HInv'
  <2>1. db[v] \in DbRow /\ v \in Providers /\ db \in [Providers -> DbRow]
    BY DEF RInv, Providers
  <2>2. PICK d : d = [db[v] EXCEPT !.enabled = ~@]
    OBVIOUS
  <2>3. d.there = db[v].there /\ d.status = db[v].status /\ d.batches = db[v].batches
    BY <2>1, <2>2 DEF DbRow
  <2>4. db' = [db EXCEPT ![v] = d] /\ run' = run /\ last' = last /\ overlapped' = overlapped
    BY <1>3, <2>1, <2>2 DEF ToggleSource
  <2>5. \A p \in Providers : db'[p].there = db[p].there /\ db'[p].status = db[p].status /\ db'[p].batches = db[p].batches
    BY <2>1, <2>3, <2>4
  <2>6. \A k \in Runs : LoadedOK(run[k], db')
    <3> SUFFICES ASSUME NEW k \in Runs PROVE LoadedOK(run[k], db')
      OBVIOUS
    <3>1. LoadedOK(run[k], db) /\ run[k] \in RunSet
      BY DEF HInv, RInv
    <3>2. DOMAIN run[k].was \subseteq Providers
      BY <3>1 DEF RunSet, StatusFns, Fns
    <3>3. DOMAIN run[k].out \subseteq Providers
      BY <3>1 DEF RunSet, OutFns, Fns
    <3>4. PICK e : e = db'
      OBVIOUS
    <3>5. \A p \in Providers : e[p].there = db[p].there /\ e[p].status = db[p].status /\ e[p].batches = db[p].batches
      BY <2>5, <3>4
    <3>6. LoadedOK(run[k], e)
      BY <3>1, <3>2, <3>3, <3>5 DEF LoadedOK
    <3> QED
      BY <3>4, <3>6
  <2>7. \A p \in Providers : RowOK(db'[p], events, p) /\ (overlapped[p] \/ LastOK(db'[p], last[p], p))
    BY <2>5 DEF HInv, RowOK, LastOK
  <2> QED
    BY <1>1, <2>4, <2>6, <2>7, MoreEvents DEF HInv, HTypes, LastOK
<1>4. ASSUME NEW p \in Providers, DeleteProvider(p) PROVE HInv'
  <2>1. PICK d : d = [there |-> FALSE, enabled |-> FALSE, status |-> "never", batches |-> {}]
    OBVIOUS
  <2>2. ~d.there /\ d.status = "never" /\ d.batches = {}
    BY <2>1
  <2>3. db' = [db EXCEPT ![p] = d] /\ run' = run /\ last' = [last EXCEPT ![p] = "never"] /\ overlapped' = overlapped
    BY <1>4, <2>1 DEF DeleteProvider
  <2>4. db'[p] = d /\ \A q \in Providers \ {p} : db'[q] = db[q]
    BY <2>3 DEF RInv
  <2>5. last'[p] = "never" /\ \A q \in Providers \ {p} : last'[q] = last[q]
    BY <2>3 DEF HInv, HTypes
  <2>6. \A k \in Runs : LoadedOK(run[k], db')
    <3> SUFFICES ASSUME NEW k \in Runs PROVE LoadedOK(run[k], db')
      OBVIOUS
    <3>1. LoadedOK(run[k], db) /\ run[k] \in RunSet
      BY DEF HInv, RInv
    <3>2. DOMAIN run[k].was \subseteq Providers
      BY <3>1 DEF RunSet, StatusFns, Fns
    <3>3. DOMAIN run[k].out \subseteq Providers
      BY <3>1 DEF RunSet, OutFns, Fns
    <3>4. PICK e : e = db'
      OBVIOUS
    <3>5. \A q \in Providers : ~e[q].there \/ e[q] = db[q]
      BY <2>2, <2>4, <3>4
    <3>6. LoadedOK(run[k], e)
      BY <3>1, <3>2, <3>3, <3>5 DEF LoadedOK
    <3> QED
      BY <3>4, <3>6
  <2>7. \A q \in Providers : RowOK(db'[q], events, q) /\ (overlapped[q] \/ LastOK(db'[q], last'[q], q))
    <3>1. Cardinality({}) = 0
      BY FS_EmptySet
    <3>2. RowOK(d, events, p)
      BY <2>2 DEF RowOK
    <3>3. Cardinality(d.batches) = 0
      BY <2>2, <3>1
    <3>4. LastOK(d, "never", p)
      BY <2>2, <3>3 DEF LastOK
    <3> QED
      BY <2>4, <2>5, <3>2, <3>4 DEF HInv
  <2> QED
    BY <1>1, <2>3, <2>6, <2>7, MoreEvents DEF HInv, HTypes, LastOK
<1>5. CASE Restart
  <2>1. run' = [r \in Runs |-> IF Active(r) THEN Ended(r, "restart") ELSE run[r]] /\ db' = db /\ last' = last /\ overlapped' = overlapped
    BY <1>5 DEF Restart
  <2>2. ASSUME NEW r \in Runs PROVE LoadedOK(run'[r], db) /\ IdOK(run'[r], events)
    <3>1. run[r] \in RunSet /\ LoadedOK(run[r], db) /\ IdOK(run[r], events)
      BY DEF RInv, HInv
    <3>2. LoadedOK(Ended(r, "restart"), db) /\ IdOK(Ended(r, "restart"), events)
      BY <1>1, <3>1, EndedIsOK DEF Causes
    <3> QED
      BY <2>1, <3>1, <3>2
  <2> QED
    BY <1>1, <2>1, <2>2, MoreEvents DEF HInv, HTypes, LastOK
<1> QED
  BY <1>2, <1>3, <1>4, <1>5

LEMMA EventsGrow == ASSUME SInv, HInv, [Next]_vars, SInv' PROVE events' \in events..MaxEvents
<1>1. events \in 0..MaxEvents /\ events' \in 0..MaxEvents /\ MaxEvents \in Nat
  BY SchedulerAssumptions DEF SInv, SchedulerTypeOK
<1>2. events' = events \/ events' = events + 1
  <2>1. ASSUME NEW r \in Runs, Start(r) PROVE Event
    BY <2>1 DEF Start, Fire, StartManual, StartJob, Started
  <2>2. ASSUME NEW r \in Runs, Work(r) PROVE events' = events
    <3>1. \A cause : Failed(r, cause) => UNCHANGED schedulerVars
      BY DEF Failed
    <3>2. UNCHANGED schedulerVars
      BY <2>2, <3>1 DEF Work, Begin, Load, Commit, Notify, RecordBegin, RecordCommit, FetchFails, Write, DatabaseFails
    <3> QED
      BY <3>2 DEF schedulerVars
  <2>3. ASSUME NEW q \in Requests, EditSchedules(q) PROVE Event \/ events' = events
    BY <2>3 DEF EditSchedules, CreateSchedule, ReadSchedule, DeleteSchedule, UpdateSchedule, Reload, Put, RequestFails,
                DatabaseFailsRequest, RemoveJobs, SelectEnabled, AddJobs
  <2>4. (\E v \in Videos : ToggleSource(v)) \/ (\E p \in Providers : DeleteProvider(p)) \/ Restart => Event
    BY DEF ToggleSource, DeleteProvider, Restart
  <2>5. UNCHANGED vars => events' = events
    BY DEF vars, schedulerVars
  <2> QED
    BY <2>1, <2>2, <2>3, <2>4, <2>5 DEF Next, EditScheduler, Event
<1> QED
  BY <1>1, <1>2

-----------------------------------------------------------------------------
(* Jobs *)

JobStatuses == {"none", "running", "done", "error"}

JInv ==
    /\ job \in [1..MaxEvents -> JobStatuses]
    /\ table \in Seq(1..MaxEvents) /\ Len(table) <= MaxJobs
    /\ \A i \in 1..Len(table) : job[table[i]] # "none"

LEMMA JobRecorded ==
    ASSUME RInv, HInv, JInv, NEW r \in Runs, Active(r), NEW status \in {"done", "error"}, job' = JobNow(r, status), table' = table
    PROVE  JInv'
<1>1. run[r].id \in 1..MaxEvents
  <2>1. run[r].id \in 0..events /\ run[r].id # 0 /\ events \in 0..MaxEvents
    BY DEF HInv, IdOK, Active
  <2> QED
    BY <2>1, SchedulerAssumptions
<1>2. CASE IsJob(r)
  <2>1. job' = [job EXCEPT ![run[r].id] = status]
    BY <1>2 DEF JobNow
  <2>2. job' \in [1..MaxEvents -> JobStatuses]
    BY <2>1 DEF JInv, JobStatuses
  <2>3. \A n \in 1..MaxEvents : job[n] # "none" => job'[n] # "none"
    BY <2>1, <1>1 DEF JInv
  <2>4. \A i \in 1..Len(table) : table[i] \in 1..MaxEvents
    BY ElementOfSeq DEF JInv
  <2> QED
    BY <2>2, <2>3, <2>4 DEF JInv
<1>3. CASE ~IsJob(r)
  BY <1>3 DEF JobNow, JInv
<1> QED
  BY <1>2, <1>3

LEMMA PartOfSeq ==
    ASSUME NEW S, NEW s \in Seq(S), NEW m \in Nat, NEW k \in Nat, m >= 1, m <= k, k <= Len(s)
    PROVE  /\ SubSeq(s, m, k) \in Seq(S) /\ Len(SubSeq(s, m, k)) = k - m + 1
           /\ \A i \in 1..k - m + 1 : SubSeq(s, m, k)[i] = s[m + i - 1]
OBVIOUS

\* What WithNewJob makes of the table with one more job.
Newest(all) == IF Len(all) > MaxJobs THEN SubSeq(all, Len(all) - MaxJobs + 1, Len(all)) ELSE all

\* The oldest job makes room: the table is as long as it may be.
LEMMA NewJob ==
    ASSUME JInv, NEW n \in 1..MaxEvents
    PROVE  /\ Newest(Append(table, n)) \in Seq(1..MaxEvents) /\ Len(Newest(Append(table, n))) <= MaxJobs
           /\ \A i \in 1..Len(Newest(Append(table, n))) :
                 Newest(Append(table, n))[i] = n \/ \E j \in 1..Len(table) : Newest(Append(table, n))[i] = table[j]
<1> DEFINE appended == Append(table, n)
<1>0. PICK all : all = appended
  OBVIOUS
<1>n. PICK next : next = Newest(appended)
  OBVIOUS
<1>m. next = IF Len(all) > MaxJobs THEN SubSeq(all, Len(all) - MaxJobs + 1, Len(all)) ELSE all
  BY <1>0, <1>n DEF Newest
<1> SUFFICES /\ next \in Seq(1..MaxEvents) /\ Len(next) <= MaxJobs
             /\ \A i \in 1..Len(next) : next[i] = n \/ \E j \in 1..Len(table) : next[i] = table[j]
  BY <1>n
<1>a. all = Append(table, n)
  BY <1>0
<1> HIDE DEF appended
<1>1. table \in Seq(1..MaxEvents) /\ Len(table) \in Nat /\ Len(table) <= MaxJobs /\ MaxJobs \in Nat \ {0}
  BY RunAssumptions DEF JInv
<1>2. /\ all \in Seq(1..MaxEvents) /\ Len(all) = Len(table) + 1
      /\ \A i \in 1..Len(all) : all[i] = n \/ \E j \in 1..Len(table) : all[i] = table[j]
  <2>1. all \in Seq(1..MaxEvents) /\ Len(all) = Len(table) + 1 /\ all[Len(table) + 1] = n
        /\ \A i \in 1..Len(table) : all[i] = table[i]
    BY <1>1, <1>a
  <2> QED
    BY <1>1, <2>1
<1>3. CASE Len(all) > MaxJobs
  <2>1. PICK m \in Nat : m = Len(all) - MaxJobs + 1 /\ m >= 1 /\ Len(all) - m + 1 = MaxJobs
    BY <1>1, <1>2, <1>3
  <2>2. PICK k \in Nat : k = Len(all)
    BY <1>1, <1>2
  <2>3. next = SubSeq(all, m, k)
    BY <1>3, <1>m, <2>1, <2>2
  <2>4. m <= k /\ k - m + 1 = MaxJobs
    BY <1>1, <1>2, <2>1, <2>2
  <2>5. next \in Seq(1..MaxEvents) /\ Len(next) = k - m + 1 /\ \A i \in 1..k - m + 1 : next[i] = all[m + i - 1]
    <3>1. all \in Seq(1..MaxEvents) /\ m >= 1 /\ m <= k /\ k <= Len(all)
      BY <1>2, <2>1, <2>2, <2>4
    <3> QED
      BY ZenonT(40), <2>3, <3>1, PartOfSeq
  <2>6. next \in Seq(1..MaxEvents) /\ Len(next) = MaxJobs /\ \A i \in 1..MaxJobs : next[i] = all[m + i - 1]
    BY <2>4, <2>5
  <2>7. \A i \in 1..MaxJobs : m + i - 1 \in 1..Len(all)
    BY <1>1, <2>1, <2>2, <2>4
  <2>8. Len(next) <= MaxJobs
    BY <1>1, <2>6
  <2>9. ASSUME NEW i \in 1..Len(next) PROVE next[i] = n \/ \E j \in 1..Len(table) : next[i] = table[j]
    <3>1. i \in 1..MaxJobs /\ next[i] = all[m + i - 1] /\ m + i - 1 \in 1..Len(all)
      BY <2>6, <2>7
    <3> QED
      BY <1>2, <3>1
  <2> QED
    BY <2>6, <2>8, <2>9
<1>4. CASE ~(Len(all) > MaxJobs)
  BY <1>1, <1>2, <1>4, <1>m
<1> QED
  BY <1>3, <1>4

LEMMA StartJobInv == ASSUME JInv, HInv, NEW r \in Runs, StartJob(r) PROVE JInv'
<1>1. events' \in 1..MaxEvents /\ job' = [job EXCEPT ![events'] = "running"] /\ table' = WithNewJob
  <2>1. Event
    BY DEF StartJob, Started
  <2> QED
    BY <2>1, SchedulerAssumptions DEF StartJob, Event, HInv
<1>2. PICK n \in 1..MaxEvents : n = events'
  BY <1>1
<1>3. table' = Newest(Append(table, n)) /\ job' = [job EXCEPT ![n] = "running"]
  BY <1>1, <1>2 DEF WithNewJob, Newest
<1>4. PICK next : next = Newest(Append(table, n))
  OBVIOUS
<1>5. /\ next \in Seq(1..MaxEvents) /\ Len(next) <= MaxJobs
      /\ \A i \in 1..Len(next) : next[i] = n \/ \E j \in 1..Len(table) : next[i] = table[j]
  BY <1>4, NewJob
<1>6. \A j \in 1..Len(table) : table[j] \in 1..MaxEvents
  BY ElementOfSeq DEF JInv
<1>7. job' \in [1..MaxEvents -> JobStatuses] /\ \A i \in 1..Len(next) : job'[next[i]] # "none"
  BY <1>3, <1>5, <1>6 DEF JInv, JobStatuses
<1> QED
  BY <1>3, <1>4, <1>5, <1>7 DEF JInv

LEMMA JobsNext == ASSUME RInv, HInv, JInv, [Next]_vars PROVE JInv'
<1>1. CASE job' = job /\ table' = table
  BY <1>1 DEF JInv
<1>2. ASSUME NEW r \in Runs, NEW cause, Failed(r, cause), Active(r) PROVE JInv'
  <2>1. job' = JobNow(r, "error") /\ table' = table
    BY <1>2 DEF Failed
  <2> QED
    BY <1>2, <2>1, JobRecorded
<1>3. ASSUME NEW r \in Runs, Work(r) PROVE JInv'
  <2>1. Active(r) /\ (DatabaseFails(r) \/ (\E p \in Providers : FetchFails(r, p)) \/ Notify(r) \/ (job' = job /\ table' = table))
    BY <1>3 DEF Work, Begin, Load, Commit, Notify, RecordBegin, RecordCommit, FetchFails, Write, DatabaseFails, Active
  <2>2. CASE DatabaseFails(r)
    BY <1>2, <2>1, <2>2 DEF DatabaseFails
  <2>3. ASSUME NEW p \in Providers, FetchFails(r, p) PROVE JInv'
    BY <1>1, <1>2, <2>1, <2>3 DEF FetchFails
  <2>4. CASE Notify(r)
    <3>1. Failed(r, "notify") \/ (job' = JobNow(r, "done") /\ table' = table)
      BY <2>4 DEF Notify
    <3> QED
      BY <1>2, <2>1, <3>1, JobRecorded
  <2> QED
    BY <1>1, <2>1, <2>2, <2>3, <2>4
<1>4. ASSUME NEW r \in Runs, Start(r) PROVE JInv'
  BY <1>1, <1>4, StartJobInv DEF Start, Fire, StartManual
<1>5. CASE Restart
  <2>1. table' = <<>> /\ job' = job
    BY <1>5 DEF Restart
  <2> QED
    BY <2>1, RunAssumptions DEF JInv
<1>6. CASE EditScheduler \/ (\E v \in Videos : ToggleSource(v)) \/ (\E p \in Providers : DeleteProvider(p)) \/ UNCHANGED vars
  BY <1>1, <1>6 DEF EditScheduler, ToggleSource, DeleteProvider, vars, runVars
<1> QED
  BY <1>3, <1>4, <1>5, <1>6 DEF Next

LEMMA JobsInitially == Init => JInv
  BY RunAssumptions DEF Init, JInv, JobStatuses

(* What a run has loaded is what is there until another run records something
   of it, and every job of the table is a run that was started. *)
THEOREM HistoryInvariance == Spec => [](HInv /\ JInv)
<1>1. Init => HInv /\ JInv
  BY HInitially, JobsInitially
<1>2. SInv /\ RInv /\ NInv /\ HInv /\ JInv /\ SInv' /\ [Next]_vars => HInv' /\ JInv'
  <2> SUFFICES ASSUME SInv, RInv, NInv, HInv, JInv, SInv', [Next]_vars PROVE HInv'
    BY JobsNext
  <2>0. notifyBad' = notifyBad
    BY NotifyStays
  <2>1. CASE UNCHANGED vars
    <3>1. /\ events' = events /\ run' = run /\ db' = db /\ overlapped' = overlapped /\ last' = last
      BY <2>1 DEF vars, schedulerVars, runVars
    <3> QED
      BY <2>0, <3>1 DEF HInv, HTypes, LastOK
  <2>2. ASSUME NEW r \in Runs, Work(r) PROVE HInv'
    <3>1. CASE DatabaseFails(r)
      BY <2>0, <3>1, HFailed DEF DatabaseFails, Causes
    <3> QED
      BY <2>0, <2>2, <3>1, HBegin, HLoad, HCommit, HNotify, HRecordBegin, HRecordCommit, HFetchFails, HWrite DEF Work
  <2> QED
    BY <2>0, <2>1, <2>2, HStart, HOutside, EventsGrow DEF Next
<1> QED
  BY <1>1, <1>2, SchedulerInvariance, RunsInvariance, NotifyInvariance, PTL DEF Spec

(* Type correctness: the ids of runs and jobs are those of what was started,
   only guides have programmes, and the table of jobs never outgrows
   _MAX_JOBS. *)
THEOREM RunsTypes == Spec => []TypeOK
<1>1. SInv /\ RInv /\ HInv /\ JInv => TypeOK
  <2> SUFFICES ASSUME SInv, RInv, HInv, JInv PROVE TypeOK
    OBVIOUS
  <2>1. SchedulerTypeOK
    BY DEF SInv
  <2>2. ASSUME NEW p \in Providers
        PROVE  /\ db[p].status \in {"never", "success", "failed"}
               /\ db[p].batches \subseteq 1..events
               /\ p \in Videos => db[p].batches = {}
    BY DEF RInv, HInv, RowOK, DbRow, Statuses
  <2>3. ASSUME NEW r \in Runs
        PROVE  /\ run[r].step \in {"idle", "begin", "load", "work", "committed", "record", "recording", "ended"}
               /\ run[r].id \in 0..events
               /\ run[r].todo \subseteq DOMAIN run[r].out
    BY DEF RInv, HInv, RunSet, RunSteps, LoadedOK, IdOK
  <2>4. DOMAIN table = 1..Len(table)
    BY DEF JInv
  <2> QED
    BY <2>1, <2>2, <2>3, <2>4 DEF TypeOK, JInv, JobStatuses
<1> QED
  BY <1>1, SchedulerInvariance, RunsInvariance, HistoryInvariance, PTL

(* The badge of a provider and the programmes of a guide are what the last run
   left, each programme once, unless another run recorded something of it
   meanwhile, or clients could not be told of a refresh: sessions hold what they loaded, delete what was committed when
   they wrote, and no lock keeps them apart. *)
THEOREM RefreshShowsAlways == Spec => []LastRefreshShows
<1>1. HInv => LastRefreshShows
  BY DEF HInv, LastOK, LastRefreshShows
<1> QED
  BY <1>1, HistoryInvariance, PTL

-----------------------------------------------------------------------------
(* Jobs that run *)

\* A step that takes no running job of the table from the run that carries it out.
LEMMA StillCarriedOut ==
    ASSUME RunningJobsAreCarriedOut, table' = table,
           \A n \in 1..MaxEvents : job'[n] = "running" => job[n] = "running",
           \A k \in Runs, n \in 1..MaxEvents :
              Carries(k, n) /\ Contains(table, n) /\ job'[n] = "running" => Carries(k, n)'
    PROVE  RunningJobsAreCarriedOut'
  BY DEF RunningJobsAreCarriedOut

\* A step of r after which r has its job still, or the job is done or not polled.
LEMMA OneRunOn ==
    ASSUME RInv, JInv, RunningJobsAreCarriedOut, NEW r \in Runs, NEW x,
           \A k \in Runs : IF k = r THEN run'[k] = x
                          ELSE run'[k].step = run[k].step /\ run'[k].what = run[k].what /\ run'[k].id = run[k].id,
           table' = table, \A n \in 1..MaxEvents : job'[n] = "running" => job[n] = "running",
           \A n \in 1..MaxEvents : Carries(r, n) =>
              \/ x.step \in {"begin", "load", "work", "committed"} /\ x.what = run[r].what /\ x.id = run[r].id
              \/ job'[n] # "running" \/ ~Contains(table, n)
    PROVE  RunningJobsAreCarriedOut'
<1>1. ASSUME NEW k \in Runs, NEW n \in 1..MaxEvents, Carries(k, n), Contains(table, n), job'[n] = "running"
      PROVE  Carries(k, n)'
  <2>1. CASE k = r
    BY <1>1, <2>1 DEF Carries, IsJob
  <2>2. CASE k # r
    BY <1>1, <2>2 DEF Carries, IsJob
  <2> QED
    BY <2>1, <2>2
<1> QED
  BY <1>1, StillCarriedOut

LEMMA TaskFailed ==
    ASSUME RInv, HInv, JInv, RunningJobsAreCarriedOut, NEW r \in Runs, NEW cause \in Causes, Failed(r, cause), Active(r)
    PROVE  RunningJobsAreCarriedOut'
<1>1. table' = table /\ job' = JobNow(r, "error") /\ \E x : run' = [run EXCEPT ![r] = x]
  BY DEF Failed
<1>2. PICK x : run' = [run EXCEPT ![r] = x]
  BY <1>1
<1>3. \A k \in Runs : IF k = r THEN run'[k] = x ELSE run'[k] = run[k]
  BY <1>2 DEF RInv
<1>4. \A n \in 1..MaxEvents : /\ job'[n] = "running" => job[n] = "running"
                              /\ Carries(r, n) => job'[n] # "running"
  BY <1>1 DEF JobNow, JInv, Carries
<1>5. \A k \in Runs : IF k = r THEN run'[k] = x
                       ELSE run'[k].step = run[k].step /\ run'[k].what = run[k].what /\ run'[k].id = run[k].id
  BY <1>3
<1>6. table' = table /\ \A n \in 1..MaxEvents : job'[n] = "running" => job[n] = "running"
  BY <1>1, <1>4
<1> QED
  BY ZenonT(30), <1>4, <1>5, <1>6, OneRunOn

LEMMA TaskWorks == ASSUME RInv, HInv, JInv, RunningJobsAreCarriedOut, NEW r \in Runs, Work(r) PROVE RunningJobsAreCarriedOut'
<1>a. run[r] \in RunSet /\ run \in [Runs -> RunSet]
  BY DEF RInv
<1>f. ASSUME NEW cause \in Causes, Failed(r, cause), run[r].step \notin {"idle", "ended"} PROVE RunningJobsAreCarriedOut'
  BY <1>f, TaskFailed DEF Active
<1>1. CASE Begin(r)
  <2> DEFINE s == run[r].own
             dead == IF run[r].what = "scheduled" THEN ~Enabled(s) ELSE IsJob(r) /\ ~Contains(table, run[r].id)
             parts == IF run[r].what = "scheduled" THEN schedules[s].parts ELSE run[r].parts
  <2>1. table' = table /\ job' = job
    BY <1>1 DEF Begin
  <2>2. CASE dead
    <3>1. PICK x : x = Ended(r, "nothing to do")
      OBVIOUS
    <3>2. run' = [run EXCEPT ![r] = x]
      BY <1>1, <2>2, <3>1 DEF Begin
    <3>3. IsJob(r) => ~Contains(table, run[r].id)
      BY <2>2 DEF IsJob
    <3>4. \A k \in Runs : IF k = r THEN run'[k] = x ELSE run'[k] = run[k]
      BY <1>a, <3>2
    <3> HIDE DEF dead
    <3> QED
      BY <2>1, <3>3, <3>4, OneRunOn DEF Carries
  <2>3. CASE ~dead
    <3>1. run' = [run EXCEPT ![r] = [@ EXCEPT !.step = "load", !.parts = parts, !.left = parts]]
      BY <1>1, <2>3 DEF Begin
    <3> HIDE DEF parts, dead
    <3>2. PICK x : x = [run[r] EXCEPT !.step = "load", !.parts = parts, !.left = parts]
      OBVIOUS
    <3>3. x.step = "load" /\ x.what = run[r].what /\ x.id = run[r].id
      BY <1>a, <3>2 DEF RunSet
    <3>4. \A k \in Runs : IF k = r THEN run'[k] = x ELSE run'[k] = run[k]
      BY <1>a, <3>1, <3>2
    <3> QED
      BY <2>1, <3>3, <3>4, OneRunOn
  <2> QED
    BY <2>2, <2>3
<1>2. CASE Load(r)
  <2>1. table' = table /\ job' = job /\ \E x : run' = [run EXCEPT ![r] = x] /\ x.step = "work" /\ x.what = run[r].what /\ x.id = run[r].id
    <3> DEFINE kind == IF "sources" \in run[r].left THEN "sources" ELSE "epg"
               ps   == IF run[r].left = {} THEN {} ELSE Selected(r, kind)
               was  == With(run[r].was, [p \in ps |-> db[p].status])
               out  == With(run[r].out, [p \in ps |-> "none"])
               gone == With(run[r].gone, [p \in ps |-> {}])
               left == run[r].left \ {kind}
    <3>1. run' = [run EXCEPT ![r] = [run[r] EXCEPT !.step = "work", !.left = left, !.todo = ps,
                                                   !.was = was, !.out = out, !.gone = gone]]
          /\ table' = table /\ job' = job
      BY <1>2 DEF Load
    <3> HIDE DEF kind, ps, was, out, gone, left
    <3>2. PICK x : x = [run[r] EXCEPT !.step = "work", !.left = left, !.todo = ps, !.was = was, !.out = out, !.gone = gone]
      OBVIOUS
    <3>3. x.step = "work" /\ x.what = run[r].what /\ x.id = run[r].id
      BY <1>a, <3>2 DEF RunSet
    <3> QED
      BY <3>1, <3>2, <3>3
  <2>2. PICK x : run' = [run EXCEPT ![r] = x] /\ x.step = "work" /\ x.what = run[r].what /\ x.id = run[r].id
    BY <2>1
  <2>3. \A k \in Runs : IF k = r THEN run'[k] = x ELSE run'[k] = run[k]
    BY <1>a, <2>2
  <2> QED
    BY <2>1, <2>2, <2>3, OneRunOn
<1>3. ASSUME NEW p \in Providers, FetchFails(r, p) \/ Write(r, p) PROVE RunningJobsAreCarriedOut'
  <2>0. CASE Failed(r, "fetch")
    <3>1. run[r].step = "work"
      BY <1>3 DEF FetchFails, Write
    <3> QED
      BY <1>f, <2>0, <3>1 DEF Causes
  <2>1. CASE ~Failed(r, "fetch")
    <3>1. table' = table /\ job' = job /\ run[r].step = "work"
      BY <1>3, <2>1 DEF FetchFails, Write
    <3>2. \/ run' = [run EXCEPT ![r].todo = @ \ {p}, ![r].out[p] = "failed"]
          \/ run' = [run EXCEPT ![r].todo = @ \ {p}, ![r].out[p] = "success", ![r].gone[p] = db[p].batches]
      BY <1>3, <2>1 DEF FetchFails, Write
    <3>3. run'[r].step = run[r].step /\ run'[r].what = run[r].what /\ run'[r].id = run[r].id
      BY <1>a, <3>2 DEF RunSet
    <3>4. \A k \in Runs : k # r => run'[k] = run[k]
      BY <1>a, <3>2
    <3>5. PICK x : x = run'[r]
      OBVIOUS
    <3> QED
      BY <3>1, <3>3, <3>4, <3>5, OneRunOn
  <2> QED
    BY <2>0, <2>1
<1>4. CASE Commit(r)
  <2>1. table' = table /\ job' = job
    BY <1>4 DEF Commit
  <2> DEFINE ps == DOMAIN run[r].out
             row == IF Full(r) THEN Outcome(r) ELSE "none"
             x == [run[r] EXCEPT !.step = "committed", !.kept = TRUE, !.was = <<>>, !.gone = <<>>, !.met = {}, !.row = row]
  <2>2. run' = [k \in Runs |-> IF k = r THEN x ELSE [run[k] EXCEPT !.met = Met(r, ps)[k]]]
    BY <1>4 DEF Commit
  <2> HIDE DEF ps, row
  <2>3. x.step = "committed" /\ x.what = run[r].what /\ x.id = run[r].id
    BY <1>a DEF RunSet
  <2>4. \A k \in Runs : k # r => run'[k].step = run[k].step /\ run'[k].what = run[k].what /\ run'[k].id = run[k].id
    BY <1>a, <2>2 DEF RunSet
  <2>5. run'[r] = x
    BY <2>2
  <2> HIDE DEF x
  <2> QED
    BY <2>1, <2>3, <2>4, <2>5, OneRunOn
<1>5. CASE Notify(r)
  <2>1. CASE Failed(r, "notify")
    BY <1>5, <1>f, <2>1 DEF Notify, Causes
  <2>2. CASE ~Failed(r, "notify")
    <3>1. job' = JobNow(r, "done") /\ table' = table
      BY <1>5, <2>2 DEF Notify
    <3>2. PICK x : run' = [run EXCEPT ![r] = x]
      BY <1>5, <2>2 DEF Notify
    <3>3. \A k \in Runs : IF k = r THEN run'[k] = x ELSE run'[k] = run[k]
      BY <1>a, <3>2
    <3>4. \A n \in 1..MaxEvents : /\ job'[n] = "running" => job[n] = "running"
                                  /\ Carries(r, n) => job'[n] # "running"
      BY <3>1 DEF JobNow, JInv, Carries
    <3>5. \A k \in Runs : IF k = r THEN run'[k] = x
                           ELSE run'[k].step = run[k].step /\ run'[k].what = run[k].what /\ run'[k].id = run[k].id
      BY <3>3
    <3>6. table' = table /\ \A n \in 1..MaxEvents : job'[n] = "running" => job[n] = "running"
      BY <3>1, <3>4
    <3> QED
      BY ZenonT(30), <3>4, <3>5, <3>6, OneRunOn
  <2> QED
    BY <2>1, <2>2
<1>6. CASE RecordBegin(r) \/ RecordCommit(r)
  <2>1. table' = table /\ job' = job /\ run[r].step \in {"record", "recording"}
    BY <1>6 DEF RecordBegin, RecordCommit
  <2>2. \A k \in Runs \ {r} : run'[k].step = run[k].step /\ run'[k].what = run[k].what /\ run'[k].id = run[k].id
    <3>1. CASE \E x : run' = [run EXCEPT ![r] = x]
      BY <1>a, <3>1
    <3>2. CASE \E g : run' = [k \in Runs |-> IF k = r THEN Ended(r, run[r].cause) ELSE [run[k] EXCEPT !.met = Met(r, {g})[k]]]
      BY <1>a, <3>2 DEF RunSet
    <3>3. RecordBegin(r) => \E x : run' = [run EXCEPT ![r] = x]
      BY DEF RecordBegin
    <3> QED
      BY <1>6, <3>1, <3>2, <3>3 DEF RecordCommit
  <2>3. PICK x : x = run'[r]
    OBVIOUS
  <2> QED
    BY <2>1, <2>2, <2>3, OneRunOn DEF Carries
<1>7. CASE DatabaseFails(r)
  BY <1>7, <1>f DEF DatabaseFails, Causes
<1> QED
  BY <1>1, <1>2, <1>3, <1>4, <1>5, <1>6, <1>7 DEF Work

LEMMA TaskStarted == ASSUME RInv, HInv, JInv, RunningJobsAreCarriedOut, NEW r \in Runs, Start(r) PROVE RunningJobsAreCarriedOut'
<1>1. PICK what, own, parts : /\ Started(r, what, own, parts)
                              /\ \/ job' = job /\ table' = table
                                 \/ /\ what \in {"single", "all"}
                                    /\ job' = [job EXCEPT ![events'] = "running"] /\ table' = WithNewJob
  BY DEF Start, Fire, StartManual, StartJob
<1>2. PICK x : x = [NoRun EXCEPT !.step = "begin", !.what = what, !.own = own, !.parts = parts, !.left = parts, !.id = events']
  OBVIOUS
<1>3. x.step = "begin" /\ x.what = what /\ x.id = events'
  BY <1>2, NoRunType DEF RunSet
<1>4. run'[r] = x /\ \A k \in Runs \ {r} : run'[k] = run[k]
  BY <1>1, <1>2 DEF Started, RInv
<1>5. ~Active(r) /\ events' \in 1..MaxEvents
  BY <1>1, SchedulerAssumptions DEF Started, Event, HInv
<1>6. \A k \in Runs, n \in 1..MaxEvents : Carries(k, n) => Carries(k, n)'
  BY <1>4, <1>5 DEF Carries, IsJob, Active
<1>7. CASE job' = job /\ table' = table
  BY <1>6, <1>7, StillCarriedOut
<1>8. CASE what \in {"single", "all"} /\ job' = [job EXCEPT ![events'] = "running"] /\ table' = WithNewJob
  <2>1. PICK n \in 1..MaxEvents : n = events'
    BY <1>5
  <2>2. PICK next : next = Newest(Append(table, n))
    OBVIOUS
  <2>3. table' = next
    BY <1>8, <2>1, <2>2 DEF WithNewJob, Newest
  <2>4. \A i \in 1..Len(next) : next[i] = n \/ \E j \in 1..Len(table) : next[i] = table[j]
    BY <2>2, NewJob
  <2>5. \A m : Contains(table', m) => m = n \/ Contains(table, m)
    BY <2>3, <2>4 DEF Contains
  <2>6. Carries(r, n)'
    BY <1>3, <1>4, <1>8, <2>1 DEF Carries, IsJob
  <2>7. \A m \in 1..MaxEvents : m # n => job'[m] = job[m]
    BY <1>8, <2>1 DEF JInv
  <2> QED
    BY <1>6, <2>5, <2>6, <2>7 DEF RunningJobsAreCarriedOut
<1> QED
  BY <1>1, <1>7, <1>8

(* A job in the table that is not done is carried out by a run under way,
   whatever overlaps, fails, is deleted under it or fills the table: nothing
   leaves a job running with nobody to end it. *)
THEOREM JobsAlwaysCarriedOut == Spec => []RunningJobsAreCarriedOut
<1>1. Init => RunningJobsAreCarriedOut
  BY DEF Init, RunningJobsAreCarriedOut
<1>2. RInv /\ HInv /\ JInv /\ RunningJobsAreCarriedOut /\ [Next]_vars => RunningJobsAreCarriedOut'
  <2> SUFFICES ASSUME RInv, HInv, JInv, RunningJobsAreCarriedOut, [Next]_vars PROVE RunningJobsAreCarriedOut'
    OBVIOUS
  <2>1. CASE run' = run /\ table' = table /\ job' = job
    BY <2>1 DEF RunningJobsAreCarriedOut, Carries, IsJob
  <2>2. CASE Restart
    <3>1. table' = <<>>
      BY <2>2 DEF Restart
    <3>2. \A n : ~Contains(table', n)
      BY <3>1 DEF Contains
    <3> QED
      BY <3>2 DEF RunningJobsAreCarriedOut
  <2>3. CASE EditScheduler \/ (\E v \in Videos : ToggleSource(v)) \/ (\E p \in Providers : DeleteProvider(p)) \/ UNCHANGED vars
    BY <2>1, <2>3 DEF EditScheduler, ToggleSource, DeleteProvider, vars, runVars
  <2> QED
    BY <2>2, <2>3, TaskWorks, TaskStarted DEF Next
<1> QED
  BY <1>1, <1>2, RunsInvariance, HistoryInvariance, PTL DEF Spec
=============================================================================
