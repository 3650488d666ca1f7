----------------------------- MODULE ChannelScan -----------------------------
(***************************************************************************)
(* Scanning a category's streams for quality and duplicates                *)
(* (services/scan_jobs.py, services/duplicate_scanner.py,                  *)
(* services/stream_prober.py) and what the administrator does with the     *)
(* result: deleting the worse copies and tagging names with a resolution.  *)
(*                                                                         *)
(* A scan is a task beside the requests.  It loads the channels, probes    *)
(* them a few at a time with the same database session open, and writes    *)
(* what it measured in one transaction; meanwhile channels are deleted and *)
(* edited and other scans run.                                             *)
(*                                                                         *)
(* Frames and bitrate are measured and ranked like the height, and left    *)
(* out.  A name is what duplicate_scanner tells apart: the channel it      *)
(* stands for, its country prefix, and a quality tag at its end.           *)
(***************************************************************************)
EXTENDS Integers, Sequences, FiniteSets, SequencesExt, FiniteSetsExt

CONSTANTS
    Channels,       \* channels of the category
    Locked,         \* those with name_locked
    NoUrl,          \* those without a stream
    Name,           \* at first, each channel's key, country and tag
    NoCountry, NoTag,
    Heights,        \* what ffprobe may find, 0 for none
    Failures,       \* unreachable, timeout, no_video_stream, error
    Requests,       \* the channels a scan may ask for
    Label,          \* resolution_label of each height
    Concurrency,
    SplitCountries,
    MaxJobs,        \* _MAX_JOBS
    MaxScans, MaxEdits

\* A name keeps its key and country; its tag is one of the first or a label.
Names == [key     : {Name[c].key : c \in Channels},
          country : {Name[c].country : c \in Channels},
          tag     : {Name[c].tag : c \in Channels} \union {Label[h] : h \in Heights \ {0}}]

ASSUME ScanAssumptions ==
    /\ IsFiniteSet(Channels) /\ \A c \in Channels : Name[c] \in Names
    /\ Locked \subseteq Channels /\ NoUrl \subseteq Channels
    /\ Heights \subseteq Nat /\ NoTag \notin {Label[h] : h \in Heights \ {0}}
    /\ {"none", "ok", "no_url"} \cap Failures = {} /\ Requests \subseteq SUBSET Channels
    /\ Concurrency \in Nat /\ SplitCountries \in BOOLEAN
    /\ MaxJobs \in Nat \ {0} /\ MaxScans \in Nat /\ MaxEdits \in Nat

Scans == 1..MaxScans

VARIABLES
    channel,        \* the rows that are there
    scan,           \* each scan's task
    job,            \* its ScanJob: status, completed, results
    table,          \* _jobs: ids, the oldest first
    dialog,         \* scans whose result the browser has
    edits

vars == <<channel, scan, job, table, dialog, edits>>

Present == DOMAIN channel

NotProbed == [status |-> "none", height |-> 0]

\* step: started, probing, written, ended.  rows is what it loaded, active
\* who holds the semaphore, results what was measured, in order.  History:
\* met, the rows another scan wrote since.
NoScan == [step |-> "none", asked |-> {}, rows |-> <<>>, active |-> {}, results |-> <<>>, met |-> {}]

NoJob == [status |-> "none", total |-> 0, completed |-> 0, results |-> <<>>]

Init ==
    /\ channel = [c \in Channels |-> [name |-> Name[c], probe |-> NotProbed]]
    /\ scan = [j \in Scans |-> NoScan]
    /\ job = [j \in Scans |-> NoJob]
    /\ table = <<>>
    /\ dialog = {}
    /\ edits = 0

-----------------------------------------------------------------------------
(* A scan *)

\* Mutant: one more than the table may hold.
EvictLate(ids) == SubSeq(ids, Len(ids) - Min({Len(ids), MaxJobs + 1}) + 1, Len(ids))

\* The ids there are after an eviction: the newest stay.
Evict(ids) == SubSeq(ids, Len(ids) - Min({Len(ids), MaxJobs}) + 1, Len(ids))

\* scan_duplicates, start_scan_job: the task is created, not run yet.
StartScan(j, S) ==
    /\ scan[j].step = "none" /\ \A k \in 1..j - 1 : scan[k].step # "none"
    /\ S # {} /\ S \subseteq Present
    /\ scan' = [scan EXCEPT ![j].step = "started", ![j].asked = S]
    /\ job' = [job EXCEPT ![j] = [NoJob EXCEPT !.status = "running", !.total = Cardinality(S)]]
    /\ table' = Evict(Append(table, j))
    /\ UNCHANGED <<channel, dialog, edits>>

\* _run: job = _jobs[job_id] fails if it was evicted already; else the rows
\* are loaded.
Load(j) ==
    /\ scan[j].step = "started"
    /\ scan' = [scan EXCEPT ![j] =
         IF Contains(table, j)
         THEN [@ EXCEPT !.step = "probing", !.rows = [c \in scan[j].asked \cap Present |-> channel[c]]]
         ELSE [@ EXCEPT !.step = "ended"]]
    /\ UNCHANGED <<channel, job, table, dialog, edits>>

Waiting(j) == (DOMAIN scan[j].rows \ scan[j].active) \ {r.channel : r \in ToSet(scan[j].results)}

\* "async with semaphore"
Acquire(j, c) ==
    /\ scan[j].step = "probing"
    /\ c \in Waiting(j) \ NoUrl
    /\ Cardinality(scan[j].active) < Max({1, Concurrency})
    /\ scan' = [scan EXCEPT ![j].active = @ \union {c}]
    /\ UNCHANGED <<channel, job, table, dialog, edits>>

\* Mutant: a probe that times out keeps its place.
StillActive(active, c, probe) == IF probe.status = "timeout" THEN active ELSE active \ {c}

\* Who holds the semaphore when a probe is over, whatever came of it.
Released(active, c, probe) == active \ {c}

Answers(j, c, probe) ==
    /\ scan' = [scan EXCEPT ![j].active = Released(@, c, probe),
                            ![j].results = Append(@, [channel |-> c, probe |-> probe])]
    /\ job' = [job EXCEPT ![j].completed = @ + 1]
    /\ UNCHANGED <<channel, table, dialog, edits>>

\* probe_stream: ffprobe answers, fails, finds no video, or is killed when
\* the time is up.
Probe(j, c) ==
    /\ c \in scan[j].active
    /\ scan[j].step = "probing"
    /\ \A r \in ToSet(scan[j].results) : r.channel # c
    /\ \/ \E h \in Heights : Answers(j, c, [status |-> "ok", height |-> h])
       \/ \E s \in Failures : Answers(j, c, [status |-> s, height |-> 0])

\* _probe_one without a URL.
NothingToProbe(j, c) ==
    /\ scan[j].step = "probing"
    /\ c \in Waiting(j) \cap NoUrl
    /\ Answers(j, c, [status |-> "no_url", height |-> 0])

Ends(j) == [scan[j] EXCEPT !.step = "ended", !.active = {}]

\* Running ffprobe or reading its answer raises, or the database fails: what
\* the scan measured is lost.
ScanFails(j) ==
    /\ scan[j].step = "probing"
    /\ scan' = [scan EXCEPT ![j] = Ends(j)]
    /\ job' = [job EXCEPT ![j].status = "error"]
    /\ UNCHANGED <<channel, table, dialog, edits>>

Probed(j) == Range(scan[j].results)

ResultOf(j, c) == (CHOOSE r \in Probed(j) : r.channel = c).probe

\* Mutant: a failed probe leaves the row as it was.
WrittenIfOk(stored, loaded, measured) == IF measured.status = "ok" THEN measured ELSE stored

\* Of the columns only those that differ from what was loaded are written.
Written(stored, loaded, measured) ==
    [status |-> IF measured.status = loaded.status THEN stored.status ELSE measured.status,
     height |-> IF measured.height = loaded.height THEN stored.height ELSE measured.height]

\* All are probed: one transaction.  An UPDATE of a row that is gone raises if
\* it is a statement of its own (ScanFails); in a batch nobody notices.
Write(j) ==
    LET rows == DOMAIN scan[j].rows IN
    /\ scan[j].step = "probing"
    /\ rows = {r.channel : r \in Probed(j)}
    /\ channel' = [c \in Present |-> IF c \notin rows THEN channel[c] ELSE
         [channel[c] EXCEPT !.probe = Written(@, scan[j].rows[c].probe, ResultOf(j, c))]]
    /\ scan' = [k \in Scans |->
         IF k = j THEN [scan[j] EXCEPT !.step = "written"]
         ELSE IF scan[k].step # "probing" THEN scan[k]
         ELSE [scan[k] EXCEPT !.met = @ \union (rows \cap DOMAIN scan[k].rows)]]
    /\ UNCHANGED <<job, table, dialog, edits>>

\* results, duplicate_groups, then status.
Finish(j) ==
    /\ scan[j].step = "written"
    /\ scan' = [scan EXCEPT ![j] = Ends(j)]
    /\ job' = [job EXCEPT ![j].status = "done", ![j].results = scan[j].results]
    /\ UNCHANGED <<channel, table, dialog, edits>>

-----------------------------------------------------------------------------
(* The groups *)

NameOf(j, c) == scan[j].rows[c].name

\* normalize_channel_name, and the country prefix if channels of two
\* countries would be one group.
GroupOf(j, c) ==
    LET alike     == {d \in DOMAIN scan[j].rows : NameOf(j, d).key = NameOf(j, c).key}
        countries == {NameOf(j, d).country : d \in alike} \ {NoCountry}
    IN IF ~SplitCountries \/ Cardinality(countries) < 2 THEN alike
       ELSE {d \in alike : NameOf(j, d).country = NameOf(j, c).country}

Groups(j) == {g \in {GroupOf(j, c) : c \in DOMAIN scan[j].rows} : Cardinality(g) > 1}

\* _rank_key
Rank(probe) == <<IF probe.status = "ok" THEN 1 ELSE 0, probe.height>>

Better(a, b) == Rank(a)[1] > Rank(b)[1] \/ (Rank(a)[1] = Rank(b)[1] /\ Rank(a)[2] > Rank(b)[2])

\* Whose results are those of a group, and the best of them.
Members(j, g) == {k \in DOMAIN job[j].results : job[j].results[k].channel \in g}

Winners(j, g) == {k \in Members(j, g) : \A q \in Members(j, g) :
                    ~Better(job[j].results[q].probe, job[j].results[k].probe)}

\* The first of the best, in the order the results came in.
Winner(j, g) == job[j].results[Min(Winners(j, g))]

\* Mutant: the best of a group in which nothing played is kept, too.
BestAnyway(j, g) == {Winner(j, g).channel}

\* It is kept if it is any good.
Best(j, g) == IF Winner(j, g).probe.status = "ok" THEN {Winner(j, g).channel} ELSE {}

-----------------------------------------------------------------------------
(* What the administrator does *)

\* The browser polls get_scan_job until the scan is done; an evicted job is
\* not found.
Poll(j) ==
    /\ Contains(table, j) /\ job[j].status = "done" /\ j \notin dialog
    /\ dialog' = dialog \union {j}
    /\ UNCHANGED <<channel, scan, job, table, edits>>

Edit == edits < MaxEdits /\ edits' = edits + 1

Delete(S) == channel' = [c \in Present \ S |-> channel[c]]

Keep(j) == UNION {Best(j, g) : g \in Groups(j)}

\* A group with nothing to keep is left alone.
Proposed(j) == (UNION {g \in Groups(j) : Best(j, g) # {}}) \ Keep(j)

\* apply_dedupe with the choice the browser proposes.
ApplyDedupe(j) ==
    /\ j \in dialog
    /\ Proposed(j) \cap Present # {}
    /\ Edit
    /\ Delete(Proposed(j))
    /\ UNCHANGED <<scan, job, table, dialog>>

\* tag_resolution: an old tag is replaced.
Tagged(c) ==
    IF c \in Locked \/ channel[c].probe.height = 0 THEN channel[c]
    ELSE [channel[c] EXCEPT !.name.tag = Label[channel[c].probe.height]]

TagResolution(j) ==
    LET all == {r.channel : r \in ToSet(job[j].results)} IN
    /\ j \in dialog
    /\ Edit
    /\ channel' = [c \in Present |-> IF c \in all \ Proposed(j) THEN Tagged(c) ELSE channel[c]]
    /\ UNCHANGED <<scan, job, table, dialog>>

\* delete_channel, "delete" of bulk_edit_channels: by hand, by anyone.
DeleteChannels(S) ==
    /\ S # {} /\ S \subseteq Present
    /\ Edit
    /\ Delete(S)
    /\ UNCHANGED <<scan, job, table, dialog>>

Work(j) ==
    \/ Load(j) \/ Write(j) \/ Finish(j)
    \/ \E c \in Channels : Acquire(j, c) \/ Probe(j, c) \/ NothingToProbe(j, c)

Next ==
    \/ \E j \in Scans : \/ Work(j) \/ ScanFails(j) \/ Poll(j)
                        \/ ApplyDedupe(j) \/ TagResolution(j)
                        \/ \E S \in Requests : StartScan(j, S \cap Present)
    \/ \E S \in SUBSET Channels : DeleteChannels(S)

\* A probe has a timeout, and the tasks are run.
Fairness == \A j \in Scans : WF_vars(Work(j))

Spec == Init /\ [][Next]_vars /\ Fairness
-----------------------------------------------------------------------------
(* Type: the progress a job shows never exceeds its total, no more probes run
   than the semaphore lets, a channel is measured once in a scan, and the
   table keeps the newest jobs. *)
TypeOK ==
    /\ Present \subseteq Channels /\ edits \in 0..MaxEdits
    /\ \A c \in Present : channel[c].probe.height \in Heights \union {0}
    /\ Len(table) <= MaxJobs /\ dialog \subseteq {j \in Scans : job[j].status = "done"}
    /\ \A j \in Scans :
         /\ scan[j].step \in {"none", "started", "probing", "written", "ended"}
         /\ job[j].completed = Len(scan[j].results) /\ job[j].completed <= job[j].total
         /\ Cardinality(scan[j].active) <= Max({1, Concurrency})
         /\ \A a, b \in DOMAIN scan[j].results :
              scan[j].results[a].channel = scan[j].results[b].channel => a = b
         /\ job[j].status = "done" => job[j].results = scan[j].results /\ scan[j].step = "ended"

(* A scan that has written leaves on each channel what it measured, and all of
   it from this one probe - unless another scan wrote to that channel since it
   was loaded: then a column that this scan found unchanged keeps the other's
   value, and the row is a mixture of two probes. *)
RowIsOneProbe ==
    [][\A j \in Scans : scan[j].step = "probing" /\ scan'[j].step = "written" =>
         \A c \in (DOMAIN scan[j].rows \cap Present) \ scan[j].met : channel'[c].probe = ResultOf(j, c)]_vars

(* "deleting one of them is a much worse failure mode than missing a
   duplicate": what the proposed choice deletes has a copy under the same name,
   not of another country, that was playing when scanned and is no worse, and
   that this request leaves in place if it is still there. *)
DeletedForABetterCopy ==
    [][\A j \in Scans, c \in Present \ Present' : ApplyDedupe(j) =>
         \E d \in DOMAIN scan[j].rows \ {c} :
           /\ NameOf(j, d).key = NameOf(j, c).key
           /\ SplitCountries /\ NoCountry \notin {NameOf(j, c).country, NameOf(j, d).country}
                => NameOf(j, c).country = NameOf(j, d).country
           /\ ResultOf(j, d).status = "ok" /\ ~Better(ResultOf(j, c), ResultOf(j, d))
           /\ d \in Present => d \in Present']_vars

\* A step of the scan that nothing else has to happen for.
CanGoOn(j) ==
    \/ scan[j].step \in {"started", "written"}
    \/ /\ scan[j].step = "probing"
       /\ \/ DOMAIN scan[j].rows = {r.channel : r \in Probed(j)}
          \/ \E c \in scan[j].active : \A r \in ToSet(scan[j].results) : r.channel # c
          \/ Waiting(j) \cap NoUrl # {}
          \/ Waiting(j) \ NoUrl # {} /\ Cardinality(scan[j].active) < Max({1, Concurrency})

(* A scan whose job is polled and runs is never stuck: all is measured and can be
   written, a probe is under way, or a channel waits and a slot is free.  No
   answer, failure or time-out of a probe keeps its slot. *)
ScansGoOn == \A j \in Scans : Contains(table, j) /\ job[j].status = "running" => CanGoOn(j)

(* A scan ends, however many streams are dead: a job that is polled does not
   run for ever, it is done, failed, or no longer in the table. *)
ScanEnds == \A j \in Scans : <>[](Contains(table, j) => job[j].status # "running")
=============================================================================
