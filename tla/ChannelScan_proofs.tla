------------------------- MODULE ChannelScan_proofs -------------------------
(***************************************************************************)
(* For any channels, scans, labels and table size: scans keep within the   *)
(* semaphore, the table and their totals, a scan that no other met leaves  *)
(* on each channel exactly what it measured, and a scan that runs is never *)
(* stuck.                                                                  *)
(***************************************************************************)
EXTENDS ChannelScan, SetSums_proofs, SequenceTheorems

ProbeSet == [status : {"none", "ok", "no_url"} \union Failures, height : Heights \union {0}]
RowSet   == [name : Names, probe : ProbeSet]
RowFns   == UNION {[D -> RowSet] : D \in SUBSET Channels}
Result   == [channel : Channels, probe : ProbeSet]

Steps    == {"none", "started", "probing", "written", "ended"}
Statuses == {"none", "running", "error", "done"}

ScanSet == [step : Steps, asked : SUBSET Channels, rows : RowFns,
            active : SUBSET Channels, results : Seq(Result), met : SUBSET Channels]
JobSet  == [status : Statuses, total : Nat, completed : Nat, results : Seq(Result)]

TypeInv ==
    /\ channel \in RowFns
    /\ scan \in [Scans -> ScanSet]
    /\ job \in [Scans -> JobSet]
    /\ table \in Seq(Scans) /\ Len(table) <= MaxJobs
    /\ dialog \subseteq {j \in Scans : job[j].status = "done"}
    /\ edits \in 0..MaxEdits

MeasuredIn(results) == {r.channel : r \in ToSet(results)}

\* What a scan x has done agrees with what its job y shows.
CountOK(x, y) ==
    /\ DOMAIN x.rows \subseteq x.asked
    /\ x.active \subseteq DOMAIN x.rows /\ MeasuredIn(x.results) \subseteq DOMAIN x.rows
    /\ Len(x.results) = Cardinality(MeasuredIn(x.results))
    /\ \A a, b \in DOMAIN x.results : x.results[a].channel = x.results[b].channel => a = b
    /\ Cardinality(x.active) <= Max({1, Concurrency})
    /\ x.step \in {"none", "started"} => x.results = <<>> /\ x.active = {} /\ x.rows = <<>>
    /\ y.completed = Len(x.results)
    /\ x.step # "none" => y.total = Cardinality(x.asked)
    /\ y.status = "done" => y.results = x.results /\ x.step = "ended"
    /\ x.step = "written" \/ y.status = "done" => MeasuredIn(x.results) = DOMAIN x.rows

CountInv == \A j \in Scans : CountOK(scan[j], job[j])

\* What a scan has loaded of a channel is current until another scan writes.
LoadedInv ==
    \A j \in Scans : scan[j].step = "probing" =>
      \A c \in (DOMAIN scan[j].rows \cap Present) \ scan[j].met : channel[c].probe = scan[j].rows[c].probe

IInv == TypeInv /\ CountInv /\ LoadedInv

-----------------------------------------------------------------------------
(* Facts about the operators *)

LEMMA Numbers ==
    /\ Max({1, Concurrency}) \in Nat /\ Max({1, Concurrency}) >= 1
    /\ \A n \in Nat : Min({n, MaxJobs}) \in Nat /\ Min({n, MaxJobs}) <= n /\ Min({n, MaxJobs}) <= MaxJobs
<1>1. Concurrency \in Nat /\ MaxJobs \in Nat
  BY ScanAssumptions
<1>2. PICK k \in {1, Concurrency} : \A y \in {1, Concurrency} : k >= y
  BY <1>1
<1>3. Max({1, Concurrency}) \in {1, Concurrency} /\ Max({1, Concurrency}) >= 1
  BY <1>1, <1>2 DEF Max
<1>4. ASSUME NEW n \in Nat PROVE Min({n, MaxJobs}) \in Nat /\ Min({n, MaxJobs}) <= n /\ Min({n, MaxJobs}) <= MaxJobs
  <2>1. PICK m \in {n, MaxJobs} : \A y \in {n, MaxJobs} : m <= y
    BY <1>1
  <2>2. Min({n, MaxJobs}) \in {n, MaxJobs} /\ \A y \in {n, MaxJobs} : Min({n, MaxJobs}) <= y
    BY <1>1, <2>1 DEF Min
  <2> QED
    BY <1>1, <2>2
<1> QED
  BY <1>1, <1>3, <1>4

\* An eviction leaves ids that were there, at most MaxJobs.
LEMMA EvictType ==
    ASSUME NEW ids \in Seq(Scans)
    PROVE  Evict(ids) \in Seq(Scans) /\ Len(Evict(ids)) <= MaxJobs
<1> DEFINE n == Len(ids)
           k == Min({n, MaxJobs})
<1>1. n \in Nat /\ k \in Nat /\ k <= n /\ k <= MaxJobs /\ MaxJobs \in Nat
  BY Numbers, ScanAssumptions
<1>2. \A i \in n - k + 1 .. n : ids[i] \in Scans
  BY <1>1
<1> HIDE DEF k
<1>3. SubSeq(ids, n - k + 1, n) \in Seq(Scans) /\ Len(SubSeq(ids, n - k + 1, n)) = IF n - k + 1 <= n THEN n - (n - k + 1) + 1 ELSE 0
  BY <1>1, <1>2, SubSeqProperties
<1>4. Evict(ids) = SubSeq(ids, n - k + 1, n)
  BY DEF Evict, k
<1> QED
  BY <1>1, <1>3, <1>4

LEMMA ProbeTypes ==
    /\ NotProbed \in ProbeSet
    /\ \A h \in Heights : [status |-> "ok", height |-> h] \in ProbeSet
    /\ \A s \in Failures \union {"no_url"} : [status |-> s, height |-> 0] \in ProbeSet
  BY DEF NotProbed, ProbeSet

LEMMA NoScanType == NoScan \in ScanSet /\ NoJob \in JobSet
<1>1. <<>> \in RowFns
  <2>1. <<>> \in [{} -> RowSet]
    OBVIOUS
  <2> QED
    BY <2>1 DEF RowFns
<1>2. <<>> \in Seq(Result)
  OBVIOUS
<1> QED
  BY <1>1, <1>2 DEF NoScan, NoJob, ScanSet, JobSet, Steps, Statuses

\* A measurement more.
LEMMA OneMore ==
    ASSUME NEW results \in Seq(Result), NEW r \in Result
    PROVE  /\ Append(results, r) \in Seq(Result)
           /\ Len(Append(results, r)) = Len(results) + 1
           /\ MeasuredIn(Append(results, r)) = MeasuredIn(results) \union {r.channel}
           /\ \A i \in 1..Len(results) : Append(results, r)[i] = results[i]
           /\ Append(results, r)[Len(results) + 1] = r
<1>1. Len(results) \in Nat /\ DOMAIN results = 1..Len(results)
  OBVIOUS
<1>2. /\ Append(results, r) \in Seq(Result) /\ Len(Append(results, r)) = Len(results) + 1
      /\ \A i \in 1..Len(results) : Append(results, r)[i] = results[i]
      /\ Append(results, r)[Len(results) + 1] = r
  OBVIOUS
<1>3. DOMAIN Append(results, r) = 1..(Len(results) + 1)
  BY <1>2
<1> DEFINE new == Append(results, r)
<1> HIDE DEF new
<1>4. new = Append(results, r)
  BY DEF new
<1>5. ASSUME NEW q \in ToSet(new) PROVE q \in ToSet(results) \union {r}
  <2>1. PICK i \in 1..(Len(results) + 1) : q = new[i]
    BY <1>3, <1>4 DEF ToSet
  <2>2. i = Len(results) + 1 \/ i \in 1..Len(results)
    BY <1>1
  <2> QED
    BY <2>1, <2>2, <1>1, <1>2, <1>4 DEF ToSet
<1>6. ASSUME NEW q \in ToSet(results) \union {r} PROVE q \in ToSet(new)
  <2>1. \A i \in 1..Len(results) : i \in 1..(Len(results) + 1)
    BY <1>1
  <2>2. Len(results) + 1 \in 1..(Len(results) + 1)
    BY <1>1
  <2> QED
    BY <2>1, <2>2, <1>1, <1>2, <1>3, <1>4 DEF ToSet
<1>7. ToSet(new) = ToSet(results) \union {r}
  BY <1>5, <1>6
<1>8. MeasuredIn(new) = MeasuredIn(results) \union {r.channel}
  BY <1>7 DEF MeasuredIn
<1> QED
  BY <1>2, <1>4, <1>8

-----------------------------------------------------------------------------
(* The invariant *)

LEMMA Initially == Init => IInv
<1> SUFFICES ASSUME Init PROVE IInv
  OBVIOUS
<1>1. channel \in RowFns
  <2>1. channel \in [Channels -> RowSet]
    BY ProbeTypes, ScanAssumptions DEF Init, RowSet
  <2> QED
    BY <2>1 DEF RowFns
<1>2. TypeInv
  BY <1>1, NoScanType, ScanAssumptions DEF Init, TypeInv
<1>3. NoScan.step = "none" /\ CountOK(NoScan, NoJob)
  <2>1. MeasuredIn(<<>>) = {} /\ Cardinality({}) = 0
    BY FS_EmptySet DEF MeasuredIn, ToSet
  <2>2. DOMAIN <<>> = {} /\ Len(<<>>) = 0
    OBVIOUS
  <2>3. /\ NoScan.step = "none" /\ NoScan.asked = {} /\ NoScan.rows = <<>> /\ NoScan.active = {} /\ NoScan.results = <<>>
        /\ NoJob.completed = 0 /\ NoJob.status = "none"
    BY DEF NoScan, NoJob
  <2>4. 0 <= Max({1, Concurrency})
    BY Numbers
  <2> QED
    BY <2>1, <2>2, <2>3, <2>4 DEF CountOK
<1>4. CountInv /\ LoadedInv
  BY <1>3 DEF Init, CountInv, LoadedInv
<1> QED
  BY <1>2, <1>4 DEF IInv

\* A step that changes one scan and its job, and no row.
LEMMA OneScan ==
    ASSUME IInv, NEW j \in Scans, NEW x \in ScanSet, NEW y \in JobSet,
           scan' = [scan EXCEPT ![j] = x], job' = [job EXCEPT ![j] = y],
           UNCHANGED <<channel, dialog, edits>>,
           table' \in Seq(Scans), Len(table') <= MaxJobs,
           job[j].status = "done" => y.status = "done",
           CountOK(x, y),
           x.step = "probing" => \A c \in (DOMAIN x.rows \cap Present) \ x.met : channel[c].probe = x.rows[c].probe
    PROVE  IInv'
<1>1. /\ scan'[j] = x /\ \A k \in Scans \ {j} : scan'[k] = scan[k]
      /\ job'[j] = y /\ \A k \in Scans \ {j} : job'[k] = job[k]
  BY DEF IInv, TypeInv
<1>2. TypeInv'
  BY <1>1 DEF IInv, TypeInv
<1>3. CountInv'
  <2> SUFFICES ASSUME NEW k \in Scans PROVE CountOK(scan'[k], job'[k])
    BY DEF CountInv
  <2> QED
    BY <1>1 DEF IInv, CountInv
<1>4. LoadedInv'
  BY <1>1 DEF IInv, LoadedInv, Present
<1> QED
  BY <1>2, <1>3, <1>4 DEF IInv

LEMMA StartInv ==
    ASSUME IInv, NEW j \in Scans, NEW S, StartScan(j, S)
    PROVE  IInv'
<1>1. scan[j] \in ScanSet /\ CountOK(scan[j], job[j]) /\ scan[j].step = "none"
  BY DEF IInv, TypeInv, CountInv, StartScan
<1>2. S \subseteq Channels
  BY DEF StartScan, Present, IInv, TypeInv, RowFns
<1>3. Cardinality(S) \in Nat
  BY <1>2, FS_Subset, FS_CardinalityType, ScanAssumptions
<1>4. PICK x : x = [scan[j] EXCEPT !.step = "started", !.asked = S]
  OBVIOUS
<1>5. x = [step |-> "started", asked |-> S, rows |-> scan[j].rows, active |-> scan[j].active,
           results |-> scan[j].results, met |-> scan[j].met]
  BY <1>1, <1>4 DEF ScanSet
<1>6. x \in ScanSet
  BY <1>1, <1>2, <1>5 DEF ScanSet, Steps
<1>7. PICK y : y = [NoJob EXCEPT !.status = "running", !.total = Cardinality(S)]
  OBVIOUS
<1>8. y = [status |-> "running", total |-> Cardinality(S), completed |-> NoJob.completed, results |-> NoJob.results]
  BY <1>7, NoScanType DEF JobSet
<1>9. y \in JobSet
  BY <1>3, <1>8, NoScanType DEF JobSet, Statuses
<1>10. scan[j].results = <<>> /\ scan[j].active = {} /\ scan[j].rows = <<>>
  BY <1>1 DEF CountOK
<1>11. CountOK(x, y)
  <2>1. x.asked = S /\ x.step = "started" /\ x.rows = <<>> /\ x.active = {} /\ x.results = <<>>
    BY <1>5, <1>10
  <2>2. y.status = "running" /\ y.completed = 0 /\ y.total = Cardinality(S)
    BY <1>8 DEF NoJob
  <2>3. DOMAIN <<>> \subseteq S /\ Len(<<>>) = 0
    OBVIOUS
  <2> QED
    BY <1>1, <1>10, <2>1, <2>2, <2>3 DEF CountOK
<1>12. scan' = [scan EXCEPT ![j] = x] /\ job' = [job EXCEPT ![j] = y] /\ UNCHANGED <<channel, dialog, edits>>
  BY <1>4, <1>7 DEF StartScan
<1>13. table' \in Seq(Scans) /\ Len(table') <= MaxJobs
  <2>1. Append(table, j) \in Seq(Scans) /\ table' = Evict(Append(table, j))
    BY DEF StartScan, IInv, TypeInv
  <2> QED
    BY <2>1, EvictType
<1>14. job[j].status # "done" /\ x.step # "probing"
  BY <1>1, <1>5 DEF CountOK
<1> QED
  BY <1>6, <1>9, <1>11, <1>12, <1>13, <1>14, OneScan

LEMMA LoadInv ==
    ASSUME IInv, NEW j \in Scans, Load(j)
    PROVE  IInv'
<1>1. /\ scan[j] \in ScanSet /\ job[j] \in JobSet /\ CountOK(scan[j], job[j]) /\ scan[j].step = "started"
      /\ table' \in Seq(Scans) /\ Len(table') <= MaxJobs
      /\ job' = [job EXCEPT ![j] = job[j]] /\ UNCHANGED <<channel, dialog, edits>>
  BY DEF IInv, TypeInv, CountInv, Load
<1>2. scan[j].results = <<>> /\ scan[j].active = {} /\ scan[j].rows = <<>> /\ job[j].status # "done"
  BY <1>1 DEF CountOK
<1>3. PICK loaded : loaded = [c \in scan[j].asked \cap Present |-> channel[c]]
  OBVIOUS
<1>4. DOMAIN loaded = scan[j].asked \cap Present /\ \A c \in DOMAIN loaded : loaded[c] = channel[c]
  BY <1>3
<1>5. loaded \in RowFns
  <2>1. \A c \in Present : channel[c] \in RowSet
    BY DEF IInv, TypeInv, RowFns, Present
  <2>2. scan[j].asked \cap Present \subseteq Channels
    BY <1>1 DEF ScanSet
  <2>3. loaded \in [scan[j].asked \cap Present -> RowSet]
    BY <1>3, <2>1
  <2> QED
    BY <2>2, <2>3 DEF RowFns
<1>6. CASE Contains(table, j)
  <2>1. PICK x : x = [scan[j] EXCEPT !.step = "probing", !.rows = loaded]
    OBVIOUS
  <2>2. x = [step |-> "probing", asked |-> scan[j].asked, rows |-> loaded, active |-> scan[j].active,
             results |-> scan[j].results, met |-> scan[j].met]
    BY <1>1, <2>1 DEF ScanSet
  <2>3. x \in ScanSet
    BY <1>1, <1>5, <2>2 DEF ScanSet, Steps
  <2>4. scan' = [scan EXCEPT ![j] = x]
    BY <1>3, <1>6, <2>1 DEF Load
  <2>5. CountOK(x, job[j])
    <3>1. MeasuredIn(<<>>) = {}
      BY DEF MeasuredIn, ToSet
    <3> QED
      BY <1>1, <1>2, <1>4, <2>2, <3>1 DEF CountOK
  <2>6. \A c \in (DOMAIN x.rows \cap Present) \ x.met : channel[c].probe = x.rows[c].probe
    BY <1>4, <2>2
  <2> QED
    BY <1>1, <1>2, <2>3, <2>4, <2>5, <2>6, OneScan
<1>7. CASE ~Contains(table, j)
  <2>1. PICK x : x = [scan[j] EXCEPT !.step = "ended"]
    OBVIOUS
  <2>2. x = [step |-> "ended", asked |-> scan[j].asked, rows |-> scan[j].rows, active |-> scan[j].active,
             results |-> scan[j].results, met |-> scan[j].met]
    BY <1>1, <2>1 DEF ScanSet
  <2>3. x \in ScanSet
    BY <1>1, <2>2 DEF ScanSet, Steps
  <2>4. scan' = [scan EXCEPT ![j] = x]
    BY <1>7, <2>1 DEF Load
  <2>5. CountOK(x, job[j])
    BY <1>1, <1>2, <2>2 DEF CountOK
  <2> QED
    BY <1>1, <1>2, <2>2, <2>3, <2>4, <2>5, OneScan
<1> QED
  BY <1>6, <1>7

LEMMA AcquireInv ==
    ASSUME IInv, NEW j \in Scans, NEW c \in Channels, Acquire(j, c)
    PROVE  IInv'
<1>1. /\ scan[j] \in ScanSet /\ job[j] \in JobSet /\ CountOK(scan[j], job[j]) /\ scan[j].step = "probing"
      /\ table' \in Seq(Scans) /\ Len(table') <= MaxJobs
      /\ job' = [job EXCEPT ![j] = job[j]] /\ UNCHANGED <<channel, dialog, edits>>
      /\ Cardinality(scan[j].active) < Max({1, Concurrency})
  BY DEF IInv, TypeInv, CountInv, Acquire
<1>2. PICK x : x = [scan[j] EXCEPT !.active = @ \union {c}]
  OBVIOUS
<1>3. x = [step |-> "probing", asked |-> scan[j].asked, rows |-> scan[j].rows, active |-> scan[j].active \union {c},
           results |-> scan[j].results, met |-> scan[j].met]
  BY <1>1, <1>2 DEF ScanSet
<1>4. x \in ScanSet
  BY <1>1, <1>3 DEF ScanSet
<1>5. Cardinality(scan[j].active \union {c}) <= Max({1, Concurrency})
  <2>1. scan[j].active \in SUBSET Channels
    BY <1>1 DEF ScanSet
  <2>2. IsFiniteSet(scan[j].active) /\ Cardinality(scan[j].active) \in Nat
    BY <2>1, FS_Subset, FS_CardinalityType, ScanAssumptions
  <2>3. Cardinality(scan[j].active \union {c}) \in {Cardinality(scan[j].active), Cardinality(scan[j].active) + 1}
    BY <2>2, FS_AddElement
  <2> QED
    BY <1>1, <2>2, <2>3, Numbers
<1>6. CountOK(x, job[j])
  <2>1. c \in DOMAIN scan[j].rows
    BY DEF Acquire, Waiting
  <2> QED
    BY <1>1, <1>3, <1>5, <2>1 DEF CountOK
<1>7. \A d \in (DOMAIN x.rows \cap Present) \ x.met : channel[d].probe = x.rows[d].probe
  BY <1>1, <1>3 DEF IInv, LoadedInv
<1>8. scan' = [scan EXCEPT ![j] = x] /\ job[j].status # "done"
  BY <1>1, <1>2 DEF Acquire, CountOK
<1> QED
  BY <1>1, <1>4, <1>6, <1>7, <1>8, OneScan

\* Both kinds of measurement.
LEMMA AnswersInv ==
    ASSUME IInv, NEW j \in Scans, NEW c \in DOMAIN scan[j].rows, NEW probe \in ProbeSet, Answers(j, c, probe),
           scan[j].step = "probing", \A r \in ToSet(scan[j].results) : r.channel # c
    PROVE  IInv'
<1> DEFINE r == [channel |-> c, probe |-> probe]
           results == Append(scan[j].results, r)
           active == scan[j].active \ {c}
<1>1. /\ scan[j] \in ScanSet /\ job[j] \in JobSet /\ CountOK(scan[j], job[j])
      /\ table' \in Seq(Scans) /\ Len(table') <= MaxJobs
      /\ UNCHANGED <<channel, dialog, edits>>
  BY DEF IInv, TypeInv, CountInv, Answers
<1>2. scan[j].results \in Seq(Result) /\ Len(scan[j].results) \in Nat /\ DOMAIN scan[j].results = 1..Len(scan[j].results)
  BY <1>1 DEF ScanSet
<1>3. c \in Channels /\ r \in Result
  BY <1>1 DEF ScanSet, RowFns, Result
<1>4. /\ results \in Seq(Result) /\ Len(results) = Len(scan[j].results) + 1
      /\ MeasuredIn(results) = MeasuredIn(scan[j].results) \union {c}
      /\ \A i \in 1..Len(scan[j].results) : results[i] = scan[j].results[i]
      /\ results[Len(scan[j].results) + 1].channel = c
  BY <1>2, <1>3, OneMore
<1> HIDE DEF results, r
<1>5. PICK x : x = [scan[j] EXCEPT !.active = active, !.results = results]
  OBVIOUS
<1>6. x = [step |-> scan[j].step, asked |-> scan[j].asked, rows |-> scan[j].rows, active |-> active,
           results |-> results, met |-> scan[j].met]
  BY <1>1, <1>5 DEF ScanSet
<1>7. x \in ScanSet
  BY <1>1, <1>4, <1>6 DEF ScanSet
<1>8. PICK y : y = [job[j] EXCEPT !.completed = @ + 1]
  OBVIOUS
<1>9. y = [status |-> job[j].status, total |-> job[j].total, completed |-> job[j].completed + 1, results |-> job[j].results]
  BY <1>1, <1>8 DEF JobSet
<1>10. y \in JobSet
  BY <1>1, <1>9 DEF JobSet
<1>11. scan' = [scan EXCEPT ![j] = x] /\ job' = [job EXCEPT ![j] = y]
  BY <1>5, <1>8 DEF Answers, Released, results, r
<1>12. Cardinality(active) <= Max({1, Concurrency})
  <2>1. IsFiniteSet(scan[j].active) /\ active \in SUBSET scan[j].active
    BY <1>1, FS_Subset, ScanAssumptions DEF ScanSet
  <2>2. Cardinality(active) <= Cardinality(scan[j].active) /\ Cardinality(active) \in Nat /\ Cardinality(scan[j].active) \in Nat
    BY <2>1, FS_Subset, FS_CardinalityType
  <2> QED
    BY <1>1, <2>2, Numbers DEF CountOK
<1>13. c \notin MeasuredIn(scan[j].results)
  BY DEF MeasuredIn
<1>14. Len(results) = Cardinality(MeasuredIn(results))
  <2>1. IsFiniteSet(MeasuredIn(scan[j].results)) /\ Len(scan[j].results) = Cardinality(MeasuredIn(scan[j].results))
    <3>1. DOMAIN scan[j].rows \subseteq Channels
      BY <1>1 DEF ScanSet, RowFns
    <3>2. MeasuredIn(scan[j].results) \in SUBSET Channels
      BY <1>1, <3>1 DEF CountOK
    <3> QED
      BY <1>1, <3>2, FS_Subset, ScanAssumptions DEF CountOK
  <2> QED
    BY <2>1, <1>4, <1>13, FS_AddElement
<1>15. \A a, b \in DOMAIN results : results[a].channel = results[b].channel => a = b
  <2>1. DOMAIN results = 1..(Len(scan[j].results) + 1)
    BY <1>4
  <2>2. \A a \in 1..Len(scan[j].results) : results[a].channel # c
    BY <1>2, <1>4 DEF ToSet
  <2>3. \A a, b \in 1..Len(scan[j].results) : results[a].channel = results[b].channel => a = b
    <3>1. \A a, b \in DOMAIN scan[j].results : scan[j].results[a].channel = scan[j].results[b].channel => a = b
      BY <1>1 DEF CountOK
    <3> QED
      BY <1>2, <1>4, <3>1
  <2>4. \A a \in 1..(Len(scan[j].results) + 1) : a \in 1..Len(scan[j].results) \/ a = Len(scan[j].results) + 1
    BY <1>2
  <2> QED
    BY <1>4, <2>1, <2>2, <2>3, <2>4
<1>16. CountOK(x, y)
  <2>1. /\ x.step = "probing" /\ x.asked = scan[j].asked /\ x.rows = scan[j].rows /\ x.active = active /\ x.results = results
        /\ y.completed = job[j].completed + 1 /\ y.total = job[j].total /\ y.status = job[j].status
    BY <1>6, <1>9
  <2>2. job[j].status # "done" /\ job[j].completed = Len(scan[j].results)
    BY <1>1 DEF CountOK
  <2>3. active \subseteq DOMAIN scan[j].rows /\ MeasuredIn(results) \subseteq DOMAIN scan[j].rows
    BY <1>1, <1>4 DEF CountOK
  <2>4. DOMAIN scan[j].rows \subseteq scan[j].asked /\ job[j].total = Cardinality(scan[j].asked)
    BY <1>1 DEF CountOK
  <2>5. Len(results) = Cardinality(MeasuredIn(results)) /\ y.completed = Len(results)
    BY <1>4, <1>14, <2>1, <2>2
  <2> QED
    BY <1>12, <1>15, <2>1, <2>2, <2>3, <2>4, <2>5 DEF CountOK
<1>17. \A d \in (DOMAIN x.rows \cap Present) \ x.met : channel[d].probe = x.rows[d].probe
  BY <1>6 DEF IInv, LoadedInv
<1>18. job[j].status = "done" => y.status = "done"
  BY <1>9
<1> QED
  BY <1>1, <1>7, <1>10, <1>11, <1>16, <1>17, <1>18, OneScan

LEMMA EndInv ==
    ASSUME IInv, NEW j \in Scans, ScanFails(j) \/ Finish(j)
    PROVE  IInv'
<1>1. /\ scan[j] \in ScanSet /\ job[j] \in JobSet /\ CountOK(scan[j], job[j]) /\ scan[j].step \in {"probing", "written"}
      /\ table' \in Seq(Scans) /\ Len(table') <= MaxJobs /\ UNCHANGED <<channel, dialog, edits>>
  BY DEF IInv, TypeInv, CountInv, ScanFails, Finish
<1>2. PICK x : x = [scan[j] EXCEPT !.step = "ended", !.active = {}]
  OBVIOUS
<1>3. x = [step |-> "ended", asked |-> scan[j].asked, rows |-> scan[j].rows, active |-> {},
           results |-> scan[j].results, met |-> scan[j].met]
  BY <1>1, <1>2 DEF ScanSet
<1>4. x \in ScanSet
  BY <1>1, <1>3 DEF ScanSet, Steps
<1>5. scan' = [scan EXCEPT ![j] = x] /\ job[j].status # "done"
  BY <1>1, <1>2 DEF ScanFails, Finish, Ends, CountOK
<1>6. Cardinality({}) <= Max({1, Concurrency})
  BY FS_EmptySet, Numbers
<1>7. CASE ScanFails(j)
  <2>1. PICK y : y = [job[j] EXCEPT !.status = "error"]
    OBVIOUS
  <2>2. y = [status |-> "error", total |-> job[j].total, completed |-> job[j].completed, results |-> job[j].results]
    BY <1>1, <2>1 DEF JobSet
  <2>3. y \in JobSet
    BY <1>1, <2>2 DEF JobSet, Statuses
  <2>4. job' = [job EXCEPT ![j] = y]
    BY <1>7, <2>1 DEF ScanFails
  <2>5. CountOK(x, y)
    BY <1>1, <1>3, <1>6, <2>2 DEF CountOK
  <2> QED
    BY <1>1, <1>3, <1>4, <1>5, <2>3, <2>4, <2>5, OneScan
<1>8. CASE Finish(j)
  <2>1. PICK y : y = [job[j] EXCEPT !.status = "done", !.results = scan[j].results]
    OBVIOUS
  <2>2. y = [status |-> "done", total |-> job[j].total, completed |-> job[j].completed, results |-> scan[j].results]
    BY <1>1, <2>1 DEF JobSet
  <2>3. y \in JobSet
    BY <1>1, <2>2 DEF JobSet, ScanSet, Statuses
  <2>4. job' = [job EXCEPT ![j] = y]
    BY <1>8, <2>1 DEF Finish
  <2>5. CountOK(x, y)
    <3>1. MeasuredIn(scan[j].results) = DOMAIN scan[j].rows
      BY <1>1, <1>8 DEF Finish, CountOK
    <3>2. x.step = "ended" /\ x.asked = scan[j].asked /\ x.rows = scan[j].rows /\ x.active = {}
          /\ x.results = scan[j].results
      BY <1>3
    <3>3. y.status = "done" /\ y.total = job[j].total /\ y.completed = job[j].completed /\ y.results = scan[j].results
      BY <2>2
    <3> QED
      BY <1>1, <1>6, <3>1, <3>2, <3>3 DEF CountOK
  <2> QED
    BY <1>1, <1>3, <1>4, <1>5, <2>3, <2>4, <2>5, OneScan
<1> QED
  BY <1>7, <1>8

LEMMA MeasureInv ==
    ASSUME IInv, NEW j \in Scans, NEW c \in Channels, Probe(j, c) \/ NothingToProbe(j, c)
    PROVE  IInv'
<1>1. CountOK(scan[j], job[j])
  BY DEF IInv, CountInv
<1>2. CASE Probe(j, c)
  <2>1. c \in DOMAIN scan[j].rows
    BY <1>1, <1>2 DEF Probe, CountOK
  <2>2. \/ \E h \in Heights : Answers(j, c, [status |-> "ok", height |-> h])
        \/ \E s \in Failures : Answers(j, c, [status |-> s, height |-> 0])
    BY <1>2 DEF Probe
  <2>3. \E probe \in ProbeSet : Answers(j, c, probe)
    BY <2>2, ProbeTypes
  <2> QED
    BY <1>2, <2>1, <2>3, AnswersInv DEF Probe
<1>3. CASE NothingToProbe(j, c)
  <2>1. c \in DOMAIN scan[j].rows /\ \A r \in ToSet(scan[j].results) : r.channel # c
    BY <1>3 DEF NothingToProbe, Waiting
  <2>2. [status |-> "no_url", height |-> 0] \in ProbeSet /\ Answers(j, c, [status |-> "no_url", height |-> 0])
    BY <1>3, ProbeTypes DEF NothingToProbe
  <2> QED
    BY <1>3, <2>1, <2>2, AnswersInv DEF NothingToProbe
<1> QED
  BY <1>2, <1>3

\* Writing only the columns that changed since the load leaves the measurement,
\* if the row is as it was loaded.
LEMMA WrittenType ==
    ASSUME NEW stored \in ProbeSet, NEW loaded \in ProbeSet, NEW measured \in ProbeSet
    PROVE  /\ Written(stored, loaded, measured) \in ProbeSet
           /\ stored = loaded => Written(stored, loaded, measured) = measured
<1>1. measured = [status |-> measured.status, height |-> measured.height]
  BY DEF ProbeSet
<1>2. Written(stored, loaded, measured) =
        [status |-> IF measured.status = loaded.status THEN stored.status ELSE measured.status,
         height |-> IF measured.height = loaded.height THEN stored.height ELSE measured.height]
  BY DEF Written
<1>3. Written(stored, loaded, measured) \in ProbeSet
  BY <1>2 DEF ProbeSet
<1> QED
  BY <1>1, <1>2, <1>3

\* The rows after a scan has written.
LEMMA WriteRows ==
    ASSUME IInv, NEW j \in Scans, Write(j)
    PROVE  /\ Present' = Present
           /\ \A c \in Present : /\ channel'[c] \in RowSet
                                 /\ c \notin DOMAIN scan[j].rows => channel'[c] = channel[c]
           /\ \A c \in (DOMAIN scan[j].rows \cap Present) \ scan[j].met : channel'[c].probe = ResultOf(j, c)
<1> DEFINE new(c) == Written(channel[c].probe, scan[j].rows[c].probe, ResultOf(j, c))
<1>1. /\ scan[j] \in ScanSet /\ scan[j].step = "probing"
      /\ DOMAIN scan[j].rows = {r.channel : r \in Probed(j)}
      /\ channel' = [c \in Present |-> IF c \notin DOMAIN scan[j].rows THEN channel[c] ELSE [channel[c] EXCEPT !.probe = new(c)]]
  BY DEF IInv, TypeInv, Write
<1>2. \A c \in Present : channel[c] \in RowSet
  BY DEF IInv, TypeInv, RowFns, Present
<1>3. \A c \in DOMAIN scan[j].rows : scan[j].rows[c] \in RowSet
  BY <1>1 DEF ScanSet, RowFns
<1>4. \A r \in Probed(j) : r \in Result
  BY <1>1 DEF Probed, Range, ScanSet
<1>5. \A c \in DOMAIN scan[j].rows : ResultOf(j, c) \in ProbeSet
  <2> SUFFICES ASSUME NEW c \in DOMAIN scan[j].rows PROVE ResultOf(j, c) \in ProbeSet
    OBVIOUS
  <2>1. \E r \in Probed(j) : r.channel = c
    BY <1>1
  <2>2. (CHOOSE r \in Probed(j) : r.channel = c) \in Result
    BY <1>4, <2>1
  <2> QED
    BY <2>2 DEF ResultOf, Result
<1>6. ASSUME NEW c \in DOMAIN scan[j].rows \cap Present
      PROVE  new(c) \in ProbeSet /\ (channel[c].probe = scan[j].rows[c].probe => new(c) = ResultOf(j, c))
  <2>1. channel[c].probe \in ProbeSet /\ scan[j].rows[c].probe \in ProbeSet /\ ResultOf(j, c) \in ProbeSet
    BY <1>2, <1>3, <1>5 DEF RowSet
  <2> QED
    BY <2>1, WrittenType
<1> HIDE DEF new
<1>7. ASSUME NEW c \in DOMAIN scan[j].rows \cap Present
      PROVE  channel'[c] \in RowSet /\ channel'[c].probe = new(c)
  <2>1. channel'[c] = [channel[c] EXCEPT !.probe = new(c)]
    BY <1>1
  <2>2. channel'[c] = [name |-> channel[c].name, probe |-> new(c)]
    BY <1>2, <2>1 DEF RowSet
  <2> QED
    BY <1>2, <1>6, <2>2 DEF RowSet
<1>8. Present' = Present
  BY <1>1 DEF Present
<1>9. \A c \in Present : c \notin DOMAIN scan[j].rows => channel'[c] = channel[c]
  BY <1>1
<1>10. \A c \in (DOMAIN scan[j].rows \cap Present) \ scan[j].met : channel[c].probe = scan[j].rows[c].probe
  BY <1>1 DEF IInv, LoadedInv
<1> QED
  BY <1>2, <1>6, <1>7, <1>8, <1>9, <1>10

LEMMA WriteInv ==
    ASSUME IInv, NEW j \in Scans, Write(j)
    PROVE  IInv'
<1> DEFINE rows == DOMAIN scan[j].rows
<1>1. /\ scan \in [Scans -> ScanSet] /\ scan[j].step = "probing"
      /\ scan' = [k \in Scans |->
           IF k = j THEN [scan[j] EXCEPT !.step = "written"]
           ELSE IF scan[k].step # "probing" THEN scan[k]
           ELSE [scan[k] EXCEPT !.met = @ \union (rows \cap DOMAIN scan[k].rows)]]
      /\ UNCHANGED <<job, table, dialog, edits>>
  BY DEF IInv, TypeInv, Write
<1>2. scan'[j] = [step |-> "written", asked |-> scan[j].asked, rows |-> scan[j].rows, active |-> scan[j].active,
                  results |-> scan[j].results, met |-> scan[j].met]
  <2>1. scan'[j] = [scan[j] EXCEPT !.step = "written"] /\ scan[j] \in ScanSet
    BY <1>1
  <2> QED
    BY <2>1 DEF ScanSet
<1>3. ASSUME NEW k \in Scans \ {j}, scan[k].step = "probing"
      PROVE  /\ scan'[k] \in ScanSet
             /\ scan'[k].step = scan[k].step /\ scan'[k].asked = scan[k].asked /\ scan'[k].rows = scan[k].rows
             /\ scan'[k].active = scan[k].active /\ scan'[k].results = scan[k].results
             /\ scan'[k].met = scan[k].met \union (rows \cap DOMAIN scan[k].rows)
  <2>1. PICK m : m = scan[k].met \union (rows \cap DOMAIN scan[k].rows)
    OBVIOUS
  <2>2. scan'[k] = [scan[k] EXCEPT !.met = m] /\ scan[k] \in ScanSet
    BY <1>1, <1>3, <2>1
  <2>3. scan'[k] = [step |-> scan[k].step, asked |-> scan[k].asked, rows |-> scan[k].rows, active |-> scan[k].active,
                    results |-> scan[k].results, met |-> m]
    BY <2>2 DEF ScanSet
  <2>4. m \in SUBSET Channels
    BY <2>1, <2>2, <1>1 DEF ScanSet, RowFns
  <2>5. scan'[k] \in ScanSet
    BY <2>2, <2>3, <2>4 DEF ScanSet
  <2> QED
    BY <2>1, <2>3, <2>5
<1>4. \A k \in Scans \ {j} : scan[k].step # "probing" => scan'[k] = scan[k]
  BY <1>1
<1>5. \A k \in Scans : scan'[k] \in ScanSet
  <2> SUFFICES ASSUME NEW k \in Scans PROVE scan'[k] \in ScanSet
    OBVIOUS
  <2>1. scan[k] \in ScanSet /\ rows \subseteq Channels
    BY <1>1 DEF ScanSet, RowFns
  <2>2. CASE k = j
    BY <2>1, <2>2, <1>2 DEF ScanSet, Steps
  <2>3. CASE k # j /\ scan[k].step = "probing"
    BY <2>3, <1>3
  <2> QED
    BY <2>1, <2>2, <2>3, <1>4
<1>6. TypeInv'
  <2>1. channel' \in RowFns
    <3>1. DOMAIN channel' = Present /\ \A c \in Present : channel'[c] \in RowSet
      BY WriteRows DEF Present
    <3>2. channel' = [c \in Present |-> channel'[c]]
      BY <3>1 DEF Write
    <3>3. channel' \in [Present -> RowSet] /\ Present \subseteq Channels
      BY <3>1, <3>2 DEF IInv, TypeInv, RowFns, Present
    <3> QED
      BY <3>3 DEF RowFns
  <2>2. scan' \in [Scans -> ScanSet]
    BY <1>1, <1>5
  <2> QED
    BY <1>1, <2>1, <2>2 DEF IInv, TypeInv
<1>7. CountInv'
  <2> SUFFICES ASSUME NEW k \in Scans PROVE CountOK(scan'[k], job[k])
    BY <1>1 DEF CountInv
  <2>1. CountOK(scan[k], job[k])
    BY DEF IInv, CountInv
  <2>2. CASE k = j
    <3>1. scan'[j].step = "written" /\ scan'[j].asked = scan[j].asked /\ scan'[j].rows = scan[j].rows
          /\ scan'[j].active = scan[j].active /\ scan'[j].results = scan[j].results
      BY <1>2
    <3>2. MeasuredIn(scan[j].results) = DOMAIN scan[j].rows
      BY DEF Write, MeasuredIn, Probed, Range, ToSet
    <3>3. CountOK(scan[j], job[j]) /\ job[j].status # "done" /\ scan[j].step = "probing"
      BY <2>1, <2>2, <1>1 DEF CountOK
    <3> QED
      BY <2>2, <3>1, <3>2, <3>3 DEF CountOK
  <2>3. CASE k # j /\ scan[k].step = "probing"
    <3>1. /\ scan'[k].step = scan[k].step /\ scan'[k].asked = scan[k].asked /\ scan'[k].rows = scan[k].rows
          /\ scan'[k].active = scan[k].active /\ scan'[k].results = scan[k].results
      BY <2>3, <1>3
    <3> QED
      BY <2>1, <3>1 DEF CountOK
  <2> QED
    BY <2>1, <2>2, <2>3, <1>4
<1>8. LoadedInv'
  <2> SUFFICES ASSUME NEW k \in Scans, scan'[k].step = "probing",
                      NEW c \in (DOMAIN scan'[k].rows \cap Present') \ scan'[k].met
               PROVE  channel'[c].probe = scan'[k].rows[c].probe
    BY DEF LoadedInv
  <2>1. k # j /\ scan[k].step = "probing"
    BY <1>2, <1>4
  <2>2. c \in DOMAIN scan[k].rows /\ c \in Present /\ c \notin scan[k].met /\ c \notin rows /\ scan'[k].rows = scan[k].rows
    <3>1. scan'[k].rows = scan[k].rows /\ scan'[k].met = scan[k].met \union (rows \cap DOMAIN scan[k].rows)
      BY <2>1, <1>3
    <3>2. Present' = Present
      BY WriteRows
    <3> QED
      BY <3>1, <3>2
  <2>3. channel'[c] = channel[c]
    BY <2>2, WriteRows
  <2> QED
    BY <2>1, <2>2, <2>3 DEF IInv, LoadedInv
<1> QED
  BY <1>6, <1>7, <1>8 DEF IInv

\* Deleting channels and changing names leave what was probed.
LEMMA RowsInv ==
    ASSUME IInv, UNCHANGED <<scan, job, table>>, edits' \in 0..MaxEdits, dialog' \subseteq {k \in Scans : job[k].status = "done"},
           channel' \in RowFns, Present' \subseteq Present, \A c \in Present' : channel'[c].probe = channel[c].probe
    PROVE  IInv'
<1>1. TypeInv'
  BY DEF IInv, TypeInv
<1>2. CountInv'
  BY DEF IInv, CountInv
<1>3. LoadedInv'
  BY DEF IInv, LoadedInv
<1> QED
  BY <1>1, <1>2, <1>3 DEF IInv

LEMMA DeleteType ==
    ASSUME IInv, NEW S, Delete(S)
    PROVE  channel' \in RowFns /\ Present' \subseteq Present /\ \A c \in Present' : channel'[c].probe = channel[c].probe
<1>1. channel' = [c \in Present \ S |-> channel[c]] /\ Present' = Present \ S
  BY DEF Delete, Present
<1>2. \A c \in Present : channel[c] \in RowSet /\ c \in Channels
  BY DEF IInv, TypeInv, RowFns, Present
<1>3. channel' \in [Present \ S -> RowSet] /\ Present \ S \in SUBSET Channels
  BY <1>1, <1>2
<1> QED
  BY <1>1, <1>3 DEF RowFns

LEMMA TaggedType ==
    ASSUME IInv, NEW c \in Present
    PROVE  Tagged(c) \in RowSet /\ Tagged(c).probe = channel[c].probe
<1>1. channel[c] \in RowSet
  BY DEF IInv, TypeInv, RowFns, Present
<1>2. CASE c \in Locked \/ channel[c].probe.height = 0
  BY <1>1, <1>2 DEF Tagged
<1>3. CASE ~(c \in Locked \/ channel[c].probe.height = 0)
  <2>1. channel[c].probe.height \in Heights \ {0}
    BY <1>1, <1>3 DEF RowSet, ProbeSet
  <2>2. PICK l : l = Label[channel[c].probe.height]
    OBVIOUS
  <2>3. Tagged(c) = [channel[c] EXCEPT !.name.tag = l]
    BY <1>3, <2>2 DEF Tagged
  <2>4. PICK name : name = [channel[c].name EXCEPT !.tag = l]
    OBVIOUS
  <2>5. channel[c].name \in Names /\ l \in {Label[h] : h \in Heights \ {0}}
    BY <1>1, <2>1, <2>2 DEF RowSet
  <2>6. name = [key |-> channel[c].name.key, country |-> channel[c].name.country, tag |-> l]
    BY <2>4, <2>5 DEF Names
  <2>7. name \in Names
    BY <2>5, <2>6 DEF Names
  <2>8. Tagged(c) = [channel[c] EXCEPT !.name = name]
    BY <1>1, <2>3, <2>4 DEF RowSet
  <2>9. Tagged(c) = [name |-> name, probe |-> channel[c].probe]
    BY <1>1, <2>8 DEF RowSet
  <2> QED
    BY <1>1, <2>7, <2>9 DEF RowSet
<1> QED
  BY <1>2, <1>3

LEMMA AdminInv ==
    ASSUME IInv, \/ \E j \in Scans : Poll(j) \/ ApplyDedupe(j) \/ TagResolution(j)
                 \/ \E S \in SUBSET Channels : DeleteChannels(S)
    PROVE  IInv'
<1>1. MaxEdits \in Nat /\ edits \in 0..MaxEdits /\ dialog \subseteq {k \in Scans : job[k].status = "done"} /\ channel \in RowFns
  BY ScanAssumptions DEF IInv, TypeInv
<1>2. Edit => edits' \in 0..MaxEdits
  BY <1>1 DEF Edit
<1>3. CASE \E j \in Scans : Poll(j)
  BY <1>1, <1>3, RowsInv DEF Poll, Present
<1>4. CASE \E j \in Scans : ApplyDedupe(j)
  BY <1>1, <1>2, <1>4, DeleteType, RowsInv DEF ApplyDedupe
<1>5. CASE \E j \in Scans : TagResolution(j)
  <2>1. PICK T : channel' = [c \in Present |-> IF c \in T THEN Tagged(c) ELSE channel[c]]
    BY <1>5 DEF TagResolution
  <2>2. \A c \in Present : channel[c] \in RowSet /\ c \in Channels
    BY <1>1 DEF RowFns, Present
  <2>3. Present' = Present /\ \A c \in Present : channel'[c].probe = channel[c].probe
    BY <2>1, TaggedType DEF Present
  <2>4. channel' \in [Present -> RowSet] /\ Present \in SUBSET Channels
    BY <2>1, <2>2, TaggedType
  <2> QED
    BY <1>1, <1>2, <1>5, <2>3, <2>4, RowsInv DEF TagResolution, RowFns
<1>6. CASE \E S \in SUBSET Channels : DeleteChannels(S)
  BY <1>1, <1>2, <1>6, DeleteType, RowsInv DEF DeleteChannels
<1> QED
  BY <1>3, <1>4, <1>5, <1>6

(* The invariant of every behaviour, for any channels, scans and bounds. *)
THEOREM Invariance == Spec => []IInv
<1>1. IInv /\ [Next]_vars => IInv'
  <2> SUFFICES ASSUME IInv, [Next]_vars PROVE IInv'
    OBVIOUS
  <2>1. CASE \E j \in Scans : Work(j)
    BY <2>1, LoadInv, WriteInv, EndInv, AcquireInv, MeasureInv DEF Work
  <2>2. CASE \E j \in Scans : ScanFails(j)
    BY <2>2, EndInv
  <2>3. CASE \E j \in Scans, S \in Requests : StartScan(j, S \cap Present)
    BY <2>3, StartInv
  <2>4. CASE \/ \E j \in Scans : Poll(j) \/ ApplyDedupe(j) \/ TagResolution(j)
             \/ \E S \in SUBSET Channels : DeleteChannels(S)
    BY <2>4, AdminInv
  <2>5. CASE UNCHANGED vars
    BY <2>5 DEF vars, IInv, TypeInv, CountInv, LoadedInv, Present
  <2> QED
    BY <2>1, <2>2, <2>3, <2>4, <2>5 DEF Next
<1> QED
  BY <1>1, Initially, PTL DEF Spec

(* Progress never exceeds its total, the semaphore is respected, each channel
   is measured once, the table is never too long and only finished scans are
   shown: for any number of scans and channels. *)
THEOREM TypeCorrect == Spec => []TypeOK
<1>1. IInv => TypeOK
  <2> SUFFICES ASSUME IInv PROVE TypeOK
    OBVIOUS
  <2>1. Present \subseteq Channels /\ \A c \in Present : channel[c].probe.height \in Heights \union {0}
    BY DEF IInv, TypeInv, RowFns, RowSet, ProbeSet, Present
  <2>2. ASSUME NEW j \in Scans
        PROVE  /\ scan[j].step \in {"none", "started", "probing", "written", "ended"}
               /\ job[j].completed = Len(scan[j].results) /\ job[j].completed <= job[j].total
               /\ Cardinality(scan[j].active) <= Max({1, Concurrency})
               /\ \A a, b \in DOMAIN scan[j].results :
                    scan[j].results[a].channel = scan[j].results[b].channel => a = b
               /\ job[j].status = "done" => job[j].results = scan[j].results /\ scan[j].step = "ended"
    <3>1. scan[j] \in ScanSet /\ job[j] \in JobSet /\ CountOK(scan[j], job[j])
      BY DEF IInv, TypeInv, CountInv
    <3>2. job[j].completed <= job[j].total
      <4>1. CASE scan[j].step = "none"
        <5>1. job[j].completed = 0 /\ job[j].total \in Nat
          BY <3>1, <4>1 DEF CountOK, JobSet
        <5> QED
          BY <5>1
      <4>2. CASE scan[j].step # "none"
        <5>1. /\ MeasuredIn(scan[j].results) \in SUBSET scan[j].asked /\ IsFiniteSet(scan[j].asked)
              /\ job[j].completed = Cardinality(MeasuredIn(scan[j].results)) /\ job[j].total = Cardinality(scan[j].asked)
          BY <3>1, <4>2, FS_Subset, ScanAssumptions DEF CountOK, ScanSet
        <5> QED
          BY <5>1, FS_Subset
      <4> QED
        BY <4>1, <4>2
    <3> QED
      BY <3>1, <3>2 DEF CountOK, ScanSet, Steps
  <2> QED
    BY <2>1, <2>2 DEF IInv, TypeInv, TypeOK
<1> QED
  BY <1>1, Invariance, PTL

\* Only writing takes a scan from probing to written.
LEMMA OnlyWriteWrites ==
    ASSUME IInv, Next, NEW j \in Scans, scan[j].step = "probing", scan'[j].step = "written"
    PROVE  Write(j)
<1>1. scan \in [Scans -> ScanSet] /\ scan[j] \in ScanSet
  BY DEF IInv, TypeInv
<1>2. ASSUME NEW k \in Scans, NEW x, scan' = [scan EXCEPT ![k] = x], x.step # "written"
      PROVE  FALSE
  BY <1>1, <1>2
<1>3. ASSUME NEW k \in Scans, Write(k), k # j PROVE FALSE
  <2>1. scan'[j] = [scan[j] EXCEPT !.met = @ \union (DOMAIN scan[k].rows \cap DOMAIN scan[j].rows)]
    BY <1>3 DEF Write
  <2>2. scan'[j].step = scan[j].step
    BY <1>1, <2>1 DEF ScanSet
  <2> QED
    BY <2>2
<1>4. ASSUME NEW k \in Scans, ScanFails(k) \/ Finish(k) PROVE FALSE
  <2>1. PICK x : x = [scan[k] EXCEPT !.step = "ended", !.active = {}]
    OBVIOUS
  <2>2. x.step = "ended"
    BY <1>1, <2>1 DEF ScanSet
  <2>3. scan' = [scan EXCEPT ![k] = x]
    BY <1>4, <2>1 DEF ScanFails, Finish, Ends
  <2> QED
    BY <1>2, <2>2, <2>3
<1>5. ASSUME NEW k \in Scans, NEW S, StartScan(k, S) PROVE FALSE
  BY <1>1, <1>5 DEF StartScan, ScanSet
<1>6. ASSUME NEW k \in Scans, Load(k) PROVE FALSE
  <2>1. k # j
    BY <1>6 DEF Load
  <2> QED
    BY <2>1, <1>1, <1>6 DEF Load
<1>7. ASSUME NEW k \in Scans, NEW c, Acquire(k, c) PROVE FALSE
  BY <1>1, <1>7 DEF Acquire, ScanSet
<1>8. ASSUME NEW k \in Scans, NEW c, NEW probe, Answers(k, c, probe) PROVE FALSE
  BY <1>1, <1>8 DEF Answers, ScanSet
<1>9. ASSUME UNCHANGED scan PROVE FALSE
  BY <1>9
<1> QED
  BY <1>3, <1>4, <1>5, <1>6, <1>7, <1>8, <1>9
     DEF Next, Work, Probe, NothingToProbe, Poll, ApplyDedupe, TagResolution, DeleteChannels

(* For any channels and scans: when a scan writes, each of its channels that no
   other scan has written since holds exactly what this scan measured, though
   only the columns that differ from what was loaded are written. *)
THEOREM OneProbePerRow == Spec => RowIsOneProbe
<1> DEFINE Whole == \A j \in Scans : scan[j].step = "probing" /\ scan'[j].step = "written" =>
                      \A c \in (DOMAIN scan[j].rows \cap Present) \ scan[j].met : channel'[c].probe = ResultOf(j, c)
<1>1. IInv /\ [Next]_vars => [Whole]_vars
  <2> SUFFICES ASSUME IInv, Next PROVE Whole
    OBVIOUS
  <2> QED
    BY OnlyWriteWrites, WriteRows
<1>2. Spec => [][Whole]_vars
  BY <1>1, Invariance, PTL DEF Spec
<1> QED
  BY <1>2 DEF RowIsOneProbe

-----------------------------------------------------------------------------
(* Duplicates *)

\* The measurements of a finished scan: one of each channel it loaded.
LEMMA Measurements ==
    ASSUME IInv, NEW j \in dialog
    PROVE  /\ j \in Scans /\ job[j].results \in Seq(Result) /\ scan[j] \in ScanSet
           /\ \A k \in DOMAIN job[j].results : /\ job[j].results[k] \in Result
                                               /\ ResultOf(j, job[j].results[k].channel) = job[j].results[k].probe
           /\ \A c \in DOMAIN scan[j].rows : \E k \in DOMAIN job[j].results : job[j].results[k].channel = c
<1>1. j \in Scans /\ job[j].status = "done"
  BY DEF IInv, TypeInv
<1>2. scan[j] \in ScanSet /\ job[j] \in JobSet /\ CountOK(scan[j], job[j])
  BY <1>1 DEF IInv, TypeInv, CountInv
<1>3. PICK s \in Seq(Result) : s = job[j].results /\ s = scan[j].results
  BY <1>1, <1>2 DEF CountOK, JobSet
<1>4. \A a, b \in DOMAIN s : s[a].channel = s[b].channel => a = b
  BY <1>2, <1>3 DEF CountOK
<1>5. {r.channel : r \in ToSet(s)} = DOMAIN scan[j].rows /\ ToSet(s) = {s[k] : k \in DOMAIN s}
  BY <1>1, <1>2, <1>3 DEF CountOK, MeasuredIn, ToSet
<1>6. Probed(j) = {s[k] : k \in DOMAIN s}
  BY <1>3 DEF Probed, Range
<1>7. ASSUME NEW k \in DOMAIN s PROVE s[k] \in Result /\ ResultOf(j, s[k].channel) = s[k].probe
  <2>1. \A r \in Probed(j) : r.channel = s[k].channel => r = s[k]
    BY <1>4, <1>6
  <2>2. s[k] \in Probed(j)
    BY <1>6
  <2>3. (CHOOSE r \in Probed(j) : r.channel = s[k].channel) = s[k]
    BY <2>1, <2>2
  <2>4. ResultOf(j, s[k].channel) = (CHOOSE r \in Probed(j) : r.channel = s[k].channel).probe
    BY DEF ResultOf
  <2>5. s[k] \in Result
    OBVIOUS
  <2> QED
    BY <2>3, <2>4, <2>5
<1>8. ASSUME NEW c \in DOMAIN scan[j].rows PROVE \E k \in DOMAIN s : s[k].channel = c
  BY <1>5
<1> QED
  BY <1>1, <1>2, <1>3, <1>7, <1>8

\* Among measurements there is a first of the best.
LEMMA BestThere ==
    ASSUME IInv, NEW j \in dialog, NEW g, Members(j, g) # {}
    PROVE  Min(Winners(j, g)) \in Winners(j, g)
<1>1. PICK s \in Seq(Result) : s = job[j].results
  BY Measurements
<1>2. PICK M : M = Members(j, g)
  OBVIOUS
<1>3. M \in SUBSET (1..Len(s)) /\ M # {} /\ Len(s) \in Nat
  BY <1>1, <1>2 DEF Members
<1>4. IsFiniteSet(M)
  <2>1. IsFiniteSet(1..Len(s))
    BY <1>3, FS_Interval
  <2> QED
    BY <1>3, <2>1, FS_Subset
<1>5. PICK ok : ok = [k \in M |-> IF s[k].probe.status = "ok" THEN 1 ELSE 0]
  OBVIOUS
<1>6. PICK high : high = [k \in M |-> s[k].probe.height]
  OBVIOUS
<1>7. \A k \in M : ok[k] \in Int /\ high[k] \in Int
  <2>1. \A k \in M : s[k] \in Result
    BY <1>3
  <2>2. ASSUME NEW k \in M PROVE s[k].probe.height \in Int
    <3>1. s[k].probe \in ProbeSet
      BY <2>1 DEF Result
    <3>2. s[k].probe.height \in Heights \union {0}
      BY <3>1 DEF ProbeSet
    <3>3. PICK h \in Heights \union {0} : h = s[k].probe.height
      BY <3>2
    <3>4. h \in Int
      BY <3>3, ScanAssumptions
    <3> QED
      BY <3>3, <3>4
  <2> QED
    BY <1>5, <1>6, <2>2
<1>8. \A k, q \in M : Better(s[q].probe, s[k].probe) <=> ok[q] > ok[k] \/ (ok[q] = ok[k] /\ high[q] > high[k])
  BY <1>5, <1>6 DEF Better, Rank
<1>9. PICK a \in M : \A q \in M : ok[a] >= ok[q]
  <2>1. PICK S : S = {ok[k] : k \in M}
    OBVIOUS
  <2>2. S \in SUBSET Int /\ S # {} /\ IsFiniteSet(S)
    BY <1>3, <1>4, <1>7, <2>1, ImageFinite
  <2>3. Max(S) \in S /\ \A y \in S : Max(S) >= y
    BY <2>2, MaxOf
  <2> QED
    BY <2>1, <2>3
<1>10. PICK A : A = {k \in M : ok[k] = ok[a]}
  OBVIOUS
<1>11. PICK b \in A : \A q \in A : high[b] >= high[q]
  <2>1. PICK S : S = {high[k] : k \in A}
    OBVIOUS
  <2>2. IsFiniteSet(A) /\ A # {}
    BY <1>4, <1>9, <1>10, FS_Subset
  <2>3. S \in SUBSET Int /\ S # {} /\ IsFiniteSet(S)
    BY <1>7, <1>10, <2>1, <2>2, ImageFinite
  <2>4. Max(S) \in S /\ \A y \in S : Max(S) >= y
    BY <2>3, MaxOf
  <2> QED
    BY <2>1, <2>4
<1>12. \A q \in M : ~Better(s[q].probe, s[b].probe)
  <2>1. ASSUME NEW q \in M PROVE ~(ok[q] > ok[b] \/ (ok[q] = ok[b] /\ high[q] > high[b]))
    <3>1. b \in M /\ ok[b] = ok[a] /\ ok[a] >= ok[q]
      BY <1>9, <1>10
    <3>2. ok[q] = ok[b] => high[b] >= high[q]
      BY <1>10, <1>11, <3>1
    <3> QED
      BY <1>7, <3>1, <3>2
  <2> QED
    BY <1>8, <1>10, <2>1
<1>13. PICK W \in SUBSET Nat : W = Winners(j, g)
  <2>1. \A k \in Winners(j, g) : k \in M
    BY <1>2 DEF Winners
  <2> QED
    BY <1>3, <2>1
<1>14. b \in W
  BY <1>1, <1>2, <1>10, <1>12, <1>13 DEF Winners
<1>15. PICK m \in W : \A n \in W : m <= n
  BY <1>14, LeastNumber
<1>16. Min(W) \in W
  BY <1>15 DEF Min
<1> QED
  BY <1>13, <1>16

\* Two channels of a group stand for one channel, and not for two countries'.
LEMMA GroupAlike ==
    ASSUME IInv, NEW j \in Scans, NEW g \in Groups(j), NEW c \in g, NEW d \in g
    PROVE  /\ c \in DOMAIN scan[j].rows /\ d \in DOMAIN scan[j].rows
           /\ NameOf(j, d).key = NameOf(j, c).key
           /\ SplitCountries /\ NoCountry \notin {NameOf(j, c).country, NameOf(j, d).country}
                => NameOf(j, c).country = NameOf(j, d).country
<1>1. PICK e \in DOMAIN scan[j].rows : g = GroupOf(j, e)
  BY DEF Groups
<1>2. PICK alike : alike = {x \in DOMAIN scan[j].rows : NameOf(j, x).key = NameOf(j, e).key}
  OBVIOUS
<1>3. PICK countries : countries = {NameOf(j, x).country : x \in alike} \ {NoCountry}
  OBVIOUS
<1>4. g = IF ~SplitCountries \/ Cardinality(countries) < 2 THEN alike
          ELSE {x \in alike : NameOf(j, x).country = NameOf(j, e).country}
  BY <1>1, <1>2, <1>3 DEF GroupOf
<1>5. c \in alike /\ d \in alike
  BY <1>4
<1>6. ASSUME SplitCountries, NameOf(j, c).country # NoCountry, NameOf(j, d).country # NoCountry
      PROVE  NameOf(j, c).country = NameOf(j, d).country
  <2>1. CASE Cardinality(countries) < 2
    <3>1. PICK x \in countries, y \in countries : x = NameOf(j, c).country /\ y = NameOf(j, d).country
      BY <1>3, <1>5, <1>6
    <3>2. IsFiniteSet(countries)
      <4>1. IsFiniteSet(alike)
        <5>1. scan[j] \in ScanSet
          BY DEF IInv, TypeInv
        <5>2. alike \in SUBSET Channels
          BY <1>2, <5>1 DEF ScanSet, RowFns
        <5> QED
          BY <5>2, FS_Subset, ScanAssumptions
      <4>2. PICK f : f = [z \in alike |-> NameOf(j, z).country]
        OBVIOUS
      <4>3. PICK T : T = {f[z] : z \in alike}
        OBVIOUS
      <4>4. IsFiniteSet(T) /\ countries \in SUBSET T
        BY <1>3, <4>1, <4>2, <4>3, ImageFinite
      <4> QED
        BY <4>4, FS_Subset
    <3>3. x # y => Cardinality(countries) >= 2
      <4>1. ASSUME x # y PROVE Cardinality(countries) >= 2
        <5>1. IsFiniteSet({x}) /\ Cardinality({x}) = 1
          BY FS_Singleton
        <5>2. IsFiniteSet({x} \union {y}) /\ Cardinality({x} \union {y}) = 2
          <6>1. y \notin {x}
            BY <4>1
          <6>2. IsFiniteSet({x} \union {y}) /\ Cardinality({x} \union {y}) = Cardinality({x}) + 1
            BY <5>1, <6>1, FS_AddElement
          <6> QED
            BY <5>1, <6>2
        <5>3. {x} \union {y} \in SUBSET countries
          OBVIOUS
        <5>4. Cardinality({x} \union {y}) <= Cardinality(countries)
          BY <3>2, <5>3, FS_Subset
        <5> QED
          BY <3>2, <5>2, <5>4, FS_CardinalityType
      <4> QED
        BY <4>1
    <3>4. Cardinality(countries) \in Nat
      BY <3>2, FS_CardinalityType
    <3> QED
      BY <2>1, <3>1, <3>3, <3>4
  <2>2. CASE ~(Cardinality(countries) < 2)
    BY <1>4, <1>6, <2>2
  <2> QED
    BY <2>1, <2>2
<1> QED
  BY <1>2, <1>5, <1>6

KeptForIt ==
    \A j \in Scans, c \in Present \ Present' : ApplyDedupe(j) =>
      \E d \in DOMAIN scan[j].rows \ {c} :
        /\ NameOf(j, d).key = NameOf(j, c).key
        /\ SplitCountries /\ NoCountry \notin {NameOf(j, c).country, NameOf(j, d).country}
             => NameOf(j, c).country = NameOf(j, d).country
        /\ ResultOf(j, d).status = "ok" /\ ~Better(ResultOf(j, c), ResultOf(j, d))
        /\ d \in Present => d \in Present'

LEMMA DedupeKeeps == IInv /\ [Next]_vars => KeptForIt
<1> SUFFICES ASSUME IInv, NEW j \in Scans, NEW c \in Present \ Present', ApplyDedupe(j)
             PROVE  \E d \in DOMAIN scan[j].rows \ {c} :
                      /\ NameOf(j, d).key = NameOf(j, c).key
                      /\ SplitCountries /\ NoCountry \notin {NameOf(j, c).country, NameOf(j, d).country}
                           => NameOf(j, c).country = NameOf(j, d).country
                      /\ ResultOf(j, d).status = "ok" /\ ~Better(ResultOf(j, c), ResultOf(j, d))
                      /\ d \in Present => d \in Present'
  BY DEF KeptForIt
<1>1. j \in dialog /\ Present' = Present \ Proposed(j)
  BY DEF ApplyDedupe, Delete, Present
<1>2. c \in Proposed(j)
  BY <1>1
<1>3. PICK g \in Groups(j) : c \in g /\ Best(j, g) # {} /\ c \notin Keep(j)
  <2>1. c \in UNION {h \in Groups(j) : Best(j, h) # {}} /\ c \notin Keep(j)
    BY <1>2 DEF Proposed
  <2> QED
    BY <2>1
<1>4. PICK s \in Seq(Result) : s = job[j].results
  BY <1>1, Measurements
<1>5. c \in DOMAIN scan[j].rows
  BY <1>3, GroupAlike
<1>6. PICK q \in DOMAIN s : s[q].channel = c
  BY <1>1, <1>4, <1>5, Measurements
<1>7. q \in Members(j, g)
  BY <1>3, <1>4, <1>6 DEF Members
<1>8. PICK w : w = Min(Winners(j, g)) /\ w \in Winners(j, g)
  BY <1>1, <1>7, BestThere
<1>9. w \in DOMAIN s /\ s[w].channel \in g /\ ~Better(s[q].probe, s[w].probe)
  BY <1>4, <1>7, <1>8 DEF Winners, Members
<1>10. s[w].probe.status = "ok" /\ Best(j, g) = {s[w].channel}
  BY <1>3, <1>4, <1>8 DEF Best, Winner
<1>11. PICK d : d = s[w].channel
  OBVIOUS
<1>12. d \in g /\ d \in Keep(j) /\ d # c /\ d \notin Proposed(j)
  <2>1. d \in g /\ d \in Best(j, g)
    BY <1>9, <1>10, <1>11
  <2>2. d \in Keep(j)
    BY <2>1 DEF Keep
  <2>3. d \notin Proposed(j)
    BY <2>2 DEF Proposed
  <2> QED
    BY <1>3, <2>1, <2>2, <2>3
<1>13. ResultOf(j, d) = s[w].probe /\ ResultOf(j, c) = s[q].probe
  BY <1>1, <1>4, <1>6, <1>9, <1>11, Measurements
<1>14. /\ d \in DOMAIN scan[j].rows
       /\ NameOf(j, d).key = NameOf(j, c).key
       /\ SplitCountries /\ NoCountry \notin {NameOf(j, c).country, NameOf(j, d).country}
            => NameOf(j, c).country = NameOf(j, d).country
  BY <1>3, <1>12, GroupAlike
<1>15. d \in Present => d \in Present'
  BY <1>1, <1>12
<1> QED
  BY <1>9, <1>10, <1>12, <1>13, <1>14, <1>15

(* Whatever was scanned and however the names were grouped: a channel that the
   proposed choice deletes has a copy with the same key, not of another
   country, that played when it was scanned and is no worse, and the choice
   leaves that copy. *)
THEOREM DeletedOnlyForABetterCopy == Spec => DeletedForABetterCopy
<1>1. Spec => [][KeptForIt]_vars
  BY Invariance, DedupeKeeps, PTL DEF Spec
<1> QED
  BY <1>1 DEF DeletedForABetterCopy, KeptForIt
-----------------------------------------------------------------------------
(* Scans that run *)

\* A scan x whose job y runs, and is polled, is under way; whoever holds a slot is
\* being measured.
SlotOK(x, y, polled) ==
    /\ polled /\ y.status = "running" => x.step \in {"started", "probing", "written"}
    /\ x.step = "probing" => x.active \cap MeasuredIn(x.results) = {}

SlotInv == \A j \in Scans : SlotOK(scan[j], job[j], Contains(table, j))

\* A step of one scan.
LEMMA OneSlot ==
    ASSUME IInv, SlotInv, NEW j \in Scans, NEW x, NEW y,
           scan' = [scan EXCEPT ![j] = x], job' = [job EXCEPT ![j] = y],
           \A k \in Scans \ {j} : Contains(table, k)' => Contains(table, k),
           SlotOK(x, y, Contains(table, j)')
    PROVE  SlotInv'
<1>1. /\ scan'[j] = x /\ \A k \in Scans \ {j} : scan'[k] = scan[k]
      /\ job'[j] = y /\ \A k \in Scans \ {j} : job'[k] = job[k]
  BY DEF IInv, TypeInv
<1> QED
  BY <1>1 DEF SlotInv, SlotOK

\* An eviction lets no job in.
LEMMA EvictFewer ==
    ASSUME NEW ids \in Seq(Scans), NEW k, Contains(Evict(ids), k)
    PROVE  Contains(ids, k)
<1> DEFINE n == Len(ids)
           m == Min({n, MaxJobs})
<1>1. n \in Nat /\ m \in Nat /\ m <= n
  BY Numbers, ScanAssumptions
<1>2. Evict(ids) = SubSeq(ids, n - m + 1, n)
  BY DEF Evict
<1>3. \A i \in n - m + 1 .. n : ids[i] \in Scans
  BY <1>1
<1> HIDE DEF m
<1>4. Len(SubSeq(ids, n - m + 1, n)) = m
      /\ \A i \in 1..m : SubSeq(ids, n - m + 1, n)[i] = ids[n - m + i]
  BY <1>1, <1>3, SubSeqProperties
<1>5. PICK i \in 1..m : ids[n - m + i] = k
  BY <1>2, <1>4 DEF Contains
<1>6. n - m + i \in 1..n
  BY <1>1
<1> QED
  BY <1>5, <1>6 DEF Contains

LEMMA SlotStart == ASSUME IInv, SlotInv, NEW j \in Scans, NEW S, StartScan(j, S) PROVE SlotInv'
<1>1. PICK x : x = [scan[j] EXCEPT !.step = "started", !.asked = S]
  OBVIOUS
<1>2. x.step = "started"
  BY <1>1 DEF IInv, TypeInv, ScanSet
<1>3. PICK y : y = [NoJob EXCEPT !.status = "running", !.total = Cardinality(S)]
  OBVIOUS
<1>4. scan' = [scan EXCEPT ![j] = x] /\ job' = [job EXCEPT ![j] = y]
  BY <1>1, <1>3 DEF StartScan
<1>5. ASSUME NEW k \in Scans \ {j}, Contains(table, k)' PROVE Contains(table, k)
  <2>1. table \in Seq(Scans) /\ Append(table, j) \in Seq(Scans) /\ table' = Evict(Append(table, j))
    BY DEF StartScan, IInv, TypeInv
  <2>2. Contains(Append(table, j), k)
    BY <1>5, <2>1, EvictFewer
  <2>3. PICK i \in 1..Len(Append(table, j)) : Append(table, j)[i] = k
    BY <2>2 DEF Contains
  <2>4. i \in 1..Len(table) /\ table[i] = k
    BY <2>1, <2>3
  <2> QED
    BY <2>4 DEF Contains
<1>6. SlotOK(x, y, Contains(table, j)')
  BY <1>2 DEF SlotOK
<1> QED
  BY <1>4, <1>5, <1>6, OneSlot

LEMMA SlotLoad == ASSUME IInv, SlotInv, NEW j \in Scans, Load(j) PROVE SlotInv'
<1>1. /\ scan[j] \in ScanSet /\ CountOK(scan[j], job[j]) /\ scan[j].step = "started"
      /\ job' = [job EXCEPT ![j] = job[j]] /\ table' = table
  BY DEF IInv, TypeInv, CountInv, Load
<1>2. scan[j].active = {}
  BY <1>1 DEF CountOK
<1>3. CASE Contains(table, j)
  <2>1. PICK x : x = [scan[j] EXCEPT !.step = "probing", !.rows = [c \in scan[j].asked \cap Present |-> channel[c]]]
    OBVIOUS
  <2>2. x.step = "probing" /\ x.active = {}
    BY <1>1, <1>2, <2>1 DEF ScanSet
  <2>3. scan' = [scan EXCEPT ![j] = x]
    BY <1>3, <2>1 DEF Load
  <2>4. SlotOK(x, job[j], Contains(table, j)')
    BY <2>2 DEF SlotOK
  <2> QED
    BY <1>1, <2>3, <2>4, OneSlot
<1>4. CASE ~Contains(table, j)
  <2>1. PICK x : x = [scan[j] EXCEPT !.step = "ended"]
    OBVIOUS
  <2>2. x.step = "ended"
    BY <1>1, <2>1 DEF ScanSet
  <2>3. scan' = [scan EXCEPT ![j] = x]
    BY <1>4, <2>1 DEF Load
  <2>4. SlotOK(x, job[j], Contains(table, j)')
    BY <1>1, <1>4, <2>2 DEF SlotOK
  <2> QED
    BY <1>1, <2>3, <2>4, OneSlot
<1> QED
  BY <1>3, <1>4

LEMMA SlotAcquire == ASSUME IInv, SlotInv, NEW j \in Scans, NEW c, Acquire(j, c) PROVE SlotInv'
<1>1. /\ scan[j] \in ScanSet /\ scan[j].step = "probing" /\ SlotOK(scan[j], job[j], Contains(table, j))
      /\ job' = [job EXCEPT ![j] = job[j]] /\ table' = table
  BY DEF IInv, TypeInv, SlotInv, Acquire
<1>2. PICK x : x = [scan[j] EXCEPT !.active = scan[j].active \union {c}]
  OBVIOUS
<1>3. x.step = "probing" /\ x.active = scan[j].active \union {c} /\ x.results = scan[j].results
  BY <1>1, <1>2 DEF ScanSet
<1>4. scan' = [scan EXCEPT ![j] = x]
  BY <1>2 DEF Acquire
<1>5. c \notin MeasuredIn(scan[j].results)
  BY DEF Acquire, Waiting, MeasuredIn
<1>6. SlotOK(x, job[j], Contains(table, j)')
  BY <1>1, <1>3, <1>5 DEF SlotOK
<1> QED
  BY <1>1, <1>4, <1>6, OneSlot

\* A measurement frees the slot of what was measured.
LEMMA SlotMeasure == ASSUME IInv, SlotInv, NEW j \in Scans, NEW c \in Channels, Probe(j, c) \/ NothingToProbe(j, c) PROVE SlotInv'
<1>1. /\ scan[j] \in ScanSet /\ job[j] \in JobSet /\ SlotOK(scan[j], job[j], Contains(table, j))
      /\ CountOK(scan[j], job[j]) /\ scan[j].step = "probing" /\ scan[j].results \in Seq(Result)
  BY DEF IInv, TypeInv, CountInv, SlotInv, ScanSet, Probe, NothingToProbe
<1>2. PICK probe \in ProbeSet : Answers(j, c, probe)
  <2>1. \/ \E h \in Heights : Answers(j, c, [status |-> "ok", height |-> h])
        \/ \E s \in Failures \union {"no_url"} : Answers(j, c, [status |-> s, height |-> 0])
    BY DEF Probe, NothingToProbe
  <2> QED
    BY <2>1, ProbeTypes
<1>3. PICK r : r = [channel |-> c, probe |-> probe] /\ r \in Result /\ r.channel = c
  <2>1. [channel |-> c, probe |-> probe] \in Result
    BY <1>2 DEF Result
  <2>2. [channel |-> c, probe |-> probe].channel = c
    OBVIOUS
  <2> QED
    BY <2>1, <2>2
<1>4. PICK results : results = Append(scan[j].results, r)
  OBVIOUS
<1>5. MeasuredIn(results) = MeasuredIn(scan[j].results) \union {c}
  BY <1>1, <1>3, <1>4, OneMore
<1>6. PICK x : x = [scan[j] EXCEPT !.active = scan[j].active \ {c}, !.results = results]
  OBVIOUS
<1>7. x.step = "probing" /\ x.active = scan[j].active \ {c} /\ x.results = results
  BY <1>1, <1>6 DEF ScanSet
<1>8. PICK y : y = [job[j] EXCEPT !.completed = @ + 1]
  OBVIOUS
<1>9. scan' = [scan EXCEPT ![j] = x] /\ job' = [job EXCEPT ![j] = y] /\ table' = table
  BY <1>2, <1>3, <1>4, <1>6, <1>8 DEF Answers, Released
<1>10. SlotOK(x, y, Contains(table, j)')
  BY <1>1, <1>5, <1>7 DEF SlotOK
<1> QED
  BY <1>9, <1>10, OneSlot

LEMMA SlotEnds == ASSUME IInv, SlotInv, NEW j \in Scans, ScanFails(j) \/ Finish(j) PROVE SlotInv'
<1>1. scan[j] \in ScanSet /\ job[j] \in JobSet /\ table' = table
  BY DEF IInv, TypeInv, ScanFails, Finish
<1>2. PICK x : x = Ends(j)
  OBVIOUS
<1>3. x.step = "ended" /\ scan' = [scan EXCEPT ![j] = x]
  BY <1>1, <1>2 DEF Ends, ScanSet, ScanFails, Finish
<1>4. PICK y : job' = [job EXCEPT ![j] = y] /\ y.status \in {"error", "done"}
  <2>1. CASE ScanFails(j)
    <3>1. PICK y : y = [job[j] EXCEPT !.status = "error"]
      OBVIOUS
    <3>2. y.status = "error" /\ job' = [job EXCEPT ![j] = y]
      BY <1>1, <2>1, <3>1 DEF ScanFails, JobSet
    <3> QED
      BY <3>2
  <2>2. CASE Finish(j)
    <3>1. PICK y : y = [job[j] EXCEPT !.status = "done", !.results = scan[j].results]
      OBVIOUS
    <3>2. y.status = "done" /\ job' = [job EXCEPT ![j] = y]
      BY <1>1, <2>2, <3>1 DEF Finish, JobSet
    <3> QED
      BY <3>2
  <2> QED
    BY <2>1, <2>2
<1>5. SlotOK(x, y, Contains(table, j)')
  BY <1>3, <1>4 DEF SlotOK
<1> QED
  BY <1>1, <1>3, <1>4, <1>5, OneSlot

LEMMA SlotWrite == ASSUME IInv, SlotInv, NEW j \in Scans, Write(j) PROVE SlotInv'
<1> DEFINE rows == DOMAIN scan[j].rows
<1>1. job' = job /\ table' = table /\ scan \in [Scans -> ScanSet] /\ scan[j].step = "probing"
  BY DEF Write, IInv, TypeInv
<1>2. ASSUME NEW k \in Scans
      PROVE  /\ scan'[k].step = scan[k].step \/ scan'[k].step = "written"
             /\ scan'[k].active = scan[k].active /\ scan'[k].results = scan[k].results
             /\ scan'[k].step = "written" /\ scan[k].step # "written" => k = j
  <2>1. CASE k = j
    <3>1. scan'[k] = [scan[k] EXCEPT !.step = "written"]
      BY <2>1 DEF Write
    <3> QED
      BY <1>1, <2>1, <3>1 DEF ScanSet
  <2>2. CASE k # j /\ scan[k].step # "probing"
    BY <2>2 DEF Write
  <2>3. CASE k # j /\ scan[k].step = "probing"
    <3>1. scan'[k] = [scan[k] EXCEPT !.met = @ \union (rows \cap DOMAIN scan[k].rows)]
      BY <2>3 DEF Write
    <3> QED
      BY <1>1, <2>3, <3>1 DEF ScanSet
  <2> QED
    BY <2>1, <2>2, <2>3
<1> QED
  BY <1>1, <1>2 DEF SlotInv, SlotOK

(* The slots of a semaphore are held by probes under way, and a job that runs
   and is polled has a scan under way. *)
THEOREM SlotInvariance == Spec => []SlotInv
<1>1. Init => SlotInv
  <2>1. NoScan.step = "none" /\ NoJob.status = "none"
    BY DEF NoScan, NoJob
  <2> QED
    BY <2>1 DEF Init, SlotInv, SlotOK
<1>2. IInv /\ SlotInv /\ [Next]_vars => SlotInv'
  <2> SUFFICES ASSUME IInv, SlotInv, [Next]_vars PROVE SlotInv'
    OBVIOUS
  <2>1. CASE \E j \in Scans : Work(j)
    BY <2>1, SlotLoad, SlotWrite, SlotEnds, SlotAcquire, SlotMeasure DEF Work
  <2>2. CASE \E j \in Scans : ScanFails(j)
    BY <2>2, SlotEnds
  <2>3. CASE \E j \in Scans, S \in Requests : StartScan(j, S \cap Present)
    BY <2>3, SlotStart
  <2>4. CASE UNCHANGED <<scan, job, table>>
    BY <2>4 DEF SlotInv
  <2> QED
    BY <2>1, <2>2, <2>3, <2>4 DEF Next, Poll, ApplyDedupe, TagResolution, DeleteChannels, vars
<1> QED
  BY <1>1, <1>2, Invariance, PTL DEF Spec

(* A scan that is polled and runs has a step to take that waits for nothing else,
   for any channels, scans and number of slots: what ScanEnds asks of the code,
   but for the fairness of the event loop. *)
THEOREM ScansAlwaysGoOn == Spec => []ScansGoOn
<1>1. IInv /\ SlotInv => ScansGoOn
  <2> SUFFICES ASSUME IInv, SlotInv PROVE ScansGoOn
    OBVIOUS
  <2> SUFFICES ASSUME NEW j \in Scans, Contains(table, j), job[j].status = "running", scan[j].step = "probing",
                      DOMAIN scan[j].rows # {r.channel : r \in Probed(j)}, Waiting(j) \cap NoUrl = {},
                      ~\E c \in scan[j].active : \A r \in ToSet(scan[j].results) : r.channel # c
               PROVE  Waiting(j) \ NoUrl # {} /\ Cardinality(scan[j].active) < Max({1, Concurrency})
    <3>1. SUFFICES ASSUME NEW k \in Scans, Contains(table, k), job[k].status = "running" PROVE CanGoOn(k)
      BY DEF ScansGoOn
    <3>2. scan[k].step \in {"started", "probing", "written"}
      BY <3>1 DEF SlotInv, SlotOK
    <3> QED
      BY <3>1, <3>2 DEF CanGoOn
  <2>1. /\ CountOK(scan[j], job[j]) /\ scan[j] \in ScanSet /\ scan[j].results \in Seq(Result)
        /\ scan[j].active \cap MeasuredIn(scan[j].results) = {}
    BY DEF IInv, TypeInv, CountInv, SlotInv, SlotOK, ScanSet
  <2>2. scan[j].active = {}
    BY <2>1 DEF MeasuredIn
  <2>3. Probed(j) = ToSet(scan[j].results)
    BY <2>1 DEF Probed, Range, ToSet
  <2>4. MeasuredIn(scan[j].results) # DOMAIN scan[j].rows /\ MeasuredIn(scan[j].results) \subseteq DOMAIN scan[j].rows
    BY <2>1, <2>3 DEF MeasuredIn, CountOK
  <2>5. Waiting(j) = DOMAIN scan[j].rows \ MeasuredIn(scan[j].results)
    BY <2>2 DEF Waiting, MeasuredIn
  <2>6. Cardinality(scan[j].active) = 0
    BY <2>2, FS_EmptySet
  <2>7. Cardinality(scan[j].active) < Max({1, Concurrency})
    <3>1. \A n \in Nat : n >= 1 => 0 < n
      OBVIOUS
    <3> QED
      BY <2>6, <3>1, Numbers
  <2>8. Waiting(j) # {}
    BY <2>4, <2>5
  <2>9. Waiting(j) \ NoUrl # {}
    BY <2>8
  <2> QED
    BY <2>7, <2>9
<1> QED
  BY <1>1, Invariance, SlotInvariance, PTL
=============================================================================
