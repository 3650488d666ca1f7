------------------------ MODULE SyncRevision_proofs ------------------------
(***************************************************************************)
(* A 304 is right: the proofs of the invariants of SyncRevision, for any   *)
(* number of TVs, transactions, rows, ticks in a second and observed       *)
(* revisions.                                                              *)
(*                                                                         *)
(* The argument for the ETag: what a copy was tagged with is either still  *)
(* there, row by row, or the aggregates show it.  Newcomers have greater   *)
(* ids than all that was there, so number and sum of ids give away any     *)
(* exchange; a row's edit, unless late, is newer than all there is; a link *)
(* is only ever lost.  The argument for the date: it grows whenever        *)
(* another revision is observed.                                           *)
(***************************************************************************)
EXTENDS SyncRevision, SetSums_proofs

\* The rows that are there, and the newest stamp, of a table f over the ids R.
Here(R, f) == {r \in R : f[r].val # 0}
Top(R, f)  == Max({0} \union {f[r].stamp : r \in Here(R, f)})

\* What at, a list's content when its revision was read with newest, has to do
\* with the table f now.  next is the sequence of ids.
Keeps(R, f, next, at, newest, late) ==
    /\ DOMAIN at \subseteq R /\ \A a \in DOMAIN at : a < next
    /\ \A b \in Here(R, f) \ DOMAIN at, a \in DOMAIN at : a < b
    /\ DOMAIN at \subseteq Here(R, f) /\ ~late =>
         /\ newest = 0 \/ \E r \in DOMAIN at : f[r].stamp >= newest
         /\ \A r \in DOMAIN at : /\ f[r].val = at[r][1] \/ f[r].stamp > newest
                                 /\ f[r].linked => at[r][2]

\* tag is the aggregate of at.
Tagged(at, tag) ==
    /\ tag.n = Cardinality(DOMAIN at) /\ tag.sum = SumSet(DOMAIN at)
    /\ tag.linked = Cardinality({r \in DOMAIN at : at[r][2]})

-----------------------------------------------------------------------------
(* Types *)

Row      == [val : Nat, stamp : Nat, linked : BOOLEAN]
Parts    == [n : Nat, sum : Int, newest : Nat, linked : Nat] \union [newest : Nat] \union {<<>>}
Contents == (UNION {[A -> Nat \X BOOLEAN] : A \in SUBSET Nat}) \union {<<>>}
Tags     == [Tables -> Parts]
Lists    == [Tables -> Contents]
Copies   == [tag : Tags, tagUrl : Nat, lm : Int, at : Lists, next : Nat, body : Lists, url : Nat, late : BOOLEAN, undated : BOOLEAN]
Steps    == {"idle", "chan", "src", "same", "body", "rest"}
Ways     == {"plain", "tag", "date"}
Asked    == [step : Steps, how : Ways, was : Lists, new : Copies]
Revs     == [tag : Tags, url : Nat]
Observed == [rev : Revs, lm : Nat \ {0}]

TableInv ==
    /\ tab = [t \in Tables |-> tab[t]]
    /\ \A t \in Tables : tab[t] \in [RowsOf(t) -> Row]
    /\ \A t \in Tables : \A r \in RowsOf(t) : tab[t][r].stamp <= now /\ tab[t][r].val <= edits + 1
    /\ tab["src"][1].val # 0 /\ tab["src"][1].linked
    /\ nextRow \in 3..MaxRow + 1
    /\ \A r \in Here(RowsOf("chan"), tab["chan"]) : r < nextRow

\* Every transaction began at its own time.
TimeInv ==
    /\ edits \in 0..MaxEdits
    /\ now \in Nat /\ now <= MaxNow + TicksPerSecond * edits
    /\ txn \in [Txns -> 0..now]
    /\ \A x \in Txns : txn[x] # 0 =>
         /\ \A y \in Txns : y # x => txn[y] # txn[x]
         /\ \A t \in Tables : \A r \in RowsOf(t) : tab[t][r].stamp # txn[x]

ServerInv ==
    /\ boot \in Nat \ {0}
    /\ observed = NoEntry \/ (observed \in Observed /\ observed.lm >= boot)
    /\ others \in Nat /\ Entries <= MaxObserved

UrlInv == urlLoaded \in Nat /\ urlSet \in Nat

RequestType ==
    /\ copy \in [TVs -> Copies] /\ rq \in [TVs -> Asked]
    /\ \A v \in TVs : /\ copy[v] # NoCopy => copy[v].lm >= 1
                      /\ rq[v].step \in {"body", "rest"} => rq[v].new.lm >= 1
                      /\ rq[v].step \in {"idle", "chan"} => rq[v].new = NoCopy
                      /\ rq[v].step # "idle" /\ rq[v].how # "plain" => copy[v] # NoCopy

KeptBy(t, f, next, c) ==
    /\ Keeps(RowsOf(t), f, next, c.at[t], c.tag[t].newest, c.late)
    /\ c.at[t] \in [DOMAIN c.at[t] -> Nat \X BOOLEAN] /\ c.tag[t].newest \in Nat
    /\ t = "chan" => Tagged(c.at[t], c.tag[t])
    /\ t = "src" => 1 \in DOMAIN c.at[t]

KeptIn(t, c) == KeptBy(t, tab[t], nextRow, c)

\* The lists kept and those under way.
KeptInv ==
    \A v \in TVs :
      /\ copy[v] # NoCopy => KeptIn("chan", copy[v]) /\ KeptIn("src", copy[v])
      /\ rq[v].step \in {"src", "body", "rest"} => KeptIn("chan", rq[v].new)
      /\ rq[v].step \in {"body", "rest"} => KeptIn("src", rq[v].new)

\* The date of c has passed, or is that of the revision now observed.
DatedBy(entry, start, c) ==
    c.undated \/ IF entry = NoEntry THEN c.lm < start
                 ELSE c.lm < entry.lm \/ (c.lm = entry.lm /\ entry.rev = [tag |-> c.tag, url |-> c.tagUrl])

DatedIn(c) == DatedBy(observed, boot, c)

DateInv ==
    \A v \in TVs : /\ copy[v] # NoCopy => DatedIn(copy[v])
                   /\ rq[v].step \in {"body", "rest"} => DatedIn(rq[v].new)

\* Between the two SELECTs of a revision, and after them.
MatchInv ==
    \A v \in TVs :
      /\ rq[v].step = "src" /\ copy[v] # NoCopy /\ rq[v].new.tag["chan"] = copy[v].tag["chan"] =>
           rq[v].was["chan"] = copy[v].at["chan"] \/ copy[v].late
      /\ rq[v].step = "same" /\ rq[v].how = "tag" =>
           copy[v].tagUrl = rq[v].new.tagUrl /\ (AsWhenTagged(v) \/ copy[v].late)
      /\ rq[v].step = "same" /\ rq[v].how = "date" => AsWhenTagged(v) \/ copy[v].late \/ copy[v].undated

RevisionInv ==
    TableInv /\ TimeInv /\ ServerInv /\ UrlInv /\ RequestType /\ KeptInv /\ DateInv /\ MatchInv

-----------------------------------------------------------------------------
(* Aggregates *)

LEMMA TopOf ==
    ASSUME NEW R, NEW f \in [R -> Row], NEW b \in Nat, \A r \in R : f[r].stamp <= b
    PROVE  /\ Top(R, f) \in Nat /\ Top(R, f) <= b
           /\ \A r \in Here(R, f) : f[r].stamp <= Top(R, f)
           /\ Top(R, f) = 0 \/ \E r \in Here(R, f) : f[r].stamp = Top(R, f)
<1> DEFINE S == {0} \union {f[r].stamp : r \in Here(R, f)}
<1>1. \A r \in R : f[r].stamp \in Nat
  BY DEF Row
<1>2. S \in SUBSET Nat /\ \A x \in S : x <= b
  BY <1>1 DEF Here
<1>3. S # {} /\ \A r \in Here(R, f) : f[r].stamp \in S
  OBVIOUS
<1>4. \A x \in S : x = 0 \/ \E r \in Here(R, f) : f[r].stamp = x
  OBVIOUS
<1>5. Top(R, f) = Max(S)
  BY DEF Top
<1> HIDE DEF S
<1>6. Max(S) \in S /\ \A y \in S : Max(S) >= y
  <2>1. IsFiniteSet(S) /\ S \in SUBSET Int
    BY <1>2, FS_BoundedSetOfNaturals
  <2> QED
    BY <2>1, <1>3, MaxOf
<1>7. Top(R, f) \in S /\ \A y \in S : y <= Top(R, f)
  BY <1>2, <1>5, <1>6
<1> QED
  BY <1>2, <1>3, <1>4, <1>7

\* A change of the table that is not hidden from the aggregates: new rows have
\* new ids, links are only lost, an edit is newer than all there is or late.
Shows(R, f, g, next, late) ==
    \A r \in Here(R, g) :
      \/ r \notin Here(R, f) /\ r >= next
      \/ /\ r \in Here(R, f) /\ g[r].val = f[r].val /\ g[r].stamp = f[r].stamp
         /\ g[r].linked => f[r].linked
      \/ /\ r \in Here(R, f) /\ g[r].linked = f[r].linked
         /\ late \/ g[r].stamp > Top(R, f)

LEMMA KeepsOn ==
    ASSUME NEW R \in SUBSET Nat, NEW f \in [R -> Row], NEW g \in [R -> Row], NEW b \in Nat, \A r \in R : f[r].stamp <= b,
           NEW next \in Nat, NEW next2 \in Nat, next <= next2,
           NEW at, NEW newest \in Nat, NEW late \in BOOLEAN, NEW late2 \in BOOLEAN, late => late2, NEW now_late \in BOOLEAN,
           now_late => late2,
           Keeps(R, f, next, at, newest, late), Shows(R, f, g, next, now_late)
    PROVE  Keeps(R, g, next2, at, newest, late2)
<1> DEFINE A == DOMAIN at
<1>1. A \subseteq R /\ \A a \in A : a < next2
  <2>1. A \subseteq R /\ \A a \in A : a < next /\ a \in Nat
    BY DEF Keeps
  <2> QED
    BY <2>1
<1>2. \A c \in Here(R, g) \ A, a \in A : a < c
  <2> SUFFICES ASSUME NEW c \in Here(R, g) \ A, NEW a \in A PROVE a < c
    OBVIOUS
  <2>1. c \in Here(R, f) \/ c >= next
    BY DEF Shows
  <2>2. c \in Here(R, f) => a < c
    BY DEF Keeps
  <2>3. a < next /\ a \in Nat /\ c \in Nat
    BY DEF Keeps, Here
  <2> QED
    BY <2>1, <2>2, <2>3
<1>3. ASSUME A \subseteq Here(R, g), ~late2
      PROVE  /\ newest = 0 \/ \E r \in A : g[r].stamp >= newest
             /\ \A r \in A : /\ g[r].val = at[r][1] \/ g[r].stamp > newest
                             /\ g[r].linked => at[r][2]
  <2>1. ~late /\ ~now_late
    BY <1>3
  <2>2. A \subseteq Here(R, f)
    <3> SUFFICES ASSUME NEW a \in A PROVE a \in Here(R, f)
      OBVIOUS
    <3>1. a < next /\ a \in Nat
      BY <1>1 DEF Keeps
    <3> QED
      BY <3>1, <1>3 DEF Shows
  <2>3. /\ newest = 0 \/ \E r \in A : f[r].stamp >= newest
        /\ \A r \in A : /\ f[r].val = at[r][1] \/ f[r].stamp > newest
                        /\ f[r].linked => at[r][2]
    BY <2>1, <2>2 DEF Keeps
  <2>4. /\ Top(R, f) \in Nat /\ \A r \in Here(R, f) : f[r].stamp <= Top(R, f)
    BY TopOf
  <2>5. \A r \in A : r \in R /\ f[r].stamp \in Nat /\ g[r].stamp \in Nat
    BY <1>1 DEF Row
  <2>6. newest <= Top(R, f)
    BY <2>2, <2>3, <2>4, <2>5
  <2>7. ASSUME NEW r \in A
        PROVE  \/ g[r].val = f[r].val /\ g[r].stamp = f[r].stamp /\ (g[r].linked => f[r].linked)
               \/ g[r].linked = f[r].linked /\ g[r].stamp > Top(R, f)
    <3>1. r \in Here(R, g) /\ r \in Here(R, f)
      BY <1>3, <2>2
    <3> QED
      BY <2>1, <3>1 DEF Shows
  <2>8. newest = 0 \/ \E r \in A : g[r].stamp >= newest
    <3>1. CASE newest # 0
      <4>1. PICK r \in A : f[r].stamp >= newest
        BY <2>3, <3>1
      <4>2. g[r].stamp = f[r].stamp \/ g[r].stamp > Top(R, f)
        BY <2>7
      <4>3. g[r].stamp >= newest
        BY <4>1, <4>2, <2>4, <2>5, <2>6
      <4> QED
        BY <4>3
    <3> QED
      BY <3>1
  <2>9. ASSUME NEW r \in A
        PROVE  /\ g[r].val = at[r][1] \/ g[r].stamp > newest
               /\ g[r].linked => at[r][2]
    <3>1. /\ f[r].val = at[r][1] \/ f[r].stamp > newest
          /\ f[r].linked => at[r][2]
      BY <2>3
    <3>2. CASE g[r].val = f[r].val /\ g[r].stamp = f[r].stamp /\ (g[r].linked => f[r].linked)
      BY <3>1, <3>2
    <3>3. CASE g[r].linked = f[r].linked /\ g[r].stamp > Top(R, f)
      BY <3>1, <3>3, <2>4, <2>5, <2>6
    <3> QED
      BY <3>2, <3>3, <2>7
  <2> QED
    BY <2>8, <2>9
<1> QED
  BY <1>1, <1>2, <1>3 DEF Keeps

LEMMA KeptRows ==
    ASSUME NEW R \in SUBSET Nat, IsFiniteSet(R), NEW f \in [R -> Row], NEW b \in Nat, \A r \in R : f[r].stamp <= b,
           NEW next, NEW at, NEW newest \in Nat, Keeps(R, f, next, at, newest, FALSE),
           Cardinality(DOMAIN at) = Cardinality(Here(R, f)), SumSet(DOMAIN at) = SumSet(Here(R, f)),
           newest = Top(R, f)
    PROVE  /\ DOMAIN at = Here(R, f) /\ IsFiniteSet(DOMAIN at)
           /\ \A r \in DOMAIN at : f[r].val = at[r][1] /\ (f[r].linked => at[r][2])
<1> DEFINE A == DOMAIN at
           H == Here(R, f)
<1>1. A \subseteq R /\ H \subseteq R /\ IsFiniteSet(A) /\ IsFiniteSet(H) /\ A \in SUBSET Int /\ H \in SUBSET Int
  <2>1. A \in SUBSET R /\ H \in SUBSET R
    BY DEF Keeps, Here
  <2>2. IsFiniteSet(A) /\ IsFiniteSet(H)
    BY <2>1, FS_Subset
  <2>3. A \in SUBSET Int /\ H \in SUBSET Int
    <3> HIDE DEF A, H
    <3> QED
      BY <2>1
  <2> QED
    BY <2>1, <2>2, <2>3
<1>2. A = H
  <2>1. \A c \in H \ A, a \in A : a < c
    BY DEF Keeps
  <2> QED
    BY <2>1, <1>1, SameSet
<1>3. ASSUME NEW r \in A
      PROVE  f[r].val = at[r][1] /\ (f[r].linked => at[r][2])
  <2>1. f[r].val = at[r][1] \/ f[r].stamp > newest
    BY <1>2 DEF Keeps
  <2>2. f[r].linked => at[r][2]
    BY <1>2 DEF Keeps
  <2>3. r \in H /\ r \in R
    BY <1>1, <1>2
  <2>4. f[r].stamp <= newest /\ f[r].stamp \in Nat
    BY <2>3, TopOf DEF Row
  <2> HIDE DEF A, H
  <2> QED
    BY <2>1, <2>2, <2>4
<1> QED
  BY <1>1, <1>2, <1>3

\* What was read is what is there now, if the aggregates are the same.
LEMMA KeptIsExact ==
    ASSUME NEW R \in SUBSET Nat, IsFiniteSet(R), NEW f \in [R -> Row], NEW b \in Nat, \A r \in R : f[r].stamp <= b,
           NEW next, NEW at, at \in [DOMAIN at -> Nat \X BOOLEAN], NEW newest \in Nat,
           Keeps(R, f, next, at, newest, FALSE),
           Cardinality(DOMAIN at) = Cardinality(Here(R, f)), SumSet(DOMAIN at) = SumSet(Here(R, f)),
           Cardinality({r \in DOMAIN at : at[r][2]}) = Cardinality({r \in Here(R, f) : f[r].linked}),
           newest = Top(R, f)
    PROVE  at = [r \in Here(R, f) |-> <<f[r].val, f[r].linked>>]
<1> DEFINE A == DOMAIN at
           H == Here(R, f)
           LA == {r \in A : at[r][2]}
           LH == {r \in H : f[r].linked}
<1>1. A = H /\ IsFiniteSet(A)
  BY KeptRows
<1>2. \A r \in A : f[r].val = at[r][1]
  BY KeptRows
<1>3. \A r \in A : f[r].linked => at[r][2]
  BY KeptRows
<1>6. LH = LA
  <2>1. LH \in SUBSET LA
    BY <1>1, <1>3
  <2>2. IsFiniteSet(LA)
    BY <1>1, FS_Subset
  <2>3. Cardinality(LA) = Cardinality(LH)
    OBVIOUS
  <2> HIDE DEF LA, LH
  <2> QED
    BY <2>1, <2>2, <2>3, FS_Subset
<1>7. \A r \in A : f[r].linked = at[r][2]
  <2> SUFFICES ASSUME NEW r \in A PROVE f[r].linked = at[r][2]
    OBVIOUS
  <2>1. f[r].linked \in BOOLEAN /\ at[r][2] \in BOOLEAN
    BY <1>1 DEF Row, Here
  <2>2. f[r].linked <=> at[r][2]
    BY <1>1, <1>6
  <2> QED
    BY <2>1, <2>2
<1>8. \A r \in A : at[r] = <<f[r].val, f[r].linked>>
  BY <1>2, <1>7
<1>9. at = [r \in A |-> at[r]]
  OBVIOUS
<1> QED
  BY <1>1, <1>8, <1>9

-----------------------------------------------------------------------------
(* The model's names for it *)

LEMMA RowsFinite ==
    ASSUME NEW t \in Tables
    PROVE  RowsOf(t) \in SUBSET Nat /\ IsFiniteSet(RowsOf(t))
<1>1. IsFiniteSet(1..MaxRow) /\ IsFiniteSet({1})
  <2>1. 1 \in Int /\ MaxRow \in Int
    BY RevisionAssumptions
  <2> QED
    BY <2>1, FS_Interval, FS_Singleton
<1> QED
  BY <1>1, RevisionAssumptions DEF RowsOf

LEMMA ReadNow ==
    ASSUME TableInv, TimeInv, NEW t \in Tables
    PROVE  /\ Present(t) = Here(RowsOf(t), tab[t]) /\ Newest(t) = Top(RowsOf(t), tab[t])
           /\ Content(t) = [r \in Here(RowsOf(t), tab[t]) |-> <<tab[t][r].val, tab[t][r].linked>>]
           /\ Content(t) \in [Here(RowsOf(t), tab[t]) -> Nat \X BOOLEAN] /\ Content(t) \in Contents
           /\ Part(t) \in Parts /\ Part(t).newest = Newest(t) /\ Newest(t) \in Nat
           /\ t = "chan" => /\ Part(t).n = Cardinality(Present(t)) /\ Part(t).sum = SumSet(Present(t))
                            /\ Part(t).linked = Cardinality({r \in Present(t) : tab[t][r].linked})
<1> DEFINE H == Here(RowsOf(t), tab[t])
<1>1. Present(t) = H /\ Newest(t) = Top(RowsOf(t), tab[t])
  BY DEF Present, Newest, Here, Top
<1>2. tab[t] \in [RowsOf(t) -> Row] /\ now \in Nat /\ \A r \in RowsOf(t) : tab[t][r].stamp <= now
  BY DEF TableInv, TimeInv
<1>3. Newest(t) \in Nat
  BY <1>1, <1>2, TopOf
<1>4. H \in SUBSET RowsOf(t) /\ H \in SUBSET Nat /\ IsFiniteSet(H)
  <2>1. H \in SUBSET RowsOf(t)
    BY DEF Here
  <2> HIDE DEF H
  <2> QED
    BY <2>1, RowsFinite, FS_Subset
<1>5. Content(t) = [r \in H |-> <<tab[t][r].val, tab[t][r].linked>>]
  BY <1>1 DEF Content
<1>6. \A r \in H : <<tab[t][r].val, tab[t][r].linked>> \in Nat \X BOOLEAN
  BY <1>2, <1>4 DEF Row
<1>7. Content(t) \in [H -> Nat \X BOOLEAN]
  BY <1>5, <1>6
<1>8. Content(t) \in Contents
  <2> HIDE DEF H
  <2> QED
    BY <1>4, <1>7 DEF Contents
<1>9. CASE t = "src"
  <2>1. Part(t) = [newest |-> Newest(t)]
    BY <1>9 DEF Part
  <2>2. Part(t) \in Parts /\ Part(t).newest = Newest(t)
    BY <2>1, <1>3 DEF Parts
  <2> QED
    BY <2>2, <1>1, <1>3, <1>5, <1>7, <1>8, <1>9
<1>10. CASE t = "chan"
  <2> DEFINE n == Cardinality(Present(t))
             sum == SumSet(Present(t))
             linked == Cardinality({r \in Present(t) : tab[t][r].linked})
  <2>1. Part(t) = [n |-> n, sum |-> sum, newest |-> Newest(t), linked |-> linked]
    BY <1>10 DEF Part
  <2>2. n \in Nat /\ sum \in Int
    <3>1. Present(t) \in SUBSET Int /\ IsFiniteSet(Present(t))
      BY <1>1, <1>4
    <3> QED
      BY <3>1, FS_CardinalityType, SumType
  <2>3. linked \in Nat
    <3> DEFINE L == {r \in Present(t) : tab[t][r].linked}
    <3>1. L \in SUBSET Present(t) /\ IsFiniteSet(Present(t))
      BY <1>1, <1>4
    <3> HIDE DEF L
    <3>2. IsFiniteSet(L)
      BY <3>1, FS_Subset
    <3>3. Cardinality(L) \in Nat
      BY <3>2, FS_CardinalityType
    <3> QED
      BY <3>3 DEF L
  <2> HIDE DEF n, sum, linked
  <2>4. /\ Part(t) \in Parts /\ Part(t).newest = Newest(t)
        /\ Part(t).n = n /\ Part(t).sum = sum /\ Part(t).linked = linked
    BY <2>1, <2>2, <2>3, <1>3 DEF Parts
  <2> QED
    BY <2>4, <1>1, <1>3, <1>5, <1>7, <1>8 DEF n, sum, linked
<1> QED
  BY <1>9, <1>10 DEF Tables

\* What is read is kept.
LEMMA ReadIsKept ==
    ASSUME TableInv, TimeInv, NEW t \in Tables
    PROVE  /\ Keeps(RowsOf(t), tab[t], nextRow, Content(t), Part(t).newest, FALSE)
           /\ t = "chan" => Tagged(Content(t), Part(t))
<1> DEFINE R == RowsOf(t)
           f == tab[t]
           H == Here(R, f)
           at == Content(t)
<1>1. /\ at = [r \in H |-> <<f[r].val, f[r].linked>>] /\ Part(t).newest = Top(R, f)
      /\ t = "chan" => /\ Part(t).n = Cardinality(H) /\ Part(t).sum = SumSet(H)
                       /\ Part(t).linked = Cardinality({r \in H : f[r].linked})
  BY ReadNow
<1>2. DOMAIN at = H /\ \A r \in H : at[r][1] = f[r].val /\ at[r][2] = f[r].linked
  BY <1>1
<1>3. \A r \in H : r < nextRow
  <2>1. CASE t = "chan"
    BY <2>1 DEF TableInv
  <2>2. CASE t = "src"
    BY <2>2, RevisionAssumptions DEF TableInv, Here, RowsOf
  <2> QED
    BY <2>1, <2>2 DEF Tables
<1>4. H \subseteq R
  BY DEF Here
<1>5. Top(R, f) = 0 \/ \E r \in H : f[r].stamp >= Top(R, f)
  <2>1. f \in [R -> Row] /\ now \in Nat /\ \A r \in R : f[r].stamp <= now
    BY DEF TableInv, TimeInv
  <2>2. Top(R, f) \in Nat /\ (Top(R, f) = 0 \/ \E r \in H : f[r].stamp = Top(R, f))
    BY <2>1, TopOf
  <2> QED
    BY <2>2
<1>6. Keeps(R, f, nextRow, at, Part(t).newest, FALSE)
  <2> HIDE DEF H, R, f, at
  <2>1. H = Here(R, f)
    BY DEF H
  <2>2. \A r \in DOMAIN at : f[r].linked => at[r][2]
    BY <1>2
  <2> QED
    BY <2>1, <2>2, <1>1, <1>2, <1>3, <1>4, <1>5 DEF Keeps
<1>7. {r \in H : f[r].linked} = {r \in DOMAIN at : at[r][2]}
  <2> HIDE DEF H, R, f, at
  <2> QED
    BY <1>2
<1>8. t = "chan" => Tagged(at, Part(t))
  BY <1>1, <1>2, <1>7 DEF Tagged
<1> QED
  BY <1>6, <1>8

\* What was kept is exact if the aggregates are as they were.
LEMMA TagIsExact ==
    ASSUME TableInv, TimeInv, NEW t \in Tables, NEW c, KeptIn(t, c), c.late = FALSE, c.tag[t] = Part(t)
    PROVE  c.at[t] = Content(t)
<1> DEFINE R == RowsOf(t)
           f == tab[t]
           H == Here(R, f)
           at == c.at[t]
<1>1. /\ R \in SUBSET Nat /\ IsFiniteSet(R) /\ f \in [R -> Row] /\ now \in Nat /\ \A r \in R : f[r].stamp <= now
  BY RowsFinite DEF TableInv, TimeInv
<1>2. /\ Content(t) = [r \in H |-> <<f[r].val, f[r].linked>>]
      /\ c.tag[t].newest = Top(R, f)
      /\ t = "chan" => /\ c.tag[t].n = Cardinality(H) /\ c.tag[t].sum = SumSet(H)
                       /\ c.tag[t].linked = Cardinality({r \in H : f[r].linked})
  BY ReadNow
<1>3. /\ Keeps(R, f, nextRow, at, c.tag[t].newest, FALSE) /\ at \in [DOMAIN at -> Nat \X BOOLEAN] /\ c.tag[t].newest \in Nat
      /\ t = "chan" => Tagged(at, c.tag[t])
  BY DEF KeptIn, KeptBy
<1>4. CASE t = "chan"
  <2>1. /\ Cardinality(DOMAIN at) = Cardinality(H) /\ SumSet(DOMAIN at) = SumSet(H)
        /\ Cardinality({r \in DOMAIN at : at[r][2]}) = Cardinality({r \in H : f[r].linked})
    BY <1>2, <1>3, <1>4 DEF Tagged
  <2>2. at = Content(t)
    <3> HIDE DEF R, f, at
    <3> QED
      BY <2>1, <1>1, <1>2, <1>3, KeptIsExact
  <2> QED
    BY <2>2
<1>5. CASE t = "src"
  <2>1. R = {1} /\ H = {1} /\ f[1].linked
    BY <1>5 DEF RowsOf, Here, TableInv
  <2>2. DOMAIN at = {1}
    BY <2>1, <1>3, <1>5 DEF Keeps, KeptIn, KeptBy
  <2>3. at[1][2]
    BY <2>1, <2>2, <1>3 DEF Keeps
  <2>4. DOMAIN at = H /\ {r \in DOMAIN at : at[r][2]} = {r \in H : f[r].linked}
    BY <2>1, <2>2, <2>3
  <2>5. at = Content(t)
    <3> HIDE DEF R, f, at
    <3> QED
      BY <2>4, <1>1, <1>2, <1>3, KeptIsExact
  <2> QED
    BY <2>5
<1> QED
  BY <1>4, <1>5 DEF Tables

-----------------------------------------------------------------------------
(* What is noted in lists *)

\* d is c, but for the history.
SameList(c, d) ==
    /\ d \in Copies /\ d.tag = c.tag /\ d.tagUrl = c.tagUrl /\ d.lm = c.lm /\ d.at = c.at /\ d.url = c.url
    /\ c.late => d.late
    /\ c.undated => d.undated

LEMMA LateList ==
    ASSUME NEW c \in Copies, NEW l \in BOOLEAN
    PROVE  LET d == [c EXCEPT !.late = c.late \/ l] IN
           SameList(c, d) /\ d.undated = c.undated /\ (l => d.late)
<1>1. PICK d : d = [c EXCEPT !.late = c.late \/ l]
  OBVIOUS
<1>2. PICK b \in BOOLEAN : b = (c.late \/ l)
  OBVIOUS
<1>3. d = [tag |-> c.tag, tagUrl |-> c.tagUrl, lm |-> c.lm, at |-> c.at, next |-> c.next, body |-> c.body, url |-> c.url, late |-> b,
           undated |-> c.undated]
  BY <1>1, <1>2 DEF Copies
<1>4. d \in Copies
  BY <1>3 DEF Copies
<1>5. d.late = b /\ c.late \in BOOLEAN /\ c.undated \in BOOLEAN
  BY <1>3 DEF Copies
<1>6. SameList(c, d) /\ d.undated = c.undated /\ (l => d.late)
  BY <1>2, <1>3, <1>4, <1>5 DEF SameList
<1> QED
  BY <1>1, <1>6

LEMMA UndatedList ==
    ASSUME NEW c \in Copies
    PROVE  LET d == [c EXCEPT !.undated = TRUE] IN
           SameList(c, d) /\ d.undated /\ d.late = c.late
<1>1. PICK d : d = [c EXCEPT !.undated = TRUE]
  OBVIOUS
<1>3. d = [tag |-> c.tag, tagUrl |-> c.tagUrl, lm |-> c.lm, at |-> c.at, next |-> c.next, body |-> c.body, url |-> c.url, late |-> c.late,
           undated |-> TRUE]
  BY <1>1 DEF Copies
<1>4. d \in Copies
  BY <1>3 DEF Copies
<1>6. SameList(c, d) /\ d.undated /\ d.late = c.late
  BY <1>3, <1>4 DEF SameList
<1> QED
  BY <1>1, <1>6

LEMMA NoneKept == NoCopy \in Copies /\ NoCopy.lm = -1 /\ NoCopy.url = 0 /\ NoCopy.late = FALSE /\ NoRequest \in Asked
                  /\ NoRequest.step = "idle" /\ NoRequest.new = NoCopy
<1>1. Blank \in Tags /\ Blank \in Lists
  <2>1. PICK e : e = <<>>
    OBVIOUS
  <2>2. e \in Parts
    BY <2>1 DEF Parts
  <2>3. e \in Contents
    BY <2>1 DEF Contents
  <2>4. Blank = [t \in Tables |-> e]
    BY <2>1 DEF Blank
  <2> QED
    BY <2>2, <2>3, <2>4 DEF Tags, Lists
<1>2. NoCopy \in Copies /\ NoCopy.lm = -1 /\ NoCopy.url = 0 /\ NoCopy.late = FALSE
  BY <1>1 DEF NoCopy, Copies
<1>3. NoRequest \in Asked /\ NoRequest.step = "idle" /\ NoRequest.new = NoCopy
  BY <1>1, <1>2 DEF NoRequest, Asked, Steps, Ways
<1> QED
  BY <1>2, <1>3

LEMMA LateAsked ==
    ASSUME NEW q \in Asked, NEW l \in BOOLEAN
    PROVE  LET p == [q EXCEPT !.new.late = q.new.late \/ l] IN
           /\ p \in Asked /\ p.step = q.step /\ p.how = q.how /\ p.was = q.was
           /\ SameList(q.new, p.new) /\ p.new.undated = q.new.undated /\ (l => p.new.late)
<1>1. PICK p : p = [q EXCEPT !.new.late = q.new.late \/ l]
  OBVIOUS
<1>2. q.new \in Copies
  BY DEF Asked
<1>3. PICK d : d = [q.new EXCEPT !.late = q.new.late \/ l]
  OBVIOUS
<1>4. SameList(q.new, d) /\ d.undated = q.new.undated /\ (l => d.late)
  BY <1>2, <1>3, LateList
<1>5. p = [step |-> q.step, how |-> q.how, was |-> q.was, new |-> d]
  BY <1>1, <1>3 DEF Asked
<1>6. p \in Asked /\ p.step = q.step /\ p.how = q.how /\ p.was = q.was /\ p.new = d
  BY <1>4, <1>5 DEF Asked, SameList
<1> QED
  BY <1>1, <1>4, <1>6

LEMMA UndatedAsked ==
    ASSUME NEW q \in Asked
    PROVE  LET p == [q EXCEPT !.new.undated = TRUE] IN
           /\ p \in Asked /\ p.step = q.step /\ p.how = q.how /\ p.was = q.was
           /\ SameList(q.new, p.new) /\ p.new.undated /\ p.new.late = q.new.late
<1>1. PICK p : p = [q EXCEPT !.new.undated = TRUE]
  OBVIOUS
<1>2. q.new \in Copies
  BY DEF Asked
<1>3. PICK d : d = [q.new EXCEPT !.undated = TRUE]
  OBVIOUS
<1>4. SameList(q.new, d) /\ d.undated /\ d.late = q.new.late
  BY <1>2, <1>3, UndatedList
<1>5. p = [step |-> q.step, how |-> q.how, was |-> q.was, new |-> d]
  BY <1>1, <1>3 DEF Asked
<1>6. p \in Asked /\ p.step = q.step /\ p.how = q.how /\ p.was = q.was /\ p.new = d
  BY <1>4, <1>5 DEF Asked, SameList
<1> QED
  BY <1>1, <1>4, <1>6

\* A step in which lists and requests only get their history noted: lateness,
\* if l, and the loss of the date, if u.
OnlyNoted(l, u) ==
    /\ copy' \in [TVs -> Copies] /\ rq' \in [TVs -> Asked]
    /\ \A v \in TVs :
         /\ copy[v] = NoCopy => copy'[v] = NoCopy
         /\ rq[v].step \in {"idle", "chan"} => rq'[v] = rq[v]
         /\ rq'[v].step = rq[v].step /\ rq'[v].how = rq[v].how /\ rq'[v].was = rq[v].was
         /\ SameList(copy[v], copy'[v]) /\ SameList(rq[v].new, rq'[v].new)
         /\ l => /\ copy[v] # NoCopy => copy'[v].late
                 /\ rq[v].step \in {"src", "same", "body", "rest"} => rq'[v].new.late
         /\ u => /\ copy[v] # NoCopy => copy'[v].undated
                 /\ rq[v].step \in {"body", "rest"} => rq'[v].new.undated

LEMMA Same ==
    ASSUME NEW c \in Copies
    PROVE  SameList(c, c)
  BY DEF SameList, Copies

LEMMA NothingNoted ==
    ASSUME RequestType, copy' = copy, rq' = rq
    PROVE  OnlyNoted(FALSE, FALSE)
<1>1. \A v \in TVs : copy[v] \in Copies /\ rq[v].new \in Copies
  BY DEF RequestType, Asked
<1> QED
  BY <1>1, Same DEF OnlyNoted, RequestType

LEMMA LateNoted ==
    ASSUME RequestType, NEW l \in BOOLEAN, NoteLate(l)
    PROVE  OnlyNoted(l, FALSE)
<1>1. /\ copy' = [v \in TVs |-> IF copy[v] = NoCopy THEN NoCopy ELSE [copy[v] EXCEPT !.late = copy[v].late \/ l]]
      /\ rq' = [v \in TVs |-> IF rq[v].step \in {"idle", "chan"} THEN rq[v]
                               ELSE [rq[v] EXCEPT !.new.late = rq[v].new.late \/ l]]
  BY DEF NoteLate
<1>2. ASSUME NEW v \in TVs
      PROVE  /\ copy[v] = NoCopy => copy'[v] = NoCopy
             /\ SameList(copy[v], copy'[v])
             /\ l /\ copy[v] # NoCopy => copy'[v].late
  <2>1. copy[v] \in Copies
    BY DEF RequestType
  <2>2. CASE copy[v] = NoCopy
    BY <2>1, <2>2, <1>1, Same
  <2>3. CASE copy[v] # NoCopy
    BY <2>1, <2>3, <1>1, LateList
  <2> QED
    BY <2>2, <2>3
<1>3. ASSUME NEW v \in TVs
      PROVE  /\ rq'[v] \in Asked
             /\ rq[v].step \in {"idle", "chan"} => rq'[v] = rq[v]
             /\ rq'[v].step = rq[v].step /\ rq'[v].how = rq[v].how /\ rq'[v].was = rq[v].was
             /\ SameList(rq[v].new, rq'[v].new)
             /\ l /\ rq[v].step \in {"src", "same", "body", "rest"} => rq'[v].new.late
  <2>1. rq[v] \in Asked /\ rq[v].new \in Copies
    BY DEF RequestType, Asked
  <2>2. CASE rq[v].step \in {"idle", "chan"}
    <3>1. rq'[v] = rq[v]
      BY <2>2, <1>1
    <3> QED
      BY <3>1, <2>1, <2>2, Same
  <2>3. CASE rq[v].step \notin {"idle", "chan"}
    <3>1. rq'[v] = [rq[v] EXCEPT !.new.late = rq[v].new.late \/ l]
      BY <2>3, <1>1
    <3> QED
      BY <3>1, <2>1, <2>3, LateAsked
  <2> QED
    BY <2>2, <2>3
<1>4. \A v \in TVs : copy'[v] \in Copies
  BY <1>2 DEF SameList
<1>5. copy' \in [TVs -> Copies] /\ rq' \in [TVs -> Asked]
  BY <1>1, <1>3, <1>4
<1> QED
  BY <1>2, <1>3, <1>5 DEF OnlyNoted

LEMMA UndatedNoted ==
    ASSUME RequestType, NoteUndated
    PROVE  OnlyNoted(FALSE, TRUE)
<1>1. /\ copy' = [v \in TVs |-> IF copy[v] = NoCopy THEN NoCopy ELSE [copy[v] EXCEPT !.undated = TRUE]]
      /\ rq' = [v \in TVs |-> IF rq[v].step \in {"body", "rest"} THEN [rq[v] EXCEPT !.new.undated = TRUE] ELSE rq[v]]
  BY DEF NoteUndated
<1>2. ASSUME NEW v \in TVs
      PROVE  /\ copy[v] = NoCopy => copy'[v] = NoCopy
             /\ SameList(copy[v], copy'[v])
             /\ copy[v] # NoCopy => copy'[v].undated
  <2>1. copy[v] \in Copies
    BY DEF RequestType
  <2>2. CASE copy[v] = NoCopy
    BY <2>1, <2>2, <1>1, Same
  <2>3. CASE copy[v] # NoCopy
    BY <2>1, <2>3, <1>1, UndatedList
  <2> QED
    BY <2>2, <2>3
<1>3. ASSUME NEW v \in TVs
      PROVE  /\ rq'[v] \in Asked
             /\ rq[v].step \in {"idle", "chan"} => rq'[v] = rq[v]
             /\ rq'[v].step = rq[v].step /\ rq'[v].how = rq[v].how /\ rq'[v].was = rq[v].was
             /\ SameList(rq[v].new, rq'[v].new)
             /\ rq[v].step \in {"body", "rest"} => rq'[v].new.undated
  <2>1. rq[v] \in Asked /\ rq[v].new \in Copies
    BY DEF RequestType, Asked
  <2>2. CASE rq[v].step \notin {"body", "rest"}
    <3>1. rq'[v] = rq[v]
      BY <2>2, <1>1
    <3> QED
      BY <3>1, <2>1, <2>2, Same
  <2>3. CASE rq[v].step \in {"body", "rest"}
    <3>1. rq'[v] = [rq[v] EXCEPT !.new.undated = TRUE]
      BY <2>3, <1>1
    <3> QED
      BY <3>1, <2>1, <2>3, UndatedAsked
  <2> QED
    BY <2>2, <2>3
<1>4. \A v \in TVs : copy'[v] \in Copies
  BY <1>2 DEF SameList
<1>5. copy' \in [TVs -> Copies] /\ rq' \in [TVs -> Asked]
  BY <1>1, <1>3, <1>4
<1> QED
  BY <1>2, <1>3, <1>5 DEF OnlyNoted

\* What a table keeps of a list, it keeps in a step that shows.
LEMMA KeptOn ==
    ASSUME NEW t \in Tables, NEW f \in [RowsOf(t) -> Row], NEW g \in [RowsOf(t) -> Row], NEW b \in Nat,
           \A r \in RowsOf(t) : f[r].stamp <= b,
           NEW next \in Nat, NEW next2 \in Nat, next <= next2,
           NEW c \in Copies, NEW d \in Copies, SameList(c, d), NEW l \in BOOLEAN, l => d.late,
           KeptBy(t, f, next, c), Shows(RowsOf(t), f, g, next, l)
    PROVE  KeptBy(t, g, next2, d)
<1>1. d.at = c.at /\ d.tag = c.tag /\ (c.late => d.late) /\ c.late \in BOOLEAN /\ d.late \in BOOLEAN
  BY DEF SameList, Copies
<1>2. Keeps(RowsOf(t), f, next, c.at[t], c.tag[t].newest, c.late) /\ c.tag[t].newest \in Nat
  BY DEF KeptBy
<1>3. RowsOf(t) \in SUBSET Nat
  BY RowsFinite
<1>4. Keeps(RowsOf(t), g, next2, c.at[t], c.tag[t].newest, d.late)
  BY <1>1, <1>2, <1>3, KeepsOn
<1> QED
  BY <1>1, <1>4 DEF KeptBy

LEMMA DatedOn ==
    ASSUME NEW c, NEW d, SameList(c, d), NEW entry, NEW start, DatedBy(entry, start, c)
    PROVE  DatedBy(entry, start, d)
  BY DEF SameList, DatedBy

\* A step of anyone but a request: data may change, in a way that shows or is
\* noted, and the table of observed revisions, if that is noted.
LEMMA NotedInv ==
    ASSUME RevisionInv, NEW l \in BOOLEAN, NEW u \in BOOLEAN, OnlyNoted(l, u), TableInv', TimeInv', ServerInv',
           urlLoaded' = urlLoaded, urlSet' \in Nat, nextRow <= nextRow',
           \A t \in Tables : Shows(RowsOf(t), tab[t], tab'[t], nextRow, l),
           u \/ (boot' = boot /\ observed' = observed)
    PROVE  RevisionInv'
<1> USE DEF RevisionInv
<1>1. ASSUME NEW v \in TVs
      PROVE  /\ copy[v] \in Copies /\ copy'[v] \in Copies /\ SameList(copy[v], copy'[v])
             /\ rq[v].new \in Copies /\ rq'[v].new \in Copies /\ SameList(rq[v].new, rq'[v].new)
             /\ rq'[v].step = rq[v].step /\ rq'[v].how = rq[v].how /\ rq'[v].was = rq[v].was
             /\ copy[v] = NoCopy <=> copy'[v] = NoCopy
  <2>1. copy[v] \in Copies /\ copy'[v] \in Copies /\ rq[v].new \in Copies /\ rq'[v].new \in Copies
    BY DEF RequestType, OnlyNoted, Asked
  <2>2. copy[v] # NoCopy => copy'[v] # NoCopy
    <3>1. copy[v] # NoCopy => copy[v].lm >= 1 /\ copy'[v].lm = copy[v].lm
      BY DEF RequestType, OnlyNoted, SameList
    <3> QED
      BY <3>1, NoneKept
  <2> QED
    BY <2>1, <2>2 DEF OnlyNoted
<1>2. \A v \in TVs : /\ copy'[v].lm = copy[v].lm /\ copy'[v].url = copy[v].url /\ copy'[v].at = copy[v].at
                     /\ copy'[v].tag = copy[v].tag /\ copy'[v].tagUrl = copy[v].tagUrl
                     /\ (copy[v].late => copy'[v].late) /\ (copy[v].undated => copy'[v].undated)
                     /\ rq'[v].new.lm = rq[v].new.lm /\ rq'[v].new.tagUrl = rq[v].new.tagUrl /\ rq'[v].new.tag = rq[v].new.tag
  BY <1>1 DEF SameList
<1>3. UrlInv'
  BY DEF UrlInv
<1>4. RequestType'
  <2>1. \A v \in TVs : rq'[v].step \in {"idle", "chan"} => rq'[v].new = NoCopy
    BY <1>1 DEF RequestType, OnlyNoted
  <2> QED
    BY <1>1, <1>2, <2>1 DEF RequestType, OnlyNoted
<1>5. ASSUME NEW t \in Tables
      PROVE  /\ tab[t] \in [RowsOf(t) -> Row] /\ tab'[t] \in [RowsOf(t) -> Row] /\ now \in Nat
             /\ \A r \in RowsOf(t) : tab[t][r].stamp <= now
             /\ nextRow \in Nat /\ nextRow' \in Nat
  BY RevisionAssumptions DEF TableInv, TimeInv
<1>6. KeptInv'
  <2>1. ASSUME NEW v \in TVs, NEW t \in Tables
        PROVE  /\ copy[v] # NoCopy /\ KeptIn(t, copy[v]) => KeptBy(t, tab'[t], nextRow', copy'[v])
               /\ rq[v].step \in {"src", "same", "body", "rest"} /\ KeptIn(t, rq[v].new) => KeptBy(t, tab'[t], nextRow', rq'[v].new)
    <3>1. Shows(RowsOf(t), tab[t], tab'[t], nextRow, l)
      OBVIOUS
    <3>2. ASSUME copy[v] # NoCopy, KeptIn(t, copy[v]) PROVE KeptBy(t, tab'[t], nextRow', copy'[v])
      <4>1. l => copy'[v].late
        BY <3>2 DEF OnlyNoted
      <4>2. KeptBy(t, tab[t], nextRow, copy[v])
        BY <3>2 DEF KeptIn
      <4> QED
        BY <3>1, <4>1, <4>2, <1>1, <1>5, KeptOn
    <3>3. ASSUME rq[v].step \in {"src", "same", "body", "rest"}, KeptIn(t, rq[v].new) PROVE KeptBy(t, tab'[t], nextRow', rq'[v].new)
      <4>1. l => rq'[v].new.late
        BY <3>3 DEF OnlyNoted
      <4>2. KeptBy(t, tab[t], nextRow, rq[v].new)
        BY <3>3 DEF KeptIn
      <4> QED
        BY <3>1, <4>1, <4>2, <1>1, <1>5, KeptOn
    <3> QED
      BY <3>2, <3>3
  <2>2. "chan" \in Tables /\ "src" \in Tables
    BY DEF Tables
  <2>3. ASSUME NEW v \in TVs, copy'[v] # NoCopy
        PROVE  KeptBy("chan", tab'["chan"], nextRow', copy'[v]) /\ KeptBy("src", tab'["src"], nextRow', copy'[v])
    BY <2>1, <2>2, <2>3, <1>1 DEF KeptInv
  <2>4. ASSUME NEW v \in TVs, rq'[v].step \in {"src", "body", "rest"}
        PROVE  KeptBy("chan", tab'["chan"], nextRow', rq'[v].new)
    BY <2>1, <2>2, <2>4, <1>1 DEF KeptInv
  <2>5. ASSUME NEW v \in TVs, rq'[v].step \in {"body", "rest"}
        PROVE  KeptBy("src", tab'["src"], nextRow', rq'[v].new)
    BY <2>1, <2>2, <2>5, <1>1 DEF KeptInv
  <2> QED
    BY <2>3, <2>4, <2>5 DEF KeptInv, KeptIn
<1>7. DateInv'
  <2>1. ASSUME NEW v \in TVs, copy'[v] # NoCopy PROVE DatedBy(observed', boot', copy'[v])
    <3>1. DatedBy(observed, boot, copy[v])
      BY <2>1, <1>1 DEF DateInv, DatedIn
    <3>2. CASE u
      BY <3>2, <2>1, <1>1 DEF OnlyNoted, DatedBy
    <3>3. CASE ~u
      BY <3>1, <3>3, <1>1, DatedOn
    <3> QED
      BY <3>2, <3>3
  <2>2. ASSUME NEW v \in TVs, rq'[v].step \in {"body", "rest"} PROVE DatedBy(observed', boot', rq'[v].new)
    <3>1. DatedBy(observed, boot, rq[v].new)
      BY <2>2, <1>1 DEF DateInv, DatedIn
    <3>2. CASE u
      BY <3>2, <2>2, <1>1 DEF OnlyNoted, DatedBy
    <3>3. CASE ~u
      BY <3>1, <3>3, <1>1, DatedOn
    <3> QED
      BY <3>2, <3>3
  <2> QED
    BY <2>1, <2>2 DEF DateInv, DatedIn
<1>8. MatchInv'
  BY <1>1, <1>2 DEF MatchInv, AsWhenTagged
<1> QED
  BY <1>3, <1>4, <1>6, <1>7, <1>8

-----------------------------------------------------------------------------
(* Time passes, transactions commit *)

LEMMA Ticks ==
    ASSUME NEW n \in Nat
    PROVE  TicksPerSecond * n \in Nat /\ TicksPerSecond * (n + 1) = TicksPerSecond * n + TicksPerSecond
  BY RevisionAssumptions

LEMMA NextSecond ==
    ASSUME NEW n \in Nat
    PROVE  /\ Second(n) \in Nat
           /\ (Second(n) + 1) * TicksPerSecond \in Nat
           /\ n <= (Second(n) + 1) * TicksPerSecond /\ (Second(n) + 1) * TicksPerSecond <= n + TicksPerSecond
<1> DEFINE T == TicksPerSecond
           s == n \div T
<1>1. T \in Nat \ {0}
  BY RevisionAssumptions
<1>2. s \in Nat /\ s * T <= n /\ n < s * T + T
  BY <1>1
<1>3. (s + 1) * T = s * T + T
  BY <1>1, <1>2
<1>4. s * T \in Nat
  BY <1>1, <1>2
<1> QED
  BY <1>1, <1>2, <1>3, <1>4 DEF Second

LEMMA SameRowsShow ==
    ASSUME NEW R, NEW f, NEW next, NEW l
    PROVE  Shows(R, f, f, next, l)
  BY DEF Shows

LEMMA DataStays ==
    ASSUME TableInv, now \in Nat, now' \in Nat, edits \in Nat, edits' \in Nat, tab' = tab, nextRow' = nextRow,
           now <= now', edits <= edits'
    PROVE  /\ TableInv' /\ \A t \in Tables : Shows(RowsOf(t), tab[t], tab'[t], nextRow, FALSE)
           /\ nextRow <= nextRow'
<1>1. \A t \in Tables : Shows(RowsOf(t), tab[t], tab'[t], nextRow, FALSE)
  BY SameRowsShow
<1>2. \A t \in Tables : \A r \in RowsOf(t) : tab[t][r].stamp \in Nat /\ tab[t][r].val \in Nat
  BY DEF TableInv, Row
<1>3. \A t \in Tables : \A r \in RowsOf(t) : tab'[t][r].stamp <= now' /\ tab'[t][r].val <= edits' + 1
  <2> SUFFICES ASSUME NEW t \in Tables, NEW r \in RowsOf(t) PROVE tab[t][r].stamp <= now' /\ tab[t][r].val <= edits' + 1
    OBVIOUS
  <2>1. tab[t][r].stamp <= now /\ tab[t][r].val <= edits + 1
    BY DEF TableInv
  <2> QED
    BY <2>1, <1>2
<1>4. nextRow <= nextRow'
  <2>1. nextRow \in Nat
    BY RevisionAssumptions DEF TableInv
  <2> QED
    BY <2>1
<1>5. TableInv'
  <2>1. nextRow' \in 3..MaxRow + 1 /\ \A r \in Here(RowsOf("chan"), tab'["chan"]) : r < nextRow'
    BY DEF TableInv
  <2>2. tab' = [t \in Tables |-> tab'[t]] /\ (\A t \in Tables : tab'[t] \in [RowsOf(t) -> Row])
        /\ tab'["src"][1].val # 0 /\ tab'["src"][1].linked
    BY DEF TableInv
  <2> QED
    BY <2>1, <2>2, <1>3 DEF TableInv
<1> QED
  BY <1>1, <1>4, <1>5

LEMMA TickInv == ASSUME RevisionInv, Tick PROVE RevisionInv'
<1>1. now \in Nat /\ edits \in Nat /\ now' = now + 1 /\ now < MaxNow /\ edits' = edits
  BY RevisionAssumptions DEF RevisionInv, TimeInv, Tick
<1>2. TableInv' /\ (\A t \in Tables : Shows(RowsOf(t), tab[t], tab'[t], nextRow, FALSE)) /\ nextRow <= nextRow'
  <2>1. tab' = tab /\ nextRow' = nextRow /\ now <= now' /\ now' \in Nat /\ edits <= edits'
    BY <1>1 DEF Tick, data
  <2> QED
    BY <1>1, <2>1, DataStays DEF RevisionInv
<1>3. TimeInv'
  <2>1. now' <= MaxNow + TicksPerSecond * edits
    BY <1>1, Ticks, RevisionAssumptions
  <2>2. txn' = txn /\ tab' = tab
    BY DEF Tick, data
  <2>3. txn \in [Txns -> 0..now + 1]
    BY <1>1 DEF RevisionInv, TimeInv
  <2> QED
    BY <1>1, <2>1, <2>2, <2>3 DEF RevisionInv, TimeInv
<1>4. ServerInv'
  BY DEF RevisionInv, ServerInv, Tick, server, Entries
<1>5. OnlyNoted(FALSE, FALSE)
  BY NothingNoted DEF RevisionInv, Tick
<1>6. /\ urlLoaded' = urlLoaded /\ boot' = boot /\ observed' = observed /\ urlSet' \in Nat
  BY <1>1 DEF Tick, server, RevisionInv, UrlInv
<1> QED
  BY <1>1, <1>2, <1>3, <1>4, <1>5, <1>6, NotedInv

LEMMA BeginInv == ASSUME RevisionInv, NEW x \in Txns, BeginTxn(x) PROVE RevisionInv'
<1>1. now \in Nat /\ edits \in Nat /\ now' = now + 1 /\ now < MaxNow /\ edits' = edits
  BY RevisionAssumptions DEF RevisionInv, TimeInv, BeginTxn
<1>2. TableInv' /\ (\A t \in Tables : Shows(RowsOf(t), tab[t], tab'[t], nextRow, FALSE)) /\ nextRow <= nextRow'
  <2>1. tab' = tab /\ nextRow' = nextRow /\ now <= now' /\ now' \in Nat /\ edits <= edits'
    BY <1>1 DEF BeginTxn, data
  <2> QED
    BY <1>1, <2>1, DataStays DEF RevisionInv
<1>3. TimeInv'
  <2>1. now' <= MaxNow + TicksPerSecond * edits
    BY <1>1, Ticks, RevisionAssumptions
  <2>2. txn' = [txn EXCEPT ![x] = now + 1] /\ tab' = tab /\ txn \in [Txns -> 0..now]
    BY <1>1 DEF BeginTxn, data, RevisionInv, TimeInv
  <2>3. txn' \in [Txns -> 0..now + 1] /\ txn'[x] = now + 1 /\ \A y \in Txns \ {x} : txn'[y] = txn[y] /\ txn[y] <= now
    BY <1>1, <2>2
  <2>4. ASSUME NEW y \in Txns, txn'[y] # 0
        PROVE  /\ \A z \in Txns : z # y => txn'[z] # txn'[y]
               /\ \A t \in Tables : \A r \in RowsOf(t) : tab'[t][r].stamp # txn'[y]
    <3>1. CASE y = x
      <4>1. \A z \in Txns : z # y => txn'[z] # txn'[y]
        BY <3>1, <2>2, <2>3, <1>1
      <4>2. ASSUME NEW t \in Tables, NEW r \in RowsOf(t) PROVE tab'[t][r].stamp # txn'[y]
        <5>1. tab[t][r].stamp <= now
          BY DEF RevisionInv, TableInv
        <5> QED
          BY <5>1, <3>1, <2>2, <2>3, <1>1
      <4> QED
        BY <4>1, <4>2
    <3>2. CASE y # x
      <4>1. \A z \in Txns \ {x} : z # y => txn'[z] # txn'[y]
        BY <3>2, <2>3, <2>4 DEF RevisionInv, TimeInv
      <4>2. txn'[x] # txn'[y]
        BY <3>2, <2>2, <2>3, <1>1
      <4>3. \A t \in Tables : \A r \in RowsOf(t) : tab'[t][r].stamp # txn'[y]
        BY <3>2, <2>2, <2>3, <2>4 DEF RevisionInv, TimeInv
      <4> QED
        BY <4>1, <4>2, <4>3
    <3> QED
      BY <3>1, <3>2
  <2> QED
    BY <1>1, <2>1, <2>3, <2>4 DEF RevisionInv, TimeInv
<1>4. ServerInv'
  BY DEF RevisionInv, ServerInv, BeginTxn, server, Entries
<1>5. OnlyNoted(FALSE, FALSE)
  BY NothingNoted DEF RevisionInv, BeginTxn
<1>6. /\ urlLoaded' = urlLoaded /\ boot' = boot /\ observed' = observed /\ urlSet' \in Nat
  BY <1>1 DEF BeginTxn, server, RevisionInv, UrlInv
<1> QED
  BY <1>1, <1>2, <1>3, <1>4, <1>5, <1>6, NotedInv

\* A transaction leaves the rows g in t.
LEMMA CommitsInv ==
    ASSUME RevisionInv, NEW x \in Txns, NEW t \in Tables, NEW g \in [RowsOf(t) -> Row], Commits(x, t, g),
           \A r \in RowsOf(t) : g[r].stamp \in {tab[t][r].stamp, 0, txn[x]} /\ g[r].val <= edits + 2,
           t = "src" => g[1].val # 0 /\ g[1].linked,
           nextRow' \in nextRow..MaxRow + 1, t = "chan" => \A r \in Here(RowsOf(t), g) : r < nextRow',
           NEW l \in BOOLEAN, OnlyNoted(l, FALSE), Shows(RowsOf(t), tab[t], g, nextRow, l)
    PROVE  RevisionInv'
<1>1. /\ txn' = [txn EXCEPT ![x] = 0] /\ txn[x] # 0 /\ edits < MaxEdits /\ edits' = edits + 1 /\ now' = now
      /\ tab' = [tab EXCEPT ![t] = g] /\ urlSet' = urlSet /\ urlLoaded' = urlLoaded /\ boot' = boot
      /\ observed' = observed /\ others' = others
  BY DEF Commits, Edits, server, NoTxn
<1>2. now \in Nat /\ edits \in Nat /\ edits' \in 0..MaxEdits /\ txn \in [Txns -> 0..now] /\ nextRow \in 3..MaxRow + 1
  BY <1>1, RevisionAssumptions DEF RevisionInv, TimeInv, TableInv
<1>3. tab'[t] = g /\ (\A u \in Tables \ {t} : tab'[u] = tab[u]) /\ tab' = [u \in Tables |-> tab'[u]]
  BY <1>1 DEF RevisionInv, TableInv
<1>4. ASSUME NEW u \in Tables, NEW r \in RowsOf(u)
      PROVE  tab'[u][r].stamp \in {tab[u][r].stamp, 0, txn[x]} /\ tab'[u][r].val <= edits + 2
  <2>1. CASE u = t
    BY <2>1, <1>3
  <2>2. CASE u # t
    <3>1. tab[u][r].val <= edits + 1 /\ tab[u][r].val \in Nat
      BY DEF RevisionInv, TableInv, Row
    <3> QED
      BY <2>2, <3>1, <1>2, <1>3
  <2> QED
    BY <2>1, <2>2
<1>5. TableInv'
  <2>1. \A u \in Tables : tab'[u] \in [RowsOf(u) -> Row]
    BY <1>3 DEF RevisionInv, TableInv
  <2>2. ASSUME NEW u \in Tables, NEW r \in RowsOf(u) PROVE tab'[u][r].stamp <= now' /\ tab'[u][r].val <= edits' + 1
    <3>1. tab[u][r].stamp <= now
      BY DEF RevisionInv, TableInv
    <3>2. tab'[u][r].stamp <= now
      BY <3>1, <1>2, <1>4
    <3>3. tab'[u][r].val \in Nat
      BY <2>1 DEF Row
    <3> QED
      BY <3>2, <3>3, <1>1, <1>2, <1>4
  <2>3. tab'["src"][1].val # 0 /\ tab'["src"][1].linked
    <3>1. tab["src"][1].val # 0 /\ tab["src"][1].linked
      BY DEF RevisionInv, TableInv
    <3> QED
      BY <3>1, <1>3 DEF Tables
  <2>4. nextRow' \in 3..MaxRow + 1
    BY <1>2, RevisionAssumptions
  <2>5. ASSUME NEW r \in Here(RowsOf("chan"), tab'["chan"]) PROVE r < nextRow'
    <3>1. CASE t = "chan"
      BY <3>1, <1>3
    <3>2. CASE t # "chan"
      <4>1. r \in Here(RowsOf("chan"), tab["chan"])
        BY <3>2, <1>3 DEF Tables
      <4>2. r < nextRow /\ r \in Nat
        BY <4>1, RowsFinite DEF RevisionInv, TableInv, Here, Tables
      <4> QED
        BY <4>2, <1>2, RevisionAssumptions
    <3> QED
      BY <3>1, <3>2
  <2> QED
    BY <1>3, <2>1, <2>2, <2>3, <2>4, <2>5 DEF TableInv
<1>6. TimeInv'
  <2>1. now' \in Nat /\ now' <= MaxNow + TicksPerSecond * edits'
    <3>1. now <= MaxNow + TicksPerSecond * edits
      BY DEF RevisionInv, TimeInv
    <3> QED
      BY <3>1, <1>1, <1>2, Ticks, RevisionAssumptions
  <2>2. txn' \in [Txns -> 0..now'] /\ txn'[x] = 0 /\ \A y \in Txns \ {x} : txn'[y] = txn[y]
    BY <1>1, <1>2
  <2>3. ASSUME NEW y \in Txns, txn'[y] # 0
        PROVE  /\ \A z \in Txns : z # y => txn'[z] # txn'[y]
               /\ \A u \in Tables : \A r \in RowsOf(u) : tab'[u][r].stamp # txn'[y]
    <3>1. y # x /\ txn'[y] = txn[y] /\ txn[y] # 0
      BY <2>2, <2>3
    <3>2. /\ \A z \in Txns : z # y => txn[z] # txn[y]
          /\ \A u \in Tables : \A r \in RowsOf(u) : tab[u][r].stamp # txn[y]
      BY <3>1 DEF RevisionInv, TimeInv
    <3>3. \A z \in Txns : z # y => txn'[z] # txn'[y]
      BY <3>1, <3>2, <2>2, <2>3
    <3>4. \A u \in Tables : \A r \in RowsOf(u) : tab'[u][r].stamp # txn'[y]
      BY <3>1, <3>2, <1>4
    <3> QED
      BY <3>3, <3>4
  <2> QED
    BY <1>2, <2>1, <2>2, <2>3 DEF TimeInv
<1>7. ServerInv'
  BY <1>1 DEF RevisionInv, ServerInv, Entries
<1>8. \A u \in Tables : Shows(RowsOf(u), tab[u], tab'[u], nextRow, l)
  BY <1>3, SameRowsShow
<1>9. nextRow <= nextRow' /\ urlSet' \in Nat
  BY <1>1, <1>2 DEF RevisionInv, UrlInv
<1> QED
  BY <1>1, <1>5, <1>6, <1>7, <1>8, <1>9, NotedInv

LEMMA EditInv == ASSUME RevisionInv, NEW x \in Txns, NEW t \in Tables, NEW r \in RowsOf(t), CommitEdit(x, t, r) PROVE RevisionInv'
<1> DEFINE R == RowsOf(t)
           f == tab[t]
<1>1. PICK g : g = [f EXCEPT ![r].val = edits + 2, ![r].stamp = txn[x]]
  OBVIOUS
<1>2. PICK l \in BOOLEAN : l = (txn[x] < Newest(t)) /\ (l <=> txn[x] < Newest(t))
  <2>1. (txn[x] < Newest(t)) \in BOOLEAN
    OBVIOUS
  <2> QED
    BY <2>1
<1>3. r \in Here(R, f) /\ Commits(x, t, g) /\ NoteLate(l) /\ nextRow' = nextRow /\ txn[x] # 0
  <2>1. r \in Present(t) /\ Commits(x, t, g) /\ NoteLate(l) /\ nextRow' = nextRow
    BY <1>1, <1>2 DEF CommitEdit
  <2>2. Present(t) = Here(R, f)
    BY ReadNow DEF RevisionInv
  <2> QED
    BY <2>1, <2>2 DEF Commits, NoTxn
<1>4. f \in [R -> Row] /\ edits \in Nat /\ txn[x] \in Nat /\ now \in Nat /\ \A s \in R : f[s].stamp <= now /\ f[s].val <= edits + 1
  BY DEF RevisionInv, TableInv, TimeInv
<1>5. /\ g \in [R -> Row] /\ \A s \in R : s # r => g[s] = f[s]
      /\ g[r].val = edits + 2 /\ g[r].stamp = txn[x] /\ g[r].linked = f[r].linked
  <2>1. PICK row : row = [f[r] EXCEPT !.val = edits + 2, !.stamp = txn[x]]
    OBVIOUS
  <2>2. f[r] \in Row
    BY <1>4
  <2>3. row = [val |-> edits + 2, stamp |-> txn[x], linked |-> f[r].linked]
    BY <2>1, <2>2 DEF Row
  <2>4. row \in Row
    BY <2>2, <2>3, <1>4 DEF Row
  <2>5. g = [f EXCEPT ![r] = row]
    BY <1>1, <2>1, <1>4
  <2>6. g \in [R -> Row] /\ g[r] = row /\ \A s \in R : s # r => g[s] = f[s]
    BY <2>4, <2>5, <1>4
  <2> QED
    BY <2>3, <2>6
<1>6. \A s \in R : g[s].stamp \in {f[s].stamp, 0, txn[x]} /\ g[s].val <= edits + 2
  <2> SUFFICES ASSUME NEW s \in R PROVE g[s].stamp \in {f[s].stamp, 0, txn[x]} /\ g[s].val <= edits + 2
    OBVIOUS
  <2>1. f[s].val \in Nat /\ f[s].val <= edits + 1
    BY <1>4 DEF Row
  <2> QED
    BY <2>1, <1>4, <1>5
<1>7. \A s \in R : s \in Here(R, g) <=> s \in Here(R, f)
  BY <1>3, <1>4, <1>5 DEF Here
<1>8. t = "src" => g[1].val # 0 /\ g[1].linked
  BY <1>4, <1>5 DEF RevisionInv, TableInv, RowsOf
<1>9. Shows(R, f, g, nextRow, l)
  <2>1. l \/ txn[x] > Top(R, f)
    <3>1. Newest(t) = Top(R, f)
      BY ReadNow DEF RevisionInv
    <3>2. Top(R, f) \in Nat /\ (Top(R, f) = 0 \/ \E s \in Here(R, f) : f[s].stamp = Top(R, f))
      BY <1>4, TopOf
    <3>3. \A s \in Here(R, f) : f[s].stamp # txn[x]
      BY <1>3 DEF RevisionInv, TimeInv, Here
    <3>4. Top(R, f) # txn[x]
      BY <3>2, <3>3, <1>3
    <3>5. Top(R, f) < txn[x] \/ txn[x] < Top(R, f)
      BY <3>2, <3>4, <1>4
    <3> QED
      BY <3>1, <3>5, <1>2
  <2> SUFFICES ASSUME NEW s \in Here(R, g)
               PROVE  \/ s \notin Here(R, f) /\ s >= nextRow
                      \/ /\ s \in Here(R, f) /\ g[s].val = f[s].val /\ g[s].stamp = f[s].stamp
                         /\ g[s].linked => f[s].linked
                      \/ /\ s \in Here(R, f) /\ g[s].linked = f[s].linked
                         /\ l \/ g[s].stamp > Top(R, f)
    BY DEF Shows
  <2>2. s \in Here(R, f) /\ s \in R
    BY <1>7 DEF Here
  <2>3. CASE s = r
    BY <2>1, <2>2, <2>3, <1>5
  <2>4. CASE s # r
    BY <2>2, <2>4, <1>5
  <2> QED
    BY <2>3, <2>4
<1>10. nextRow' \in nextRow..MaxRow + 1 /\ (t = "chan" => \A s \in Here(R, g) : s < nextRow')
  <2>1. nextRow \in 3..MaxRow + 1 /\ \A s \in Here(RowsOf("chan"), tab["chan"]) : s < nextRow
    BY DEF RevisionInv, TableInv
  <2>2. nextRow' \in nextRow..MaxRow + 1
    BY <2>1, <1>3, RevisionAssumptions
  <2> QED
    BY <2>1, <2>2, <1>3, <1>7 DEF Here
<1>11. OnlyNoted(l, FALSE)
  BY <1>3, LateNoted DEF RevisionInv
<1> HIDE DEF R, f
<1>12. R = RowsOf(t) /\ f = tab[t]
  BY DEF R, f
<1> QED
  BY <1>3, <1>5, <1>6, <1>8, <1>9, <1>10, <1>11, <1>12, CommitsInv

\* Rows come and go, or lose their link.
LEMMA RowsInv ==
    ASSUME RevisionInv, NEW x \in Txns, NEW g \in [RowsOf("chan") -> Row], Commits(x, "chan", g), copy' = copy, rq' = rq,
           nextRow' \in nextRow..MaxRow + 1,
           \A r \in RowsOf("chan") :
              \/ g[r].val = 0 /\ g[r].stamp = 0
              \/ g[r].val = tab["chan"][r].val /\ g[r].stamp = tab["chan"][r].stamp /\ (g[r].linked => tab["chan"][r].linked)
              \/ r = nextRow /\ nextRow' = nextRow + 1 /\ g[r].val = edits + 2 /\ g[r].stamp = txn[x]
    PROVE  RevisionInv'
<1> DEFINE R == RowsOf("chan")
           f == tab["chan"]
<1>1. /\ f \in [R -> Row] /\ edits \in Nat /\ nextRow \in Nat /\ nextRow' \in Nat /\ nextRow <= nextRow'
      /\ \A r \in R : r \in Nat /\ f[r].val \in Nat /\ f[r].val <= edits + 1
      /\ \A r \in Here(R, f) : r < nextRow
  <2>1. f \in [R -> Row] /\ edits \in Nat /\ nextRow \in 3..MaxRow + 1
    BY DEF RevisionInv, TableInv, TimeInv, Tables
  <2>2. \A r \in R : r \in Nat
    BY RevisionAssumptions DEF RowsOf
  <2>3. \A r \in R : f[r].val \in Nat /\ f[r].val <= edits + 1
    BY <2>1 DEF RevisionInv, TableInv, Tables, Row
  <2>4. nextRow \in Nat /\ nextRow' \in Nat /\ nextRow <= nextRow'
    BY <2>1, RevisionAssumptions
  <2>5. \A r \in Here(R, f) : r < nextRow
    BY DEF RevisionInv, TableInv
  <2> QED
    BY <2>1, <2>2, <2>3, <2>4, <2>5
<1>2. \A r \in R : g[r].stamp \in {f[r].stamp, 0, txn[x]} /\ g[r].val <= edits + 2
  BY <1>1
<1>3. ASSUME NEW r \in Here(R, g)
      PROVE  /\ r < nextRow'
             /\ \/ r \notin Here(R, f) /\ r >= nextRow
                \/ /\ r \in Here(R, f) /\ g[r].val = f[r].val /\ g[r].stamp = f[r].stamp
                   /\ g[r].linked => f[r].linked
  <2>1. r \in R /\ g[r].val # 0
    BY DEF Here
  <2>2. CASE g[r].val = f[r].val /\ g[r].stamp = f[r].stamp /\ (g[r].linked => f[r].linked)
    <3>1. r \in Here(R, f)
      BY <2>1, <2>2 DEF Here
    <3>2. r < nextRow'
      BY <3>1, <2>1, <1>1
    <3> QED
      BY <3>1, <3>2, <2>2
  <2>3. CASE r = nextRow /\ nextRow' = nextRow + 1
    <3>1. r \notin Here(R, f)
      BY <2>1, <2>3, <1>1
    <3> QED
      BY <3>1, <2>1, <2>3, <1>1
  <2> QED
    BY <2>1, <2>2, <2>3
<1>4. Shows(R, f, g, nextRow, FALSE)
  BY <1>3 DEF Shows
<1>5. OnlyNoted(FALSE, FALSE)
  BY NothingNoted DEF RevisionInv
<1>6. "chan" \in Tables
  BY DEF Tables
<1> QED
  BY <1>2, <1>3, <1>4, <1>5, <1>6, CommitsInv

LEMMA OtherCommitsInv ==
    ASSUME RevisionInv, NEW x \in Txns,
           CommitInsert(x) \/ \E r \in RowsOf("chan") : CommitDelete(x, r) \/ CommitSwap(x, r) \/ CommitDetach(x, r)
    PROVE  RevisionInv'
<1> DEFINE R == RowsOf("chan")
           f == tab["chan"]
<1>1. /\ f \in [R -> Row] /\ nextRow \in 3..MaxRow + 1 /\ edits \in Nat /\ txn[x] \in Nat
      /\ \A r \in Here(R, f) : r < nextRow /\ r \in Nat
  <2>1. /\ f \in [R -> Row] /\ nextRow \in 3..MaxRow + 1 /\ edits \in Nat /\ txn[x] \in Nat
        /\ \A r \in Here(R, f) : r < nextRow
    BY DEF RevisionInv, TableInv, TimeInv, Tables
  <2>2. R \in SUBSET Nat
    BY RowsFinite DEF Tables
  <2> QED
    BY <2>1, <2>2 DEF Here
<1>2. nextRow \in nextRow..MaxRow + 1
  BY <1>1, RevisionAssumptions
<1>3. NoRow \in Row /\ NoRow.val = 0 /\ NoRow.stamp = 0
  BY DEF NoRow, Row
<1>4. PICK fresh \in Row : fresh = Fresh(x) /\ fresh.val = edits + 2 /\ fresh.stamp = txn[x]
  <2>1. PICK fresh : fresh = [val |-> edits + 2, stamp |-> txn[x], linked |-> TRUE]
    OBVIOUS
  <2>2. fresh = Fresh(x)
    BY <2>1 DEF Fresh
  <2>3. fresh \in Row /\ fresh.val = edits + 2 /\ fresh.stamp = txn[x]
    BY <1>1, <2>1 DEF Row
  <2> QED
    BY <2>2, <2>3
<1>5. Present("chan") = Here(R, f)
  BY ReadNow DEF RevisionInv, Tables
<1>6. nextRow \in R /\ nextRow' = nextRow + 1 => nextRow' \in nextRow..MaxRow + 1
  BY <1>1, RevisionAssumptions DEF RowsOf
<1>7. CASE CommitInsert(x)
  <2>1. PICK g : g = [f EXCEPT ![nextRow] = fresh]
    OBVIOUS
  <2>2. nextRow \in R /\ nextRow' = nextRow + 1 /\ Commits(x, "chan", g) /\ copy' = copy /\ rq' = rq
    BY <1>4, <1>7, <2>1 DEF CommitInsert
  <2>3. g \in [R -> Row] /\ \A r \in R : g[r] = IF r = nextRow THEN fresh ELSE f[r]
    BY <1>1, <1>4, <2>1
  <2> QED
    BY <1>4, <1>6, <2>2, <2>3, RowsInv
<1>8. ASSUME NEW r \in R, CommitDelete(x, r) PROVE RevisionInv'
  <2>1. PICK g : g = [f EXCEPT ![r] = NoRow]
    OBVIOUS
  <2>2. nextRow' = nextRow /\ Commits(x, "chan", g) /\ copy' = copy /\ rq' = rq
    BY <1>8, <2>1 DEF CommitDelete
  <2>3. g \in [R -> Row] /\ \A s \in R : g[s] = IF s = r THEN NoRow ELSE f[s]
    BY <1>1, <1>3, <2>1
  <2> QED
    BY <1>2, <1>3, <2>2, <2>3, RowsInv
<1>9. ASSUME NEW r \in R, CommitSwap(x, r) PROVE RevisionInv'
  <2>1. PICK g : g = [f EXCEPT ![r] = NoRow, ![nextRow] = fresh]
    OBVIOUS
  <2>2. /\ nextRow \in R /\ nextRow' = nextRow + 1 /\ Commits(x, "chan", g) /\ copy' = copy /\ rq' = rq
    BY <1>4, <1>9, <2>1 DEF CommitSwap
  <2>3. g \in [R -> Row] /\ \A s \in R : g[s] = IF s = nextRow THEN fresh ELSE IF s = r THEN NoRow ELSE f[s]
    BY <1>1, <1>3, <1>4, <2>1
  <2> QED
    BY <1>3, <1>4, <1>6, <2>2, <2>3, RowsInv
<1>10. ASSUME NEW r \in R, CommitDetach(x, r) PROVE RevisionInv'
  <2>1. PICK row : row = [f[r] EXCEPT !.linked = FALSE]
    OBVIOUS
  <2>2. row = [val |-> f[r].val, stamp |-> f[r].stamp, linked |-> FALSE] /\ f[r] \in Row
    BY <1>1, <2>1 DEF Row
  <2>3. row \in Row /\ row.val = f[r].val /\ row.stamp = f[r].stamp /\ ~row.linked
    BY <2>2 DEF Row
  <2>4. PICK g : g = [f EXCEPT ![r] = row]
    OBVIOUS
  <2>5. nextRow' = nextRow /\ Commits(x, "chan", g) /\ copy' = copy /\ rq' = rq
    BY <1>1, <1>10, <2>1, <2>4 DEF CommitDetach
  <2>6. g \in [R -> Row] /\ \A s \in R : g[s] = IF s = r THEN row ELSE f[s]
    BY <1>1, <2>3, <2>4
  <2> QED
    BY <1>2, <2>3, <2>5, <2>6, RowsInv
<1> QED
  BY <1>7, <1>8, <1>9, <1>10

LEMMA BaseUrlInv == ASSUME RevisionInv, EditBaseUrl PROVE RevisionInv'
<1>1. now \in Nat /\ edits \in Nat /\ now' = now /\ edits' = edits + 1 /\ edits < MaxEdits /\ urlSet' \in Nat
  BY RevisionAssumptions DEF RevisionInv, TimeInv, EditBaseUrl, Edits
<1>2. TableInv' /\ (\A t \in Tables : Shows(RowsOf(t), tab[t], tab'[t], nextRow, FALSE)) /\ nextRow <= nextRow'
  <2>1. tab' = tab /\ nextRow' = nextRow /\ now <= now' /\ now' \in Nat /\ edits <= edits' /\ edits' \in Nat
    BY <1>1 DEF EditBaseUrl, data
  <2> QED
    BY <1>1, <2>1, DataStays DEF RevisionInv
<1>3. TimeInv'
  <2>1. now' <= MaxNow + TicksPerSecond * edits'
    <3>1. now <= MaxNow + TicksPerSecond * edits
      BY DEF RevisionInv, TimeInv
    <3> QED
      BY <3>1, <1>1, Ticks, RevisionAssumptions
  <2>2. txn' = txn /\ tab' = tab /\ edits' \in 0..MaxEdits
    BY <1>1, RevisionAssumptions DEF EditBaseUrl, data
  <2> QED
    BY <1>1, <2>1, <2>2 DEF RevisionInv, TimeInv
<1>4. ServerInv'
  BY DEF RevisionInv, ServerInv, EditBaseUrl, server, Entries
<1>5. OnlyNoted(FALSE, FALSE)
  BY NothingNoted DEF RevisionInv, EditBaseUrl
<1>6. urlLoaded' = urlLoaded /\ boot' = boot /\ observed' = observed /\ urlSet' \in Nat
  BY <1>1 DEF EditBaseUrl, server, RevisionInv, UrlInv
<1> QED
  BY <1>1, <1>2, <1>3, <1>4, <1>5, <1>6, NotedInv

-----------------------------------------------------------------------------
(* The server's memory *)

LEMMA NoEntryFacts ==
    /\ NoEntry.lm = -1
    /\ \A o \in Observed : o # NoEntry
    /\ \A tag, url : NoEntry.rev # [tag |-> tag, url |-> url]
<1>1. NoEntry.lm = -1 /\ NoEntry.rev = <<>>
  BY DEF NoEntry
<1>2. \A o \in Observed : o # NoEntry
  BY <1>1 DEF Observed
<1>3. ASSUME NEW tag, NEW url PROVE <<>> # [tag |-> tag, url |-> url]
  OBVIOUS
<1> QED
  BY <1>1, <1>2, <1>3

LEMMA OtherUserInv == ASSUME RevisionInv, OtherUser PROVE RevisionInv'
<1>1. /\ now' = now /\ tab' = tab /\ nextRow' = nextRow /\ txn' = txn /\ urlSet' = urlSet /\ urlLoaded' = urlLoaded
      /\ boot' = boot /\ edits' = edits
  BY DEF OtherUser, data
<1>2. TableInv' /\ TimeInv'
  BY <1>1 DEF RevisionInv, TableInv, TimeInv
<1>3. (\A t \in Tables : Shows(RowsOf(t), tab[t], tab'[t], nextRow, FALSE)) /\ nextRow <= nextRow'
  <2>1. nextRow \in Nat
    BY RevisionAssumptions DEF RevisionInv, TableInv
  <2>2. nextRow <= nextRow'
    BY <2>1, <1>1
  <2>3. \A t \in Tables : Shows(RowsOf(t), tab[t], tab'[t], nextRow, FALSE)
    BY <1>1, SameRowsShow
  <2> QED
    BY <2>2, <2>3
<1>4. urlSet' \in Nat
  BY <1>1 DEF RevisionInv, UrlInv
<1>5. boot \in Nat \ {0} /\ others \in Nat /\ Entries <= MaxObserved /\ MaxObserved \in Nat \ {0}
      /\ (observed = NoEntry \/ (observed \in Observed /\ observed.lm >= boot))
  BY RevisionAssumptions DEF RevisionInv, ServerInv
<1>6. CASE Entries >= MaxObserved
  <2>1. observed' = NoEntry /\ others' = 1 /\ NoteUndated
    BY <1>6 DEF OtherUser
  <2>2. ServerInv'
    BY <2>1, <1>1, <1>5 DEF ServerInv, Entries
  <2>3. OnlyNoted(FALSE, TRUE)
    BY <2>1, UndatedNoted DEF RevisionInv
  <2> QED
    BY <1>1, <1>2, <1>3, <1>4, <2>2, <2>3, NotedInv
<1>7. CASE ~(Entries >= MaxObserved)
  <2>1. others' = others + 1 /\ observed' = observed /\ copy' = copy /\ rq' = rq
    BY <1>7 DEF OtherUser
  <2>2. Entries' = Entries + 1 /\ Entries \in Nat
    BY <2>1, <1>5 DEF Entries
  <2>3. ServerInv'
    BY <2>1, <2>2, <1>1, <1>5, <1>7 DEF ServerInv
  <2>4. OnlyNoted(FALSE, FALSE)
    BY <2>1, NothingNoted DEF RevisionInv
  <2> QED
    BY <1>1, <1>2, <1>3, <1>4, <2>1, <2>3, <2>4, NotedInv
<1> QED
  BY <1>6, <1>7

LEMMA MaxOfFour ==
    ASSUME NEW a \in Int, NEW b \in Int, NEW c \in Int, NEW d \in Int
    PROVE  Max({a, b} \union {c, d}) \in Int /\ Max({a, b} \union {c, d}) >= c /\ Max({a, b} \union {c, d}) >= d
<1> DEFINE S == {a, b} \union {c, d}
<1>1. S = (({a} \union {b}) \union {c}) \union {d}
  OBVIOUS
<1>2. IsFiniteSet({a} \union {b})
  BY FS_Singleton, FS_Union
<1>3. IsFiniteSet(({a} \union {b}) \union {c})
  BY <1>2, FS_Singleton, FS_Union
<1>4. IsFiniteSet((({a} \union {b}) \union {c}) \union {d})
  BY <1>3, FS_Singleton, FS_Union
<1>5. IsFiniteSet(S)
  BY <1>1, <1>4, Zenon
<1>6. S \in SUBSET Int /\ S # {} /\ c \in S /\ d \in S
  OBVIOUS
<1> HIDE DEF S
<1>7. Max(S) \in S /\ \A y \in S : Max(S) >= y
  BY <1>5, <1>6, MaxOf
<1>8. Max(S) \in Int /\ Max(S) >= c /\ Max(S) >= d
  BY <1>6, <1>7
<1> QED
  BY <1>8 DEF S

\* The date of a revision: as observed, or later than all observed before, and
\* not before the process.
LEMMA DateOf ==
    ASSUME ServerInv, now \in Nat, NEW tag, NEW url, tag["chan"].newest \in Nat, tag["src"].newest \in Nat
    PROVE  LET rev == [tag |-> tag, url |-> url] IN
           /\ observed.rev = rev => observed # NoEntry /\ LastModified(rev) = observed.lm
           /\ observed.rev # rev => /\ LastModified(rev) \in Int /\ LastModified(rev) >= boot
                                    /\ observed # NoEntry => LastModified(rev) > observed.lm
<1> DEFINE rev == [tag |-> tag, url |-> url]
           a == Second(tag["chan"].newest)
           b == Second(tag["src"].newest)
<1>1. a \in Int /\ b \in Int /\ Second(now) \in Int
  BY NextSecond
<1>2. {Second(rev.tag[t].newest) : t \in Tables} = {a, b}
  BY DEF Tables
<1>3. boot \in Nat \ {0} /\ (observed # NoEntry => observed.lm \in Nat /\ observed.lm >= boot)
  BY DEF ServerInv, Observed
<1>4. ASSUME observed.rev = rev PROVE observed # NoEntry /\ LastModified(rev) = observed.lm
  BY <1>4, NoEntryFacts DEF LastModified
<1>5. ASSUME observed.rev # rev
      PROVE  /\ LastModified(rev) \in Int /\ LastModified(rev) >= boot
             /\ observed # NoEntry => LastModified(rev) > observed.lm
  <2>1. CASE observed = NoEntry
    <3>1. {a, b} \union {boot} = {a, b} \union {boot, boot}
      OBVIOUS
    <3>2. LastModified(rev) = Max({a, b} \union {boot})
      BY <1>2, <1>5, <2>1 DEF LastModified
    <3>3. LastModified(rev) = Max({a, b} \union {boot, boot})
      BY <3>1, <3>2, Zenon
    <3> HIDE DEF a, b, rev
    <3> QED
      BY <3>3, <2>1, <1>1, <1>3, MaxOfFour
  <2>2. CASE observed # NoEntry
    <3>1. LastModified(rev) = Max({a, b} \union {Second(now), observed.lm + 1})
      BY <1>2, <1>5, <2>2 DEF LastModified
    <3> HIDE DEF a, b, rev
    <3>2. LastModified(rev) \in Int /\ LastModified(rev) >= observed.lm + 1
      <4>1. observed.lm + 1 \in Int
        BY <2>2, <1>3
      <4>2. PICK n \in Int, e \in Int : n = Second(now) /\ e = observed.lm + 1
        BY <4>1, <1>1
      <4>3. LastModified(rev) = Max({a, b} \union {n, e})
        BY <3>1, <4>2
      <4>4. Max({a, b} \union {n, e}) \in Int /\ Max({a, b} \union {n, e}) >= e
        BY <1>1, MaxOfFour
      <4>5. LastModified(rev) \in Int /\ LastModified(rev) >= e
        BY <4>3, <4>4, Zenon
      <4> QED
        BY <4>2, <4>5
    <3> QED
      BY <3>2, <2>2, <1>3
  <2> QED
    BY <2>1, <2>2
<1> QED
  BY <1>4, <1>5

LEMMA RestartInv == ASSUME RevisionInv, Restart PROVE RevisionInv'
<1>1. now \in Nat /\ edits \in Nat /\ edits' = edits + 1 /\ edits < MaxEdits /\ edits' \in 0..MaxEdits
  BY RevisionAssumptions DEF RevisionInv, TimeInv, Restart, Edits
<1>2. /\ boot' = Second(now) + 1 /\ now' = boot' * TicksPerSecond /\ urlLoaded' = urlSet /\ urlSet' = urlSet
      /\ observed' = NoEntry /\ others' = 0 /\ txn' = [x \in Txns |-> 0] /\ rq' = [v \in TVs |-> NoRequest]
      /\ copy' = [v \in TVs |-> IF copy[v].lm < boot' THEN copy[v] ELSE [copy[v] EXCEPT !.undated = TRUE]]
      /\ tab' = tab /\ nextRow' = nextRow
  BY DEF Restart, data, NoTxn
<1>3. now' \in Nat /\ now <= now' /\ now' <= now + TicksPerSecond /\ boot' \in Nat \ {0}
  BY <1>1, <1>2, NextSecond
<1>4. TableInv'
  <2>1. edits' \in Nat /\ edits <= edits' /\ tab' = tab /\ nextRow' = nextRow
    BY <1>1, <1>2
  <2> QED
    BY <1>1, <1>3, <2>1, DataStays DEF RevisionInv
<1>5. TimeInv'
  <2>1. now' <= MaxNow + TicksPerSecond * edits'
    <3>1. now <= MaxNow + TicksPerSecond * edits
      BY DEF RevisionInv, TimeInv
    <3> QED
      BY <3>1, <1>1, <1>3, Ticks, RevisionAssumptions
  <2>2. txn' \in [Txns -> 0..now'] /\ \A x \in Txns : txn'[x] = 0
    BY <1>2, <1>3
  <2> QED
    BY <1>1, <1>3, <2>1, <2>2 DEF TimeInv
<1>6. ServerInv'
  BY <1>2, <1>3, RevisionAssumptions DEF ServerInv, Entries
<1>7. ASSUME NEW v \in TVs
      PROVE  /\ copy[v] \in Copies /\ copy'[v] \in Copies /\ SameList(copy[v], copy'[v])
             /\ copy'[v].undated \/ copy'[v].lm < boot'
             /\ rq'[v] = NoRequest /\ (copy[v] = NoCopy => copy'[v] = NoCopy)
  <2>1. copy[v] \in Copies
    BY DEF RevisionInv, RequestType
  <2>2. CASE copy[v].lm < boot'
    BY <1>2, <2>1, <2>2, Same
  <2>3. CASE ~(copy[v].lm < boot')
    <3>1. copy'[v] = [copy[v] EXCEPT !.undated = TRUE]
      BY <1>2, <2>3
    <3>2. SameList(copy[v], copy'[v]) /\ copy'[v].undated
      BY <2>1, <3>1, UndatedList
    <3>3. copy[v] # NoCopy
      BY <2>3, <1>3, NoneKept
    <3> QED
      BY <1>2, <2>1, <3>2, <3>3 DEF SameList
  <2> QED
    BY <2>2, <2>3
<1>8. UrlInv'
  BY <1>2 DEF RevisionInv, UrlInv
<1>9. RequestType'
  <2>1. copy' \in [TVs -> Copies] /\ rq' \in [TVs -> Asked]
    BY <1>2, <1>7, NoneKept
  <2>2. \A v \in TVs : (copy'[v] # NoCopy => copy'[v].lm >= 1) /\ rq'[v].step = "idle" /\ rq'[v].new = NoCopy
    BY <1>7, NoneKept DEF RevisionInv, RequestType, SameList
  <2> QED
    BY <2>1, <2>2 DEF RequestType
<1>10. KeptInv'
  <2>1. ASSUME NEW v \in TVs, copy'[v] # NoCopy, NEW t \in Tables, KeptIn(t, copy[v]) PROVE KeptBy(t, tab'[t], nextRow', copy'[v])
    <3>1. KeptBy(t, tab[t], nextRow, copy[v]) /\ Shows(RowsOf(t), tab[t], tab[t], nextRow, FALSE)
      BY <2>1, SameRowsShow DEF KeptIn
    <3>2. tab[t] \in [RowsOf(t) -> Row] /\ nextRow \in Nat /\ \A r \in RowsOf(t) : tab[t][r].stamp <= now
      BY RevisionAssumptions DEF RevisionInv, TableInv
    <3>3. nextRow <= nextRow
      BY <3>2
    <3> QED
      BY <1>1, <1>2, <1>7, <3>1, <3>2, <3>3, KeptOn
  <2>2. ASSUME NEW v \in TVs, copy'[v] # NoCopy
        PROVE  KeptBy("chan", tab'["chan"], nextRow', copy'[v]) /\ KeptBy("src", tab'["src"], nextRow', copy'[v])
    BY <2>1, <2>2, <1>7 DEF RevisionInv, KeptInv, Tables
  <2>3. \A v \in TVs : rq'[v].step = "idle"
    BY <1>7, NoneKept
  <2> QED
    BY <2>2, <2>3 DEF KeptInv, KeptIn
<1>11. DateInv'
  BY <1>2, <1>7, NoneKept DEF DateInv, DatedIn, DatedBy
<1>12. MatchInv'
  BY <1>7, NoneKept DEF MatchInv
<1> QED
  BY <1>4, <1>5, <1>6, <1>8, <1>9, <1>10, <1>11, <1>12 DEF RevisionInv

-----------------------------------------------------------------------------
(* Requests *)

\* A step of the request of v alone: what it has to keep.
LEMMA RequestInv ==
    ASSUME RevisionInv, NEW v \in TVs, NEW q \in Asked, rq' = [rq EXCEPT ![v] = q],
           now' = now, tab' = tab, nextRow' = nextRow, txn' = txn, urlSet' = urlSet, urlLoaded' = urlLoaded,
           boot' = boot, edits' = edits, observed' = observed, others' = others,
           copy' = copy,
           q.step \in {"body", "rest"} => q.new.lm >= 1,
           q.step \in {"idle", "chan"} => q.new = NoCopy,
           q.step # "idle" /\ q.how # "plain" => copy[v] # NoCopy,
           q.step \in {"src", "body", "rest"} => KeptIn("chan", q.new),
           q.step \in {"body", "rest"} => KeptIn("src", q.new) /\ DatedIn(q.new),
           q.step = "src" /\ copy[v] # NoCopy /\ q.new.tag["chan"] = copy[v].tag["chan"] =>
               q.was["chan"] = copy[v].at["chan"] \/ copy[v].late,
           q.step # "same"
    PROVE  RevisionInv'
<1> USE DEF RevisionInv
<1>1. rq' \in [TVs -> Asked] /\ rq'[v] = q /\ \A w \in TVs \ {v} : rq'[w] = rq[w]
  BY DEF RequestType
<1>2. TableInv' /\ TimeInv' /\ ServerInv'
  BY DEF TableInv, TimeInv, ServerInv, Entries
<1>3. UrlInv'
  BY DEF UrlInv
<1>4. RequestType'
  BY <1>1 DEF RequestType
<1>5. ASSUME NEW w \in TVs
      PROVE  /\ copy[w] # NoCopy => KeptIn("chan", copy[w]) /\ KeptIn("src", copy[w]) /\ DatedIn(copy[w])
             /\ rq'[w].step \in {"src", "body", "rest"} => KeptIn("chan", rq'[w].new)
             /\ rq'[w].step \in {"body", "rest"} => KeptIn("src", rq'[w].new) /\ DatedIn(rq'[w].new)
  BY <1>1 DEF KeptInv, DateInv
<1>6. KeptInv'
  BY <1>5 DEF KeptInv, KeptIn
<1>7. DateInv'
  BY <1>5 DEF DateInv, DatedIn
<1>8. MatchInv'
  BY <1>1 DEF MatchInv, AsWhenTagged
<1> QED
  BY <1>2, <1>3, <1>4, <1>6, <1>7, <1>8

LEMMA PollInv == ASSUME RevisionInv, NEW v \in TVs, NEW how \in Ways, Poll(v, how) PROVE RevisionInv'
<1>1. PICK q : q = [rq[v] EXCEPT !.step = "chan", !.how = how]
  OBVIOUS
<1>2. rq[v] \in Asked /\ rq[v].step = "idle" /\ rq[v].new = NoCopy /\ (how # "plain" => copy[v] # NoCopy)
  BY DEF RevisionInv, RequestType, Poll
<1>3. q = [step |-> "chan", how |-> how, was |-> rq[v].was, new |-> rq[v].new]
  BY <1>1, <1>2 DEF Asked
<1>4. q \in Asked /\ q.step = "chan" /\ q.how = how /\ q.new = NoCopy
  BY <1>2, <1>3 DEF Asked, Steps
<1>5. rq' = [rq EXCEPT ![v] = q]
  BY <1>1 DEF Poll, RevisionInv, RequestType
<1>6. /\ now' = now /\ tab' = tab /\ nextRow' = nextRow /\ txn' = txn /\ urlSet' = urlSet /\ urlLoaded' = urlLoaded
      /\ boot' = boot /\ edits' = edits /\ observed' = observed /\ others' = others /\ copy' = copy
  BY DEF Poll, data, server
<1> QED
  BY <1>2, <1>4, <1>5, <1>6, RequestInv

LEMMA ReadPartInv == ASSUME RevisionInv, NEW v \in TVs, ReadChannelsPart(v) PROVE RevisionInv'
<1> DEFINE c == rq[v].new
<1>1. PICK q, new : /\ q = [rq[v] EXCEPT !.step = "src", !.was["chan"] = Content("chan"), !.new = new]
                    /\ new = [rq[v].new EXCEPT !.at["chan"] = Content("chan"), !.next = nextRow,
                                                  !.tag["chan"] = Part("chan"), !.tagUrl = urlSet]
  OBVIOUS
<1>2. rq[v] \in Asked /\ rq[v].step = "chan" /\ c = NoCopy /\ (rq[v].how # "plain" => copy[v] # NoCopy)
  BY DEF RevisionInv, RequestType, ReadChannelsPart
<1>3. c \in Copies /\ c.late = FALSE /\ c.tag \in Tags /\ c.at \in Lists /\ rq[v].was \in Lists
  BY <1>2, NoneKept DEF Asked, Copies
<1>4. PICK was, at, tag : /\ was = [rq[v].was EXCEPT !["chan"] = Content("chan")]
                          /\ at = [c.at EXCEPT !["chan"] = Content("chan")]
                          /\ tag = [c.tag EXCEPT !["chan"] = Part("chan")]
  OBVIOUS
<1>5. "chan" \in Tables /\ Content("chan") \in Contents /\ Part("chan") \in Parts
  BY ReadNow DEF RevisionInv, Tables
<1>6. /\ was \in Lists /\ at \in Lists /\ tag \in Tags
      /\ was["chan"] = Content("chan") /\ at["chan"] = Content("chan") /\ tag["chan"] = Part("chan")
  BY <1>3, <1>4, <1>5 DEF Lists, Tags
<1>7. new = [tag |-> tag, tagUrl |-> urlSet, lm |-> c.lm, at |-> at, next |-> nextRow, body |-> c.body, url |-> c.url, late |-> c.late,
             undated |-> c.undated]
  BY <1>1, <1>3, <1>4 DEF Copies
<1>8. urlSet \in Nat /\ nextRow \in Nat
  BY RevisionAssumptions DEF RevisionInv, UrlInv, TableInv
<1>9. new \in Copies /\ new.at = at /\ new.tag = tag /\ new.tagUrl = urlSet /\ new.late = FALSE
  BY <1>3, <1>6, <1>7, <1>8 DEF Copies
<1>10. q = [step |-> "src", how |-> rq[v].how, was |-> was, new |-> new]
  BY <1>1, <1>2, <1>4 DEF Asked
<1>11. q \in Asked /\ q.step = "src" /\ q.how = rq[v].how /\ q.was = was /\ q.new = new
  BY <1>2, <1>6, <1>9, <1>10 DEF Asked, Steps
<1>12. rq' = [rq EXCEPT ![v] = q]
  BY <1>1 DEF ReadChannelsPart, RevisionInv, RequestType
<1>13. /\ now' = now /\ tab' = tab /\ nextRow' = nextRow /\ txn' = txn /\ urlSet' = urlSet /\ urlLoaded' = urlLoaded
       /\ boot' = boot /\ edits' = edits /\ observed' = observed /\ others' = others /\ copy' = copy
  BY DEF ReadChannelsPart, data, server
<1>14. KeptIn("chan", q.new)
  <2>1. Keeps(RowsOf("chan"), tab["chan"], nextRow, Content("chan"), Part("chan").newest, FALSE) /\ Tagged(Content("chan"), Part("chan"))
    BY <1>5, ReadIsKept DEF RevisionInv
  <2>2. Part("chan").newest \in Nat /\ Content("chan") \in [DOMAIN Content("chan") -> Nat \X BOOLEAN]
    <3>1. Content("chan") \in [Here(RowsOf("chan"), tab["chan"]) -> Nat \X BOOLEAN] /\ Part("chan").newest \in Nat
      BY <1>5, ReadNow DEF RevisionInv
    <3> QED
      BY <3>1
  <2> QED
    BY <2>1, <2>2, <1>6, <1>9, <1>11 DEF KeptIn, KeptBy
<1>15. ASSUME copy[v] # NoCopy, q.new.tag["chan"] = copy[v].tag["chan"]
       PROVE  q.was["chan"] = copy[v].at["chan"] \/ copy[v].late
  <2>1. KeptIn("chan", copy[v]) /\ copy[v].tag["chan"] = Part("chan") /\ copy[v].late \in BOOLEAN
    BY <1>6, <1>9, <1>11, <1>15 DEF RevisionInv, KeptInv, RequestType, Copies
  <2>2. CASE copy[v].late = FALSE
    BY <2>1, <2>2, <1>5, <1>6, <1>11, TagIsExact DEF RevisionInv
  <2> QED
    BY <2>1, <2>2
<1> QED
  BY <1>2, <1>8, <1>9, <1>11, <1>12, <1>13, <1>14, <1>15, RequestInv

LEMMA NotModifiedInv == ASSUME RevisionInv, NEW v \in TVs, NotModified(v) PROVE RevisionInv'
<1>1. /\ now' = now /\ tab' = tab /\ nextRow' = nextRow /\ txn' = txn /\ urlSet' = urlSet /\ urlLoaded' = urlLoaded
      /\ boot' = boot /\ edits' = edits /\ observed' = observed /\ others' = others /\ copy' = copy
  BY DEF NotModified, data, server
<1>2. PICK q \in Asked : q = NoRequest /\ q.step = "idle" /\ q.new = NoCopy
  BY NoneKept
<1>3. rq' = [rq EXCEPT ![v] = q]
  BY <1>2 DEF NotModified
<1> QED
  BY <1>1, <1>2, <1>3, RequestInv

LEMMA ReadChannelsInv == ASSUME RevisionInv, NEW v \in TVs, ReadChannels(v) PROVE RevisionInv'
<1> DEFINE c == rq[v].new
<1>1. PICK q : q = [rq[v] EXCEPT !.step = "rest", !.new.body["chan"] = Content("chan")]
  OBVIOUS
<1>2. rq[v] \in Asked /\ rq[v].step = "body" /\ c \in Copies /\ c.body \in Lists
  BY DEF RevisionInv, RequestType, ReadChannels, Asked, Copies
<1>3. PICK body : body = [c.body EXCEPT !["chan"] = Content("chan")]
  OBVIOUS
<1>4. body \in Lists
  <2>1. "chan" \in Tables /\ Content("chan") \in Contents
    BY ReadNow DEF RevisionInv, Tables
  <2> QED
    BY <1>2, <1>3, <2>1 DEF Lists
<1>5. PICK new : new = [tag |-> c.tag, tagUrl |-> c.tagUrl, lm |-> c.lm, at |-> c.at, next |-> c.next, body |-> body, url |-> c.url, late |-> c.late,
                        undated |-> c.undated]
  OBVIOUS
<1>6. /\ new \in Copies /\ new.tag = c.tag /\ new.tagUrl = c.tagUrl /\ new.lm = c.lm /\ new.at = c.at
      /\ new.late = c.late /\ new.undated = c.undated
  BY <1>2, <1>4, <1>5 DEF Copies
<1>7. q = [step |-> "rest", how |-> rq[v].how, was |-> rq[v].was, new |-> new]
  <2>1. new = [c EXCEPT !.body["chan"] = Content("chan")]
    BY <1>2, <1>3, <1>5 DEF Copies
  <2> QED
    BY <1>1, <1>2, <2>1 DEF Asked
<1>8. q \in Asked /\ q.step = "rest" /\ q.how = rq[v].how /\ q.new = new
  BY <1>2, <1>6, <1>7 DEF Asked, Steps
<1>9. rq' = [rq EXCEPT ![v] = q]
  BY <1>1 DEF ReadChannels, RevisionInv, RequestType
<1>10. /\ now' = now /\ tab' = tab /\ nextRow' = nextRow /\ txn' = txn /\ urlSet' = urlSet /\ urlLoaded' = urlLoaded
       /\ boot' = boot /\ edits' = edits /\ observed' = observed /\ others' = others /\ copy' = copy
  BY DEF ReadChannels, data, server
<1>11. /\ KeptIn("chan", c) /\ KeptIn("src", c) /\ DatedIn(c) /\ c.lm >= 1
       /\ (rq[v].how # "plain" => copy[v] # NoCopy)
  BY <1>2 DEF RevisionInv, KeptInv, DateInv, RequestType
<1>12. KeptIn("chan", q.new) /\ KeptIn("src", q.new) /\ DatedIn(q.new)
  BY <1>6, <1>8, <1>11 DEF KeptIn, KeptBy, DatedIn, DatedBy
<1> QED
  BY <1>6, <1>8, <1>9, <1>10, <1>11, <1>12, RequestInv

\* The same where the revision is observed.
LEMMA ObservedInv ==
    ASSUME RevisionInv, NEW v \in TVs, NEW q \in Asked, rq' = [rq EXCEPT ![v] = q],
           now' = now, tab' = tab, nextRow' = nextRow, txn' = txn, urlSet' = urlSet, urlLoaded' = urlLoaded,
           boot' = boot, edits' = edits, copy' = copy, ServerInv',
           \A c \in Copies : DatedIn(c) => DatedBy(observed', boot, c),
           q.how # "plain" => copy[v] # NoCopy,
           \/ q.step = "body" /\ q.new.lm >= 1 /\ KeptIn("chan", q.new) /\ KeptIn("src", q.new) /\ DatedBy(observed', boot, q.new)
           \/ /\ q.step = "same"
              /\ q.how = "tag" =>
                   copy[v].tagUrl = q.new.tagUrl /\ ((\A t \in Tables : copy[v].at[t] = q.was[t]) \/ copy[v].late)
              /\ q.how = "date" => (\A t \in Tables : copy[v].at[t] = q.was[t]) \/ copy[v].late \/ copy[v].undated
    PROVE  RevisionInv'
<1> USE DEF RevisionInv
<1>1. rq' \in [TVs -> Asked] /\ rq'[v] = q /\ \A w \in TVs \ {v} : rq'[w] = rq[w]
  BY DEF RequestType
<1>2. TableInv' /\ TimeInv'
  BY DEF TableInv, TimeInv
<1>3. UrlInv'
  BY DEF UrlInv
<1>4. RequestType'
  BY <1>1 DEF RequestType
<1>5. KeptInv'
  <2> SUFFICES ASSUME NEW w \in TVs
               PROVE  /\ copy[w] # NoCopy => KeptIn("chan", copy[w]) /\ KeptIn("src", copy[w])
                      /\ rq'[w].step \in {"src", "body", "rest"} => KeptIn("chan", rq'[w].new)
                      /\ rq'[w].step \in {"body", "rest"} => KeptIn("src", rq'[w].new)
    BY DEF KeptInv, KeptIn
  <2>1. CASE w = v
    BY <1>1, <2>1 DEF KeptInv
  <2>2. CASE w # v
    BY <1>1, <2>2 DEF KeptInv
  <2> QED
    BY <2>1, <2>2
<1>6. DateInv'
  <2> SUFFICES ASSUME NEW w \in TVs
               PROVE  /\ copy[w] # NoCopy => DatedBy(observed', boot, copy[w])
                      /\ rq'[w].step \in {"body", "rest"} => DatedBy(observed', boot, rq'[w].new)
    BY DEF DateInv, DatedIn
  <2>1. CASE w = v
    BY <1>1, <2>1 DEF DateInv, RequestType
  <2>2. CASE w # v
    BY <1>1, <2>2 DEF DateInv, RequestType, Asked
  <2> QED
    BY <2>1, <2>2
<1>7. MatchInv'
  BY <1>1 DEF MatchInv, AsWhenTagged
<1> QED
  BY <1>2, <1>3, <1>4, <1>5, <1>6, <1>7

\* Dates stay right while the observed date grows with the revision.
LEMMA DatesPass ==
    ASSUME ServerInv, NEW e \in Observed, e.lm >= boot,
           e = observed \/ (observed # NoEntry => observed.lm < e.lm), NEW c, c.lm \in Int, DatedIn(c)
    PROVE  DatedBy(e, boot, c)
<1>1. e # NoEntry /\ e.lm \in Nat /\ boot \in Nat
  BY NoEntryFacts DEF Observed, ServerInv
<1>2. observed # NoEntry => observed.lm \in Nat
  BY DEF ServerInv, Observed
<1> QED
  BY <1>1, <1>2 DEF DatedIn, DatedBy

LEMMA ValidateInv == ASSUME RevisionInv, NEW v \in TVs, Validate(v) PROVE RevisionInv'
<1> DEFINE c == rq[v].new
<1>1. PICK tag, rev, lm : /\ tag = [c.tag EXCEPT !["src"] = Part("src")]
                          /\ rev = [tag |-> tag, url |-> c.tagUrl] /\ lm = LastModified(rev)
  OBVIOUS
<1>2. /\ rq[v].step = "src" /\ now' = now /\ tab' = tab /\ nextRow' = nextRow /\ txn' = txn /\ urlSet' = urlSet
      /\ urlLoaded' = urlLoaded /\ boot' = boot /\ edits' = edits /\ copy' = copy
  BY DEF Validate, data
<1>3. IF observed.rev = rev THEN observed' = observed /\ others' = others
      ELSE /\ observed' = [rev |-> rev, lm |-> lm]
           /\ others' = IF Entries >= MaxObserved THEN 0 ELSE others
  BY <1>1 DEF Validate
<1>4. rq' = [rq EXCEPT ![v] =
         IF Matches(v, tag, c.tagUrl, lm)
         THEN [rq[v] EXCEPT !.step = "same", !.was["src"] = Content("src")]
         ELSE [rq[v] EXCEPT !.step = "body", !.new = [c EXCEPT !.tag = tag, !.lm = lm, !.at["src"] = Content("src")]]]
  BY <1>1 DEF Validate
<1>5. /\ rq[v] \in Asked /\ c \in Copies /\ copy[v] \in Copies /\ (rq[v].how # "plain" => copy[v] # NoCopy)
      /\ c.tag \in Tags /\ c.at \in Lists /\ rq[v].was \in Lists /\ c.tagUrl \in Nat /\ c.late \in BOOLEAN
      /\ copy[v].late \in BOOLEAN /\ copy[v].lm \in Int
  BY <1>2 DEF RevisionInv, RequestType, Asked, Copies
<1>6. /\ "src" \in Tables /\ Content("src") \in Contents /\ Part("src") \in Parts /\ Part("src").newest \in Nat
      /\ Content("src") \in [Here(RowsOf("src"), tab["src"]) -> Nat \X BOOLEAN]
  BY ReadNow DEF RevisionInv, Tables
<1>7. /\ tag \in Tags /\ tag["src"] = Part("src") /\ tag["chan"] = c.tag["chan"] /\ rev \in Revs
  BY <1>1, <1>5, <1>6 DEF Tags, Tables, Revs
<1>8. KeptIn("chan", c) /\ tag["chan"].newest \in Nat
  BY <1>2, <1>7 DEF RevisionInv, KeptInv, KeptIn, KeptBy
<1>9. /\ observed.rev = rev => observed # NoEntry /\ lm = observed.lm
      /\ observed.rev # rev => /\ lm \in Int /\ lm >= boot
                               /\ observed # NoEntry => lm > observed.lm
  BY <1>1, <1>6, <1>7, <1>8, DateOf DEF RevisionInv, TimeInv
<1>10. /\ boot \in Nat \ {0} /\ (observed # NoEntry => observed \in Observed /\ observed.lm \in Nat \ {0} /\ observed.lm >= boot)
       /\ others \in Nat /\ Entries <= MaxObserved /\ MaxObserved \in Nat \ {0}
  BY RevisionAssumptions DEF RevisionInv, ServerInv, Observed
<1>11. lm \in Nat \ {0} /\ lm >= boot
  <2>1. CASE observed.rev = rev
    <3>1. lm = observed.lm /\ observed # NoEntry
      BY <2>1, <1>9
    <3> QED
      BY <3>1, <1>10
  <2>2. CASE observed.rev # rev
    <3>1. lm \in Int /\ lm >= boot
      BY <2>2, <1>9
    <3> QED
      BY <3>1, <1>10
  <2> QED
    BY <2>1, <2>2
<1>12. /\ observed' \in Observed /\ observed' # NoEntry /\ observed'.rev = rev /\ observed'.lm = lm
       /\ observed' = observed \/ (observed # NoEntry => observed.lm < observed'.lm)
  <2>1. CASE observed.rev = rev
    BY <2>1, <1>3, <1>9, <1>10
  <2>2. CASE observed.rev # rev
    <3>1. observed' = [rev |-> rev, lm |-> lm]
      BY <2>2, <1>3
    <3>2. observed' \in Observed /\ observed'.rev = rev /\ observed'.lm = lm
      BY <3>1, <1>7, <1>11 DEF Observed
    <3> QED
      BY <3>2, <2>2, <1>9, <1>10, <1>11, NoEntryFacts
  <2> QED
    BY <2>1, <2>2
<1>13. ServerInv'
  <2>1. others' \in Nat /\ Entries' <= MaxObserved
    <3>1. Entries' = others' + 1
      BY <1>12 DEF Entries
    <3>2. CASE observed.rev = rev
      BY <3>1, <3>2, <1>3, <1>9, <1>10 DEF Entries
    <3>3. CASE observed.rev # rev
      <4>1. others' = IF Entries >= MaxObserved THEN 0 ELSE others
        BY <3>3, <1>3
      <4>2. Entries >= others /\ Entries \in Nat
        BY <1>10 DEF Entries
      <4> QED
        BY <3>1, <4>1, <4>2, <1>10
    <3> QED
      BY <3>2, <3>3
  <2> QED
    BY <2>1, <1>2, <1>10, <1>11, <1>12 DEF ServerInv
<1>14. \A d \in Copies : DatedIn(d) => DatedBy(observed', boot, d)
  <2> SUFFICES ASSUME NEW d \in Copies, DatedIn(d) PROVE DatedBy(observed', boot, d)
    OBVIOUS
  <2>1. d.lm \in Int
    BY DEF Copies
  <2> QED
    BY <2>1, <1>11, <1>12, DatesPass DEF RevisionInv
<1>16. CASE Matches(v, tag, c.tagUrl, lm)
  <2>1. PICK q : q = [rq[v] EXCEPT !.step = "same", !.was["src"] = Content("src")]
    OBVIOUS
  <2>2. PICK was : was = [rq[v].was EXCEPT !["src"] = Content("src")]
    OBVIOUS
  <2>3. was \in Lists /\ was["src"] = Content("src") /\ was["chan"] = rq[v].was["chan"]
    BY <2>2, <1>5, <1>6 DEF Lists, Tables
  <2>4. q = [step |-> "same", how |-> rq[v].how, was |-> was, new |-> c]
    BY <2>1, <2>2, <1>5 DEF Asked
  <2>5. q \in Asked /\ q.step = "same" /\ q.how = rq[v].how /\ q.was = was /\ q.new = c
    BY <2>3, <2>4, <1>5 DEF Asked, Steps
  <2>6. rq' = [rq EXCEPT ![v] = q]
    BY <2>1, <1>4, <1>16, Zenon
  <2>7. ASSUME copy[v] # NoCopy, copy[v].tag = tag
        PROVE  (\A t \in Tables : copy[v].at[t] = q.was[t]) \/ copy[v].late
    <3>1. KeptIn("src", copy[v])
      BY <2>7 DEF RevisionInv, KeptInv
    <3>2. was["chan"] = copy[v].at["chan"] \/ copy[v].late
      BY <2>3, <2>7, <1>2, <1>7 DEF RevisionInv, MatchInv
    <3>3. CASE copy[v].late = FALSE
      <4>1. copy[v].at["src"] = Content("src")
        BY <3>1, <3>3, <2>7, <1>6, <1>7, TagIsExact DEF RevisionInv
      <4> QED
        BY <4>1, <3>2, <3>3, <2>3, <2>5 DEF Tables
    <3> QED
      BY <3>3, <1>5
  <2>8. q.how = "tag" => /\ copy[v].tagUrl = q.new.tagUrl
                         /\ (\A t \in Tables : copy[v].at[t] = q.was[t]) \/ copy[v].late
    <3> HAVE q.how = "tag"
    <3>1. copy[v].tag = tag /\ copy[v].tagUrl = c.tagUrl /\ copy[v] # NoCopy
      BY <2>5, <1>5, <1>16 DEF Matches
    <3> QED
      BY <3>1, <2>5, <2>7
  <2>9. q.how = "date" => (\A t \in Tables : copy[v].at[t] = q.was[t]) \/ copy[v].late \/ copy[v].undated
    <3> SUFFICES ASSUME q.how = "date", ~copy[v].undated PROVE (\A t \in Tables : copy[v].at[t] = q.was[t]) \/ copy[v].late
      OBVIOUS
    <3>1. lm <= copy[v].lm /\ copy[v] # NoCopy
      BY <2>5, <1>5, <1>16 DEF Matches
    <3>2. DatedBy(observed', boot, copy[v])
      BY <3>1, <1>5, <1>14 DEF RevisionInv, DateInv
    <3>3. rev = [tag |-> copy[v].tag, url |-> copy[v].tagUrl]
      <4>1. copy[v].lm < lm \/ (copy[v].lm = lm /\ rev = [tag |-> copy[v].tag, url |-> copy[v].tagUrl])
        BY <3>2, <1>12 DEF DatedBy
      <4> QED
        BY <4>1, <3>1, <1>5, <1>11
    <3>4. copy[v].tag = tag
      BY <3>3, <1>1
    <3> QED
      BY <3>1, <3>4, <2>7
  <2> QED
    BY <2>5, <2>6, <2>8, <2>9, <1>2, <1>5, <1>13, <1>14, ObservedInv
<1>17. CASE ~Matches(v, tag, c.tagUrl, lm)
  <2>1. PICK q, new : /\ new = [c EXCEPT !.tag = tag, !.lm = lm, !.at["src"] = Content("src")]
                      /\ q = [rq[v] EXCEPT !.step = "body", !.new = new]
    OBVIOUS
  <2>2. PICK at : at = [c.at EXCEPT !["src"] = Content("src")]
    OBVIOUS
  <2>3. at \in Lists /\ at["src"] = Content("src") /\ at["chan"] = c.at["chan"]
    BY <2>2, <1>5, <1>6 DEF Lists, Tables
  <2>4. new = [tag |-> tag, tagUrl |-> c.tagUrl, lm |-> lm, at |-> at, next |-> c.next, body |-> c.body, url |-> c.url, late |-> c.late,
               undated |-> c.undated]
    BY <2>1, <2>2, <1>5 DEF Copies
  <2>5. /\ new \in Copies /\ new.at = at /\ new.tag = tag /\ new.tagUrl = c.tagUrl /\ new.lm = lm /\ new.late = c.late
    BY <2>3, <2>4, <1>5, <1>7, <1>11 DEF Copies
  <2>6. q = [step |-> "body", how |-> rq[v].how, was |-> rq[v].was, new |-> new]
    BY <2>1, <1>5 DEF Asked
  <2>7. q \in Asked /\ q.step = "body" /\ q.how = rq[v].how /\ q.new = new
    BY <2>5, <2>6, <1>5 DEF Asked, Steps
  <2>8. rq' = [rq EXCEPT ![v] = q]
    BY <2>1, <1>4, <1>17, Zenon
  <2>9. KeptIn("chan", new)
    BY <2>3, <2>5, <1>7, <1>8 DEF KeptIn, KeptBy
  <2>10. KeptIn("src", new)
    <3>1. Keeps(RowsOf("src"), tab["src"], nextRow, Content("src"), Part("src").newest, FALSE)
      BY <1>6, ReadIsKept DEF RevisionInv
    <3>2. Keeps(RowsOf("src"), tab["src"], nextRow, Content("src"), Part("src").newest, c.late)
      BY <3>1, <1>5 DEF Keeps
    <3>3. 1 \in DOMAIN Content("src") /\ Content("src") \in [DOMAIN Content("src") -> Nat \X BOOLEAN]
      <4>1. DOMAIN Content("src") = Here(RowsOf("src"), tab["src"])
        BY <1>6
      <4>2. 1 \in Here(RowsOf("src"), tab["src"])
        BY DEF RevisionInv, TableInv, Here, RowsOf
      <4> QED
        BY <4>1, <4>2, <1>6
    <3> QED
      BY <3>2, <3>3, <2>3, <2>5, <1>6, <1>7 DEF KeptIn, KeptBy
  <2>11. DatedBy(observed', boot, new)
    BY <2>5, <1>1, <1>12 DEF DatedBy
  <2>12. /\ q.step = "body" /\ q.new.lm >= 1 /\ KeptIn("chan", q.new) /\ KeptIn("src", q.new) /\ DatedBy(observed', boot, q.new)
         /\ (q.how # "plain" => copy[v] # NoCopy)
    BY <2>5, <2>7, <2>9, <2>10, <2>11, <1>5, <1>11
  <2> QED
    BY <2>7, <2>8, <2>12, <1>2, <1>13, <1>14, ObservedInv
<1> QED
  BY <1>16, <1>17

LEMMA AnswerInv == ASSUME RevisionInv, NEW v \in TVs, Answer(v) PROVE RevisionInv'
<1> DEFINE c == rq[v].new
<1>1. PICK d : d = [c EXCEPT !.body["src"] = Content("src"), !.url = urlLoaded]
  OBVIOUS
<1>2. /\ rq[v].step = "rest" /\ copy' = [copy EXCEPT ![v] = d] /\ rq' = [rq EXCEPT ![v] = NoRequest]
      /\ now' = now /\ tab' = tab /\ nextRow' = nextRow /\ txn' = txn /\ urlSet' = urlSet /\ urlLoaded' = urlLoaded
      /\ boot' = boot /\ edits' = edits /\ observed' = observed /\ others' = others
  BY <1>1 DEF Answer, data, server
<1>3. /\ c \in Copies /\ c.body \in Lists /\ c.lm >= 1 /\ urlLoaded \in Nat
      /\ KeptIn("chan", c) /\ KeptIn("src", c) /\ DatedIn(c)
  BY <1>2 DEF RevisionInv, RequestType, Asked, Copies, UrlInv, KeptInv, DateInv
<1>4. PICK body : body = [c.body EXCEPT !["src"] = Content("src")]
  OBVIOUS
<1>5. body \in Lists
  <2>1. "src" \in Tables /\ Content("src") \in Contents
    BY ReadNow DEF RevisionInv, Tables
  <2> QED
    BY <2>1, <1>3, <1>4 DEF Lists
<1>6. d = [tag |-> c.tag, tagUrl |-> c.tagUrl, lm |-> c.lm, at |-> c.at, next |-> c.next, body |-> body, url |-> urlLoaded, late |-> c.late,
           undated |-> c.undated]
  BY <1>1, <1>3, <1>4 DEF Copies
<1>7. /\ d \in Copies /\ d.tag = c.tag /\ d.tagUrl = c.tagUrl /\ d.lm = c.lm /\ d.at = c.at /\ d.url = urlLoaded
      /\ d.late = c.late /\ d.undated = c.undated
  BY <1>3, <1>5, <1>6 DEF Copies
<1>8. /\ copy' \in [TVs -> Copies] /\ copy'[v] = d /\ \A w \in TVs \ {v} : copy'[w] = copy[w]
      /\ rq' \in [TVs -> Asked] /\ rq'[v] = NoRequest /\ \A w \in TVs \ {v} : rq'[w] = rq[w]
  BY <1>2, <1>7, NoneKept DEF RevisionInv, RequestType
<1>9. TableInv' /\ TimeInv' /\ ServerInv'
  BY <1>2 DEF RevisionInv, TableInv, TimeInv, ServerInv, Entries
<1>10. UrlInv'
  BY <1>2, <1>3, <1>7, <1>8, NoneKept DEF RevisionInv, UrlInv
<1>11. RequestType'
  BY <1>3, <1>7, <1>8, NoneKept DEF RevisionInv, RequestType
<1>12. KeptIn("chan", d) /\ KeptIn("src", d) /\ DatedIn(d)
  BY <1>3, <1>7 DEF KeptIn, KeptBy, DatedIn, DatedBy
<1>13. KeptInv'
  <2> SUFFICES ASSUME NEW w \in TVs
               PROVE  /\ copy'[w] # NoCopy => KeptIn("chan", copy'[w]) /\ KeptIn("src", copy'[w])
                      /\ rq'[w].step \in {"src", "body", "rest"} => KeptIn("chan", rq'[w].new)
                      /\ rq'[w].step \in {"body", "rest"} => KeptIn("src", rq'[w].new)
    BY <1>2 DEF KeptInv, KeptIn
  <2>1. CASE w = v
    BY <1>8, <1>12, <2>1, NoneKept
  <2>2. CASE w # v
    BY <1>8, <2>2 DEF RevisionInv, KeptInv
  <2> QED
    BY <2>1, <2>2
<1>14. DateInv'
  <2> SUFFICES ASSUME NEW w \in TVs
               PROVE  /\ copy'[w] # NoCopy => DatedIn(copy'[w])
                      /\ rq'[w].step \in {"body", "rest"} => DatedIn(rq'[w].new)
    BY <1>2 DEF DateInv, DatedIn
  <2>1. CASE w = v
    BY <1>8, <1>12, <2>1, NoneKept
  <2>2. CASE w # v
    BY <1>8, <2>2 DEF RevisionInv, DateInv
  <2> QED
    BY <2>1, <2>2
<1>15. MatchInv'
  BY <1>8, NoneKept DEF RevisionInv, MatchInv, AsWhenTagged
<1> QED
  BY <1>9, <1>10, <1>11, <1>13, <1>14, <1>15 DEF RevisionInv

-----------------------------------------------------------------------------
(* The invariant *)

LEMMA RevisionInitially == Init => RevisionInv
<1> SUFFICES ASSUME Init PROVE RevisionInv
  OBVIOUS
<1> DEFINE row(r) == IF r <= 2 THEN [val |-> 1, stamp |-> 0, linked |-> TRUE] ELSE NoRow
<1>1. /\ now = TicksPerSecond /\ nextRow = 3 /\ txn = [x \in Txns |-> 0] /\ urlSet \in Nat /\ urlLoaded = 0
      /\ boot = 1 /\ observed = NoEntry /\ others = 0 /\ edits = 0
      /\ tab = [t \in Tables |-> [r \in RowsOf(t) |-> row(r)]]
  BY DEF Init, NoTxn
<1>2. \A v \in TVs : copy[v] = NoCopy /\ rq[v] = NoRequest
  BY DEF Init
<1>3. \A r \in Nat : row(r) \in Row /\ row(r).stamp = 0 /\ row(r).val <= 1 /\ (row(r).val # 0 => r < 3)
  BY DEF Row, NoRow
<1>4. \A t \in Tables : tab[t] = [r \in RowsOf(t) |-> row(r)] /\ RowsOf(t) \in SUBSET Nat
  BY <1>1, RowsFinite
<1>5. TableInv
  <2>1. tab = [t \in Tables |-> tab[t]]
    BY <1>1
  <2>2. ASSUME NEW t \in Tables
        PROVE  /\ tab[t] \in [RowsOf(t) -> Row]
               /\ \A r \in RowsOf(t) : tab[t][r].stamp <= now /\ tab[t][r].val <= edits + 1
    <3> HIDE DEF row
    <3>1. now >= 0 /\ edits + 1 = 1
      BY <1>1, RevisionAssumptions
    <3>2. \A r \in RowsOf(t) : tab[t][r] = row(r) /\ r \in Nat
      BY <1>4
    <3> QED
      BY <1>3, <1>4, <3>1, <3>2
  <2>3. tab["src"][1].val # 0 /\ tab["src"][1].linked
    BY <1>4 DEF Tables, RowsOf
  <2>4. nextRow \in 3..MaxRow + 1
    BY <1>1, RevisionAssumptions
  <2>5. \A r \in Here(RowsOf("chan"), tab["chan"]) : r < nextRow
    <3> HIDE DEF row
    <3>1. "chan" \in Tables
      BY DEF Tables
    <3>2. \A r \in RowsOf("chan") : tab["chan"][r] = row(r) /\ r \in Nat
      BY <1>4, <3>1
    <3> QED
      BY <1>1, <1>3, <3>2 DEF Here
  <2> QED
    BY <2>1, <2>2, <2>3, <2>4, <2>5 DEF TableInv
<1>6. TimeInv
  BY <1>1, RevisionAssumptions DEF TimeInv
<1>7. ServerInv
  BY <1>1, RevisionAssumptions DEF ServerInv, Entries
<1>8. UrlInv
  BY <1>1 DEF UrlInv
<1>9. RequestType
  <2>1. copy = [v \in TVs |-> NoCopy] /\ rq = [v \in TVs |-> NoRequest]
    BY DEF Init
  <2> QED
    BY <2>1, NoneKept DEF RequestType
<1>10. KeptInv /\ DateInv /\ MatchInv
  BY <1>2, NoneKept DEF KeptInv, DateInv, MatchInv
<1> QED
  BY <1>5, <1>6, <1>7, <1>8, <1>9, <1>10 DEF RevisionInv

LEMMA RevisionNext == RevisionInv /\ [Next]_vars => RevisionInv'
<1> SUFFICES ASSUME RevisionInv, [Next]_vars PROVE RevisionInv'
  OBVIOUS
<1>1. CASE Tick
  BY <1>1, TickInv
<1>2. CASE EditBaseUrl
  BY <1>2, BaseUrlInv
<1>3. CASE Restart
  BY <1>3, RestartInv
<1>4. CASE OtherUser
  BY <1>4, OtherUserInv
<1>5. ASSUME NEW x \in Txns, BeginTxn(x) PROVE RevisionInv'
  BY <1>5, BeginInv
<1>6. ASSUME NEW x \in Txns, Commit(x) PROVE RevisionInv'
  <2>1. ASSUME NEW t \in Tables, NEW r \in RowsOf(t), CommitEdit(x, t, r) PROVE RevisionInv'
    BY <2>1, EditInv
  <2> QED
    BY <1>6, <2>1, OtherCommitsInv DEF Commit
<1>7. ASSUME NEW v \in TVs, Serve(v) PROVE RevisionInv'
  BY <1>7, ReadPartInv, ValidateInv, NotModifiedInv, ReadChannelsInv, AnswerInv DEF Serve
<1>8. ASSUME NEW v \in TVs, NEW how \in Ways, Poll(v, how) PROVE RevisionInv'
  BY <1>8, PollInv
<1>9. CASE UNCHANGED vars
  <2>1. /\ now' = now /\ tab' = tab /\ nextRow' = nextRow /\ txn' = txn /\ urlSet' = urlSet /\ urlLoaded' = urlLoaded
        /\ boot' = boot /\ edits' = edits /\ observed' = observed /\ others' = others /\ copy' = copy /\ rq' = rq
    BY <1>9 DEF vars, data, server
  <2>2. TableInv' /\ TimeInv' /\ ServerInv' /\ UrlInv' /\ RequestType'
    BY <2>1 DEF RevisionInv, TableInv, TimeInv, ServerInv, Entries, UrlInv, RequestType
  <2>3. KeptInv' /\ DateInv' /\ MatchInv'
    BY <2>1 DEF RevisionInv, KeptInv, KeptIn, DateInv, DatedIn, MatchInv, AsWhenTagged
  <2> QED
    BY <2>2, <2>3 DEF RevisionInv
<1> QED
  BY <1>1, <1>2, <1>3, <1>4, <1>5, <1>6, <1>7, <1>8, <1>9 DEF Next, Ways

LEMMA RevisionAlways == Spec => []RevisionInv
<1>1. Init => RevisionInv
  BY RevisionInitially
<1>2. RevisionInv /\ [Next]_vars => RevisionInv'
  BY RevisionNext
<1> QED
  BY <1>1, <1>2, PTL DEF Spec

(* Type correctness: the clock stays within its bounds whatever restarts and
   commits come, the date of the observed revision never runs behind
   _PROCESS_START, and the table of observed revisions never outgrows
   _MAX_OBSERVED. *)
THEOREM RevisionTypes == Spec => []TypeOK
<1>1. RevisionInv => TypeOK
  <2> SUFFICES ASSUME RevisionInv PROVE TypeOK
    OBVIOUS
  <2>1. now \in 0..MaxNow + TicksPerSecond * MaxEdits
    <3>1. PICK k \in Nat : MaxEdits = edits + k
      <4>1. edits \in Nat /\ MaxEdits \in Nat /\ edits <= MaxEdits
        BY RevisionAssumptions DEF RevisionInv, TimeInv
      <4>2. MaxEdits - edits \in Nat /\ MaxEdits = edits + (MaxEdits - edits)
        BY <4>1
      <4> QED
        BY <4>2
    <3>2. edits \in Nat /\ now \in Nat /\ now <= MaxNow + TicksPerSecond * edits /\ TicksPerSecond \in Nat /\ MaxNow \in Nat
      BY RevisionAssumptions DEF RevisionInv, TimeInv
    <3>3. TicksPerSecond * (edits + k) = TicksPerSecond * edits + TicksPerSecond * k /\ TicksPerSecond * k \in Nat
          /\ TicksPerSecond * edits \in Nat
      BY <3>1, <3>2
    <3>4. now <= MaxNow + TicksPerSecond * (edits + k) /\ MaxNow + TicksPerSecond * (edits + k) \in Nat
      BY <3>2, <3>3
    <3> QED
      BY <3>1, <3>2, <3>4
  <2>2. nextRow \in 1..MaxRow + 1
    BY DEF RevisionInv, TableInv
  <2>3. ASSUME NEW t \in Tables, NEW r \in RowsOf(t)
        PROVE  tab[t][r].val \in 0..MaxEdits + 1 /\ tab[t][r].stamp \in 0..now
    <3>1. tab[t][r] \in Row /\ tab[t][r].stamp <= now /\ tab[t][r].val <= edits + 1
      BY DEF RevisionInv, TableInv
    <3>2. edits \in 0..MaxEdits /\ MaxEdits \in Nat /\ now \in Nat
      BY RevisionAssumptions DEF RevisionInv, TimeInv
    <3> QED
      BY <3>1, <3>2 DEF Row
  <2>4. txn \in [Txns -> 0..now]
    BY DEF RevisionInv, TimeInv
  <2>5. /\ observed = NoEntry \/ observed.lm >= boot
        /\ others \in 0..MaxObserved /\ Entries <= MaxObserved
    <3>1. /\ observed = NoEntry \/ observed.lm >= boot
          /\ others \in Nat /\ Entries <= MaxObserved /\ MaxObserved \in Nat
      BY RevisionAssumptions DEF RevisionInv, ServerInv
    <3>2. others <= Entries /\ Entries \in Nat
      BY <3>1 DEF Entries
    <3> QED
      BY <3>1, <3>2
  <2>6. \A v \in TVs : /\ rq[v].step \in {"idle", "chan", "src", "same", "body", "rest"}
                       /\ copy[v] # NoCopy => copy[v].lm >= 1
    BY DEF RevisionInv, RequestType, Asked, Steps
  <2> QED
    BY <2>1, <2>2, <2>3, <2>4, <2>5, <2>6 DEF TypeOK
<1> QED
  BY <1>1, RevisionAlways, PTL

(* A 304 for an ETag is exact: what the list was made from is still there,
   row by row, although the revision is only counts, sums and maxima, and is
   read in two statements between which transactions commit - but for a
   commit that was overtaken. *)
THEOREM TagIsExactAlways == Spec => []TagMatchIsExact
<1>1. RevisionInv => TagMatchIsExact
  BY DEF RevisionInv, MatchInv, TagMatchIsExact
<1> QED
  BY <1>1, RevisionAlways, PTL

(* Nor is a 304 for a date ever wrong, over several changes in a second and
   restarts, as long as the date was not lost with the table of observed
   revisions. *)
THEOREM DateIsSafeAlways == Spec => []DateMatchIsSafe
<1>1. RevisionInv => DateMatchIsSafe
  BY DEF RevisionInv, MatchInv, DateMatchIsSafe
<1> QED
  BY <1>1, RevisionAlways, PTL
=============================================================================
