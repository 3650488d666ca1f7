------------------------ MODULE PlaylistOrder_proofs ------------------------
(***************************************************************************)
(* The proofs of the properties of PlaylistOrder: for any number of        *)
(* channels, categories and requests under way, any names, provider's      *)
(* order and size of the browser's page.                                   *)
(***************************************************************************)
EXTENDS PlaylistOrder, SetSums_proofs, SequenceTheorems

-----------------------------------------------------------------------------
(* Positions in a finite linear order *)

Linear(R, S) ==
    /\ \A i \in S : <<i, i>> \notin R
    /\ \A i, j \in S : i # j => <<i, j>> \in R \/ <<j, i>> \in R
    /\ \A i, j, k \in S : <<i, j>> \in R /\ <<j, k>> \in R => <<i, k>> \in R

Ahead(R, S, i) == {j \in S : <<j, i>> \in R}

\* Each position is that of one element, and positions follow the order.
LEMMA Ranks ==
    ASSUME NEW S, IsFiniteSet(S), NEW R, Linear(R, S)
    PROVE  /\ \A i \in S : Cardinality(Ahead(R, S, i)) \in 0..Cardinality(S) - 1
           /\ \A i, j \in S : <<i, j>> \in R <=> Cardinality(Ahead(R, S, i)) < Cardinality(Ahead(R, S, j))
           /\ \A i, j \in S : Cardinality(Ahead(R, S, i)) = Cardinality(Ahead(R, S, j)) => i = j
           /\ \A k \in 0..Cardinality(S) - 1 : \E i \in S : Cardinality(Ahead(R, S, i)) = k
<1>1. Cardinality(S) \in Nat
  BY FS_CardinalityType
<1>2. ASSUME NEW i \in S
      PROVE  IsFiniteSet(Ahead(R, S, i)) /\ Cardinality(Ahead(R, S, i)) \in 0..Cardinality(S) - 1
  <2>1. PICK A \in SUBSET S : A = Ahead(R, S, i)
    BY DEF Ahead
  <2>2. i \notin A
    BY <2>1 DEF Ahead, Linear
  <2>3. /\ IsFiniteSet(A) /\ Cardinality(A) <= Cardinality(S)
        /\ Cardinality(S) = Cardinality(A) => S = A
    BY FS_Subset
  <2>4. Cardinality(A) \in Nat
    BY <2>3, FS_CardinalityType
  <2>5. Cardinality(A) # Cardinality(S)
    BY <2>2, <2>3
  <2> QED
    BY <1>1, <2>1, <2>3, <2>4, <2>5
<1>3. ASSUME NEW i \in S, NEW j \in S, <<i, j>> \in R
      PROVE  Cardinality(Ahead(R, S, i)) < Cardinality(Ahead(R, S, j))
  <2>1. PICK A : A = Ahead(R, S, i)
    OBVIOUS
  <2>2. PICK B : B = Ahead(R, S, j)
    OBVIOUS
  <2>3. A \in SUBSET B /\ i \in B /\ i \notin A
    BY <1>3, <2>1, <2>2 DEF Ahead, Linear
  <2>4. IsFiniteSet(B) /\ Cardinality(A) \in Nat /\ Cardinality(B) \in Nat
    BY <1>1, <1>2, <2>1, <2>2
  <2>5. Cardinality(A) <= Cardinality(B) /\ (Cardinality(B) = Cardinality(A) => B = A)
    BY <2>3, <2>4, FS_Subset
  <2> QED
    BY <2>1, <2>2, <2>3, <2>4, <2>5
<1>4. ASSUME NEW i \in S, NEW j \in S, Cardinality(Ahead(R, S, i)) = Cardinality(Ahead(R, S, j)) PROVE i = j
  <2>1. Cardinality(Ahead(R, S, i)) \in Int /\ Cardinality(Ahead(R, S, j)) \in Int
    BY <1>1, <1>2
  <2>2. <<i, j>> \notin R /\ <<j, i>> \notin R
    BY <1>3, <1>4, <2>1
  <2> QED
    BY <2>2 DEF Linear
<1>5. ASSUME NEW i \in S, NEW j \in S
      PROVE  <<i, j>> \in R <=> Cardinality(Ahead(R, S, i)) < Cardinality(Ahead(R, S, j))
  <2>1. Cardinality(Ahead(R, S, i)) \in Int /\ Cardinality(Ahead(R, S, j)) \in Int
    BY <1>1, <1>2
  <2>2. i = j => ~(Cardinality(Ahead(R, S, i)) < Cardinality(Ahead(R, S, j))) /\ <<i, j>> \notin R
    BY <2>1 DEF Linear
  <2>3. <<j, i>> \in R => ~(Cardinality(Ahead(R, S, i)) < Cardinality(Ahead(R, S, j)))
    BY <1>3, <2>1
  <2> QED
    BY <1>3, <2>2, <2>3 DEF Linear
<1>6. PICK T : T = 0..Cardinality(S) - 1
  OBVIOUS
<1>7. IsFiniteSet(T) /\ Cardinality(T) = Cardinality(S)
  <2>1. IsFiniteSet(0..Cardinality(S) - 1)
        /\ Cardinality(0..Cardinality(S) - 1) = IF 0 > Cardinality(S) - 1 THEN 0 ELSE Cardinality(S) - 1 - 0 + 1
    BY SMTT(20), <1>1, FS_Interval
  <2> QED
    BY <1>1, <1>6, <2>1
<1>8. PICK f : f = [i \in S |-> Cardinality(Ahead(R, S, i))]
  OBVIOUS
<1>9. f \in Injection(S, T)
  <2>1. f \in [S -> T]
    BY <1>2, <1>6, <1>8
  <2>2. \A i, j \in S : f[i] = f[j] => i = j
    BY <1>4, <1>8
  <2> QED
    BY <2>1, <2>2 DEF Injection, IsInjective
<1>10. f \in Surjection(S, T)
  BY <1>7, <1>9, FS_Injection
<1>11. ASSUME NEW k \in 0..Cardinality(S) - 1 PROVE \E i \in S : Cardinality(Ahead(R, S, i)) = k
  BY <1>6, <1>8, <1>10 DEF Surjection
<1> QED
  BY <1>2, <1>4, <1>5, <1>11

AllTaken(R, S) == \A k \in 0..Cardinality(S) - 1 : \E i \in S : Cardinality(Ahead(R, S, i)) = k

LEMMA RanksTaken == ASSUME NEW S, IsFiniteSet(S), NEW R, Linear(R, S) PROVE AllTaken(R, S)
  BY Ranks DEF AllTaken

\* The position of one of S by sort_order and id, and what is at a position.
RankIn(o, S, i) == Cardinality({j \in S : BeforeIn(o, j, i)})

AtIn(o, S, k) == CHOOSE i \in S : RankIn(o, S, i) = k

DisplayOf(o, S) == [k \in 1..Cardinality(S) |-> AtIn(o, S, k - 1)]

LEMMA IdNumbers == \A i \in Ids : i \in Nat
  BY DEF Ids

LEMMA IdsFinite == Ids \in SUBSET Nat /\ IsFiniteSet(Ids) /\ \A S \in SUBSET Ids : IsFiniteSet(S) /\ Cardinality(S) \in Nat
<1>1. IsFiniteSet(Ids) /\ Ids \in SUBSET Nat
  BY OrderAssumptions, FS_Interval DEF Ids
<1>2. ASSUME NEW S \in SUBSET Ids PROVE IsFiniteSet(S) /\ Cardinality(S) \in Nat
  <2>1. IsFiniteSet(S)
    BY <1>1, FS_Subset
  <2> QED
    BY <2>1, FS_CardinalityType
<1> QED
  BY <1>1, <1>2

LEMMA OrderRanks ==
    ASSUME NEW o \in [Ids -> Nat], NEW S \in SUBSET Ids
    PROVE  /\ \A i \in S : RankIn(o, S, i) \in 0..Cardinality(S) - 1
           /\ \A i, j \in S : BeforeIn(o, i, j) <=> RankIn(o, S, i) < RankIn(o, S, j)
           /\ \A i, j \in S : RankIn(o, S, i) = RankIn(o, S, j) => i = j
           /\ \A k \in 0..Cardinality(S) - 1 : AtIn(o, S, k) \in S /\ RankIn(o, S, AtIn(o, S, k)) = k
<1>1. PICK R : R = {x \in S \X S : BeforeIn(o, x[1], x[2])}
  OBVIOUS
<1>2. \A i, j \in S : <<i, j>> \in R <=> BeforeIn(o, i, j)
  BY <1>1
<1>3. Linear(R, S)
  <2>1. \A i \in S : i \in Nat /\ o[i] \in Nat
    BY IdsFinite
  <2>2. \A i \in S : ~BeforeIn(o, i, i)
    BY <2>1 DEF BeforeIn
  <2>3. \A i, j \in S : i # j => BeforeIn(o, i, j) \/ BeforeIn(o, j, i)
    BY <2>1 DEF BeforeIn
  <2>4. \A i, j, k \in S : BeforeIn(o, i, j) /\ BeforeIn(o, j, k) => BeforeIn(o, i, k)
    BY <2>1 DEF BeforeIn
  <2> QED
    BY <1>2, <2>2, <2>3, <2>4 DEF Linear
<1>4. ASSUME NEW i \in S PROVE RankIn(o, S, i) = Cardinality(Ahead(R, S, i))
  <2>1. Ahead(R, S, i) = {j \in S : BeforeIn(o, j, i)}
    BY <1>2 DEF Ahead
  <2> QED
    BY <2>1 DEF RankIn
<1>5. IsFiniteSet(S)
  BY IdsFinite
<1>6. \A i \in S : RankIn(o, S, i) \in 0..Cardinality(S) - 1
  BY <1>3, <1>4, <1>5, Ranks
<1>7. ASSUME NEW i \in S, NEW j \in S PROVE BeforeIn(o, i, j) <=> RankIn(o, S, i) < RankIn(o, S, j)
  <2>1. <<i, j>> \in R <=> Cardinality(Ahead(R, S, i)) < Cardinality(Ahead(R, S, j))
    BY <1>3, <1>5, Ranks
  <2> QED
    BY <1>2, <1>4, <2>1
<1>8. \A i, j \in S : RankIn(o, S, i) = RankIn(o, S, j) => i = j
  BY <1>3, <1>4, <1>5, Ranks
<1>9. ASSUME NEW k \in 0..Cardinality(S) - 1 PROVE AtIn(o, S, k) \in S /\ RankIn(o, S, AtIn(o, S, k)) = k
  <2>1. \E i \in S : RankIn(o, S, i) = k
    BY <1>3, <1>4, <1>5, Ranks
  <2> QED
    BY <2>1 DEF AtIn
<1> QED
  BY <1>6, <1>7, <1>8, <1>9

\* The same by name, and of plain numbers.
NameRank(S, i) == Cardinality({j \in S : ByName(j, i)})

LEMMA NameRanks ==
    ASSUME NEW S \in SUBSET Ids
    PROVE  /\ \A i \in S : NameRank(S, i) \in 0..Cardinality(S) - 1
           /\ \A i, j \in S : ByName(i, j) <=> NameRank(S, i) < NameRank(S, j)
           /\ \A i, j \in S : NameRank(S, i) = NameRank(S, j) => i = j
           /\ \A k \in 0..Cardinality(S) - 1 : \E i \in S : NameRank(S, i) = k
<1>1. PICK R : R = {x \in S \X S : ByName(x[1], x[2])}
  OBVIOUS
<1>2. \A i, j \in S : <<i, j>> \in R <=> ByName(i, j)
  BY <1>1
<1>3. Linear(R, S)
  <2>1. \A i \in S : i \in Nat /\ NameKey[i] \in Nat
    BY IdsFinite, OrderAssumptions DEF Ids
  <2>2. \A i \in S : ~ByName(i, i)
    BY <2>1 DEF ByName
  <2>3. \A i, j \in S : i # j => ByName(i, j) \/ ByName(j, i)
    BY <2>1 DEF ByName
  <2>4. \A i, j, k \in S : ByName(i, j) /\ ByName(j, k) => ByName(i, k)
    BY <2>1 DEF ByName
  <2> QED
    BY <1>2, <2>2, <2>3, <2>4 DEF Linear
<1>4. ASSUME NEW i \in S PROVE NameRank(S, i) = Cardinality(Ahead(R, S, i))
  <2>1. Ahead(R, S, i) = {j \in S : ByName(j, i)}
    BY <1>2 DEF Ahead
  <2> QED
    BY <2>1 DEF NameRank
<1>5. IsFiniteSet(S)
  BY IdsFinite
<1>6. \A i \in S : NameRank(S, i) \in 0..Cardinality(S) - 1
  BY <1>3, <1>4, <1>5, Ranks
<1>7. ASSUME NEW i \in S, NEW j \in S PROVE ByName(i, j) <=> NameRank(S, i) < NameRank(S, j)
  <2>1. <<i, j>> \in R <=> Cardinality(Ahead(R, S, i)) < Cardinality(Ahead(R, S, j))
    BY <1>3, <1>5, Ranks
  <2> QED
    BY <1>2, <1>4, <2>1
<1>8. \A i, j \in S : NameRank(S, i) = NameRank(S, j) => i = j
  BY <1>3, <1>4, <1>5, Ranks
<1>9. \A k \in 0..Cardinality(S) - 1 : \E i \in S : NameRank(S, i) = k
  BY <1>3, <1>4, <1>5, Ranks
<1> QED
  BY <1>6, <1>7, <1>8, <1>9

\* The k-th of a set of numbers, from 0.
NumberAt(S, k) == CHOOSE i \in S : Cardinality({j \in S : j < i}) = k

LEMMA NumberRanks ==
    ASSUME NEW S \in SUBSET Nat, IsFiniteSet(S)
    PROVE  /\ \A k \in 0..Cardinality(S) - 1 :
                NumberAt(S, k) \in S /\ Cardinality({j \in S : j < NumberAt(S, k)}) = k
           /\ \A k, l \in 0..Cardinality(S) - 1 : k < l => NumberAt(S, k) < NumberAt(S, l)
           /\ \A i \in S : \E k \in 0..Cardinality(S) - 1 : i = NumberAt(S, k)
<1>1. PICK R : R = {x \in S \X S : x[1] < x[2]}
  OBVIOUS
<1>2. \A i, j \in S : <<i, j>> \in R <=> i < j
  BY <1>1
<1>3. Linear(R, S)
  <2>1. \A i \in S : i \in Nat
    OBVIOUS
  <2> QED
    BY <1>2, <2>1 DEF Linear
<1>4. ASSUME NEW i \in S PROVE Cardinality({j \in S : j < i}) = Cardinality(Ahead(R, S, i))
  <2>1. Ahead(R, S, i) = {j \in S : j < i}
    BY <1>2 DEF Ahead
  <2> QED
    BY <2>1
<1>5. ASSUME NEW k \in 0..Cardinality(S) - 1
      PROVE  NumberAt(S, k) \in S /\ Cardinality({j \in S : j < NumberAt(S, k)}) = k
  <2>1. \E i \in S : Cardinality({j \in S : j < i}) = k
    <3>0. AllTaken(R, S)
      BY <1>3, RanksTaken
    <3>1. PICK i \in S : Cardinality(Ahead(R, S, i)) = k
      BY <3>0 DEF AllTaken
    <3> QED
      BY <1>4, <3>1
  <2> QED
    BY <2>1 DEF NumberAt
<1>6. ASSUME NEW k \in 0..Cardinality(S) - 1, NEW l \in 0..Cardinality(S) - 1, k < l
      PROVE  NumberAt(S, k) < NumberAt(S, l)
  <2>1. PICK i \in S, j \in S : i = NumberAt(S, k) /\ j = NumberAt(S, l)
    BY <1>5
  <2>2. Cardinality(Ahead(R, S, i)) = k /\ Cardinality(Ahead(R, S, j)) = l
    BY <1>4, <1>5, <2>1
  <2>3. <<i, j>> \in R <=> Cardinality(Ahead(R, S, i)) < Cardinality(Ahead(R, S, j))
    BY <1>3, Ranks
  <2> QED
    BY <1>2, <1>6, <2>1, <2>2, <2>3
<1>7. ASSUME NEW i \in S PROVE \E k \in 0..Cardinality(S) - 1 : i = NumberAt(S, k)
  <2>1. PICK k \in 0..Cardinality(S) - 1 : k = Cardinality(Ahead(R, S, i))
    BY <1>3, Ranks
  <2>2. PICK j \in S : j = NumberAt(S, k)
    BY <1>5
  <2>3. Cardinality(Ahead(R, S, j)) = k
    BY <1>4, <1>5, <2>2
  <2>4. i = j
    BY <1>3, <2>1, <2>3, Ranks
  <2> QED
    BY <2>2, <2>4
<1> QED
  BY <1>5, <1>6, <1>7

LEMMA DisplayIs == ASSUME NEW c PROVE Display(c) = DisplayOf(order, Members(c))
  BY DEF Display, DisplayOf, At, AtIn, Position, RankIn, Before

LEMMA KeepIs ==
    ASSUME NEW s, NEW T
    PROVE  Keep(s, T) = [n \in 1..Cardinality({k \in DOMAIN s : s[k] \in T}) |->
                           s[NumberAt({k \in DOMAIN s : s[k] \in T}, n - 1)]]
  BY DEF Keep, At, NumberAt, Position

\* Display is a list of a category's channels, each once, as they are shown.
LEMMA Displayed ==
    ASSUME NEW o \in [Ids -> Nat], NEW S \in SUBSET Ids
    PROVE  /\ DisplayOf(o, S) \in [1..Cardinality(S) -> S]
           /\ \A k \in 1..Cardinality(S) : RankIn(o, S, DisplayOf(o, S)[k]) = k - 1
           /\ \A j, k \in 1..Cardinality(S) :
                j < k <=> BeforeIn(o, DisplayOf(o, S)[j], DisplayOf(o, S)[k])
           /\ \A i \in S : \E k \in 1..Cardinality(S) : i = DisplayOf(o, S)[k]
<1>1. Cardinality(S) \in Nat
  BY IdsFinite
<1>2. ASSUME NEW k \in 1..Cardinality(S)
      PROVE  DisplayOf(o, S)[k] \in S /\ RankIn(o, S, DisplayOf(o, S)[k]) = k - 1
  <2>1. k - 1 \in 0..Cardinality(S) - 1
    BY <1>1
  <2>2. DisplayOf(o, S)[k] = AtIn(o, S, k - 1)
    BY DEF DisplayOf
  <2> QED
    BY <2>1, <2>2, OrderRanks
<1>3. DisplayOf(o, S) \in [1..Cardinality(S) -> S]
  BY <1>2 DEF DisplayOf
<1>4. ASSUME NEW j \in 1..Cardinality(S), NEW k \in 1..Cardinality(S)
      PROVE  j < k <=> BeforeIn(o, DisplayOf(o, S)[j], DisplayOf(o, S)[k])
  <2>1. PICK x \in S, y \in S : x = DisplayOf(o, S)[j] /\ y = DisplayOf(o, S)[k]
    BY <1>2
  <2>2. RankIn(o, S, x) = j - 1 /\ RankIn(o, S, y) = k - 1
    BY <1>2, <2>1
  <2>3. BeforeIn(o, x, y) <=> RankIn(o, S, x) < RankIn(o, S, y)
    BY OrderRanks
  <2> QED
    BY <1>1, <2>1, <2>2, <2>3
<1>5. ASSUME NEW i \in S PROVE \E k \in 1..Cardinality(S) : i = DisplayOf(o, S)[k]
  <2>1. PICK k \in 0..Cardinality(S) - 1 : k = RankIn(o, S, i)
    BY OrderRanks
  <2>2. k + 1 \in 1..Cardinality(S) /\ k + 1 - 1 = k
    BY <1>1
  <2>3. PICK j \in S : j = DisplayOf(o, S)[k + 1]
    BY <1>2, <2>2
  <2>4. RankIn(o, S, j) = k
    BY <1>2, <2>2, <2>3
  <2>5. i = j
    BY <2>1, <2>4, OrderRanks
  <2> QED
    BY <2>2, <2>3, <2>5
<1> QED
  BY <1>2, <1>3, <1>4, <1>5

-----------------------------------------------------------------------------
(* The inductive invariant *)

Requests == [op : Inserting \union {"idle", "merge_categories", "sort"}, rows : SUBSET Ids,
             to : [Ids -> Cats \union {NoCat}], order : [Ids -> Nat], make : SUBSET Own,
             place : [Cats -> Nat], drop : SUBSET Cats,
             sawCat : [Ids -> Cats \union {NoCat}], sawOrder : [Ids -> Nat],
             sawCats : SUBSET Cats, sawPlace : [Cats -> Nat]]

\* Every channel is in a category that is there, and its id has been given out.
RowsOK(ct, od, cs, pl, n) ==
    /\ ct \in [Ids -> Cats \union {NoCat}] /\ od \in [Ids -> Nat]
    /\ cs \in SUBSET Cats /\ IsFiniteSet(cs) /\ pl \in [Cats -> Nat]
    /\ n \in 1..MaxId + 1
    /\ \A i \in Ids : ct[i] # NoCat => ct[i] \in cs /\ i < n

\* The targets of an insert stay, and its numbers are higher than those it saw.
InsertOK(x, cs) ==
    /\ \A i \in x.rows : x.to[i] \in Own /\ x.to[i] \in cs \union x.make
    /\ x.make \intersect x.sawCats = {}
    /\ \A n \in x.rows, i \in Ids : x.sawCat[i] = x.to[n] =>
         x.sawOrder[i] < x.order[n] \/ (x.sawOrder[i] = 0 /\ x.order[n] = 0 /\ i < n)
    /\ x.op = "per_category" =>
         /\ \A c, d \in x.make : Rank[c] < Rank[d] => x.place[c] < x.place[d]
         /\ \A c \in x.make, e \in x.sawCats \ Foreign :
              OnlyOne(e, x.sawCats) => x.sawPlace[e] < x.place[c]

\* A merge has all it saw of the categories it drops, and keeps its target.
MergeOK(x) ==
    /\ x.rows = {i \in Ids : x.sawCat[i] \in x.drop}
    /\ \E into \in Own : into \notin x.drop /\ \A i \in Ids : x.to[i] = into

\* The channels of a sort that were in one category when it looked.
Mates(x, i) == {j \in x.rows : x.sawCat[j] = x.sawCat[i]}

SortOK(x) ==
    \A i \in x.rows :
      /\ x.sawCat[i] \in Cats
      /\ x.order[i] = x.sawOrder[AtIn(x.sawOrder, Mates(x, i), NameRank(Mates(x, i), i))]

RequestOK(x, cs, n) ==
    /\ x \in Requests /\ IsFiniteSet(x.make)
    /\ \A i \in x.rows : i < n
    /\ x.op \in Inserting => InsertOK(x, cs)
    /\ x.op = "merge_categories" => MergeOK(x)
    /\ x.op = "sort" => SortOK(x)

PageOK(p, n) ==
    /\ p \in [cat : Own \union {NoCat}, rows : Seq(Ids)]
    /\ \A k \in 1..Len(p.rows) : p.rows[k] < n
    /\ p # NoPage => p.cat \in Own

RequestsOK(rq, cs, n) == rq \in [Reqs -> Requests] /\ \A r \in Reqs : RequestOK(rq[r], cs, n)

OInv ==
    /\ RowsOK(cat, order, cats, place, nextId)
    /\ RequestsOK(req, cats, nextId)
    /\ PageOK(page, nextId)
    /\ edits \in 0..MaxEdits

LEMMA RequestFields ==
    ASSUME NEW x \in Requests
    PROVE  /\ x.op \in Inserting \union {"idle", "merge_categories", "sort"} /\ x.rows \in SUBSET Ids
           /\ x.to \in [Ids -> Cats \union {NoCat}] /\ x.order \in [Ids -> Nat] /\ x.make \in SUBSET Own
           /\ x.place \in [Cats -> Nat] /\ x.drop \in SUBSET Cats
           /\ x.sawCat \in [Ids -> Cats \union {NoCat}] /\ x.sawOrder \in [Ids -> Nat]
           /\ x.sawCats \in SUBSET Cats /\ x.sawPlace \in [Cats -> Nat]
  BY DEF Requests

LEMMA OrderTypes == OInv => TypeOK
<1> SUFFICES ASSUME OInv PROVE TypeOK
  OBVIOUS
<1>1. MaxId \in Nat
  BY OrderAssumptions
<1>2. /\ cat \in [Ids -> Cats \union {NoCat}] /\ order \in [Ids -> Nat]
      /\ cats \subseteq Cats /\ place \in [Cats -> Nat]
      /\ \A i \in Ids : cat[i] # NoCat => cat[i] \in cats /\ i < nextId
      /\ nextId \in 1..MaxId + 1 /\ edits \in 0..MaxEdits
  BY DEF OInv, RowsOK
<1>3. ASSUME NEW r \in Reqs
      PROVE  /\ req[r].op \in Inserting \union {"idle", "merge_categories", "sort"}
             /\ req[r].rows \subseteq 1..nextId - 1
             /\ req[r].order \in [Ids -> Nat]
  <2>1. req[r] \in Requests /\ \A i \in req[r].rows : i < nextId
    BY DEF OInv, RequestsOK, RequestOK
  <2>2. req[r].rows \in SUBSET (1..MaxId)
    BY <2>1, RequestFields DEF Ids
  <2>3. req[r].rows \subseteq 1..nextId - 1
    BY <1>1, <1>2, <2>1, <2>2
  <2> QED
    BY <2>1, <2>3, RequestFields
<1>4. page.cat \in Own \union {NoCat} /\ page.rows \in Seq(Ids) /\ \A k \in 1..Len(page.rows) : page.rows[k] < nextId
  BY DEF OInv, PageOK
<1>5. ToSet(page.rows) \subseteq 1..nextId - 1
  <2>1. ASSUME NEW k \in 1..Len(page.rows) PROVE page.rows[k] \in 1..nextId - 1
    <3>1. page.rows[k] \in Ids /\ page.rows[k] < nextId
      BY <1>4
    <3> QED
      BY <1>1, <1>2, <3>1 DEF Ids
  <2>2. DOMAIN page.rows = 1..Len(page.rows)
    BY <1>4
  <2> QED
    BY <2>1, <2>2 DEF ToSet
<1> QED
  BY <1>2, <1>3, <1>4, <1>5 DEF TypeOK

\* A request under way stays what it is while ids are given out and no category
\* it inserts into goes.
LEMMA RequestKeeps ==
    ASSUME NEW x, NEW cs, NEW n \in Int, NEW ds, NEW m \in Int, RequestOK(x, cs, n), n <= m,
           x.op \in Inserting => \A i \in x.rows : x.to[i] \in cs => x.to[i] \in ds
    PROVE  RequestOK(x, ds, m)
<1>1. \A i \in x.rows : i < m
  <2>1. x.rows \in SUBSET Ids /\ \A i \in x.rows : i < n
    BY RequestFields DEF RequestOK
  <2>2. \A i \in x.rows : i \in Int
    BY <2>1, IdNumbers
  <2> QED
    BY <2>1, <2>2
<1>2. x.op \in Inserting => InsertOK(x, ds)
  BY DEF RequestOK, InsertOK
<1> QED
  BY <1>1, <1>2 DEF RequestOK

LEMMA RequestsStay ==
    ASSUME OInv, req' = req, nextId' \in nextId..MaxId + 1,
           \A r \in Reqs : req[r].op \in Inserting =>
             \A i \in req[r].rows : req[r].to[i] \in cats => req[r].to[i] \in cats'
    PROVE  RequestsOK(req', cats', nextId')
<1>1. nextId \in Int /\ nextId' \in Int /\ nextId <= nextId'
  BY DEF OInv, RowsOK
<1> QED
  BY <1>1, RequestKeeps DEF OInv, RequestsOK

\* One request goes on, the others stay.
LEMMA RequestSet ==
    ASSUME OInv, NEW r \in Reqs, NEW y, req' = [req EXCEPT ![r] = y], nextId' \in nextId..MaxId + 1,
           RequestOK(y, cats', nextId'),
           \A q \in Reqs \ {r} : req[q].op \in Inserting =>
             \A i \in req[q].rows : req[q].to[i] \in cats => req[q].to[i] \in cats'
    PROVE  RequestsOK(req', cats', nextId')
<1>1. nextId \in Int /\ nextId' \in Int /\ nextId <= nextId'
  BY DEF OInv, RowsOK
<1>2. y \in Requests /\ req \in [Reqs -> Requests]
  BY DEF RequestOK, OInv, RequestsOK
<1>3. req' \in [Reqs -> Requests] /\ req'[r] = y /\ \A q \in Reqs \ {r} : req'[q] = req[q]
  BY <1>2
<1>4. ASSUME NEW q \in Reqs \ {r} PROVE RequestOK(req[q], cats', nextId')
  BY <1>1, RequestKeeps DEF OInv, RequestsOK
<1> QED
  BY <1>3, <1>4 DEF RequestsOK

LEMMA IdleOK == ASSUME NEW cs, NEW n PROVE RequestOK(Idle, cs, n) /\ Idle \in Requests
<1>1. Idle \in Requests /\ Idle.op = "idle" /\ Idle.rows = {} /\ Idle.make = {}
  BY DEF Idle, Requests
<1> QED
  BY <1>1, FS_EmptySet DEF RequestOK, Inserting

LEMMA PageStays == ASSUME OInv, page' = page, nextId' \in nextId..MaxId + 1 PROVE PageOK(page', nextId')
<1>1. nextId \in Int /\ nextId' \in Int /\ nextId <= nextId'
  BY DEF OInv, RowsOK
<1>2. \A k \in 1..Len(page.rows) : page.rows[k] \in Ids
  BY DEF OInv, PageOK
<1>3. ASSUME NEW k \in 1..Len(page.rows) PROVE page.rows[k] < nextId'
  <2>1. page.rows[k] < nextId
    BY DEF OInv, PageOK
  <2>2. page.rows[k] \in Int
    BY <1>2, IdNumbers
  <2> QED
    BY <1>1, <2>1, <2>2
<1> QED
  BY <1>3 DEF OInv, PageOK

LEMMA NoPageOK == ASSUME NEW n PROVE PageOK(NoPage, n)
  BY DEF NoPage, PageOK

LEMMA BeginCounts == OInv /\ Begins => edits' \in 0..MaxEdits
  BY OrderAssumptions DEF OInv, Begins

LEMMA PartOfSeq ==
    ASSUME NEW S, NEW s \in Seq(S), NEW m \in Nat, NEW k \in Nat, m >= 1, m <= k + 1, k <= Len(s)
    PROVE  /\ SubSeq(s, m, k) \in Seq(S) /\ Len(SubSeq(s, m, k)) = k - m + 1
           /\ \A i \in 1..k - m + 1 : SubSeq(s, m, k)[i] = s[m + i - 1]
  OBVIOUS

LEMMA OrderInitially == Init => OInv
<1> SUFFICES ASSUME Init PROVE OInv
  OBVIOUS
<1>1. PICK c \in [1..Imported -> Cats] :
      /\ cat = [i \in Ids |-> IF i <= Imported THEN c[i] ELSE NoCat]
      /\ order = [i \in Ids |-> IF i <= Imported THEN i - 1 ELSE 0]
      /\ cats = ToSet(c) \union Foreign
      /\ place = [k \in Cats |-> IF k \notin ToSet(c) THEN 0
                                 ELSE Cardinality(ToSet(SubSeq(c, 1, SelectInSeq(c, LAMBDA d : d = k)))) - 1]
      /\ nextId = Imported + 1
      /\ req = [r \in Reqs |-> Idle]
      /\ page = NoPage
      /\ edits = 0
  BY DEF Init
<1>2. Imported \in Nat /\ MaxId \in Nat /\ Imported <= MaxId /\ c \in Seq(Cats) /\ Len(c) = Imported
  BY OrderAssumptions
<1>3. ToSet(c) = {c[i] : i \in 1..Imported}
  BY DEF ToSet
<1>4. ToSet(c) \in SUBSET Cats /\ IsFiniteSet(ToSet(c))
  <2>1. IsFiniteSet(1..Imported)
    BY <1>2, FS_Interval
  <2>2. IsFiniteSet({c[i] : i \in 1..Imported})
    BY <2>1, ImageFinite
  <2> QED
    BY <1>3, <2>2
<1>5. cat \in [Ids -> Cats \union {NoCat}] /\ order \in [Ids -> Nat]
  BY <1>1, <1>2, IdNumbers DEF Ids
<1>6. cats \in SUBSET Cats /\ IsFiniteSet(cats)
  BY <1>1, <1>4, FS_Union, OrderAssumptions
<1>7. place \in [Cats -> Nat]
  <2>1. ASSUME NEW k \in ToSet(c)
        PROVE  Cardinality(ToSet(SubSeq(c, 1, SelectInSeq(c, LAMBDA d : d = k)))) - 1 \in Nat
    <3>1. PICK I : I = {i \in 1..Len(c) : c[i] = k}
      OBVIOUS
    <3>2. I \in SUBSET Nat /\ I # {}
      BY <1>2, <1>3, <3>1
    <3>3. PICK m \in I : m = Min(I)
      <4>1. PICK m \in I : \A n \in I : m <= n
        BY <3>2, LeastNumber
      <4> QED
        BY <4>1 DEF Min
    <3>4. SelectInSeq(c, LAMBDA d : d = k) = m
      BY <3>1, <3>2, <3>3 DEF SelectInSeq
    <3>5. m \in 1..Len(c)
      BY <3>1
    <3>6. PICK s \in Seq(Cats) : s = SubSeq(c, 1, m) /\ Len(s) = m
      <4>1. 1 \in Nat /\ m \in Nat /\ 1 >= 1 /\ 1 <= m + 1 /\ m <= Len(c) /\ m - 1 + 1 = m
        BY <1>2, <3>5
      <4>2. SubSeq(c, 1, m) \in Seq(Cats) /\ Len(SubSeq(c, 1, m)) = m - 1 + 1
        BY <1>2, <4>1, PartOfSeq
      <4> QED
        BY <4>1, <4>2
    <3>7. ToSet(s) = {s[i] : i \in 1..m} /\ 1 \in 1..m
      <4>1. DOMAIN s = 1..m /\ m \in Nat /\ m >= 1
        BY <1>2, <3>5, <3>6
      <4> QED
        BY <4>1 DEF ToSet
    <3>8. s[1] \in ToSet(s)
      BY <3>7
    <3>9. IsFiniteSet(ToSet(s))
      <4>1. IsFiniteSet(1..m)
        BY <1>2, <3>5, FS_Interval
      <4>2. IsFiniteSet({s[i] : i \in 1..m})
        BY <4>1, ImageFinite
      <4> QED
        BY <3>7, <4>2
    <3>10. Cardinality(ToSet(s)) \in Nat /\ Cardinality(ToSet(s)) # 0
      BY <3>8, <3>9, FS_CardinalityType, FS_EmptySet
    <3> QED
      BY <3>4, <3>6, <3>10
  <2> QED
    BY <1>1, <2>1
<1>8. ASSUME NEW i \in Ids, cat[i] # NoCat PROVE cat[i] \in cats /\ i < nextId
  <2>1. i \in 1..Imported /\ cat[i] = c[i]
    BY <1>1, <1>2, <1>8 DEF Ids
  <2>2. cat[i] \in ToSet(c)
    BY <1>3, <2>1
  <2> QED
    BY <1>1, <1>2, <2>1, <2>2
<1>9. RowsOK(cat, order, cats, place, nextId)
  <2>1. nextId \in 1..MaxId + 1
    BY <1>1, <1>2
  <2> QED
    BY <1>5, <1>6, <1>7, <1>8, <2>1 DEF RowsOK
<1>10. RequestsOK(req, cats, nextId)
  BY <1>1, IdleOK DEF RequestsOK
<1>11. PageOK(page, nextId) /\ edits \in 0..MaxEdits
  BY <1>1, NoPageOK, OrderAssumptions
<1> QED
  BY <1>9, <1>10, <1>11 DEF OInv

-----------------------------------------------------------------------------
(* Inserts *)

LEMMA RowTypes ==
    ASSUME OInv
    PROVE  /\ cat \in [Ids -> Cats \union {NoCat}] /\ order \in [Ids -> Nat]
           /\ cats \in SUBSET Cats /\ IsFiniteSet(cats) /\ place \in [Cats -> Nat]
           /\ nextId \in 1..MaxId + 1 /\ MaxId \in Nat
           /\ \A i \in Ids : cat[i] # NoCat => cat[i] \in cats /\ i < nextId
           /\ req \in [Reqs -> Requests]
  BY OrderAssumptions DEF OInv, RowsOK, RequestsOK

\* The next sort_order is above all there are, or as high if all are 0.
LEMMA NextOrderIs ==
    ASSUME OInv, NEW c
    PROVE  /\ NextOrder(c) \in Nat
           /\ \A i \in Members(c) : order[i] < NextOrder(c) \/ (order[i] = 0 /\ NextOrder(c) = 0)
<1>1. \A i \in Members(c) : i \in Ids /\ order[i] \in Nat
  BY RowTypes DEF Members
<1>2. CASE \A i \in Members(c) : order[i] = 0
  BY <1>1, <1>2 DEF NextOrder
<1>3. CASE ~ \A i \in Members(c) : order[i] = 0
  <2>1. PICK S : S = {order[i] : i \in Members(c)}
    OBVIOUS
  <2>2. IsFiniteSet(Members(c))
    BY IdsFinite DEF Members
  <2>3. S \in SUBSET Int /\ IsFiniteSet(S) /\ S # {}
    BY <1>1, <1>3, <2>1, <2>2, ImageFinite
  <2>4. Max(S) \in S /\ \A y \in S : Max(S) >= y
    BY <2>3, MaxOf
  <2>5. NextOrder(c) = 1 + Max(S)
    BY <1>3, <2>1 DEF NextOrder
  <2>6. PICK m \in Nat : m = Max(S)
    BY <1>1, <2>1, <2>4
  <2>7. \A i \in Members(c) : order[i] <= m
    BY <1>1, <2>1, <2>4, <2>6
  <2> QED
    BY <1>1, <2>5, <2>6, <2>7
<1> QED
  BY <1>2, <1>3

\* The one category of its name is known, and so is below what is new.
LEMMA NextPlaceIs ==
    ASSUME OInv, NEW known \in Known
    PROVE  /\ NextPlace(known) \in Nat
           /\ \A e \in cats \ Foreign : OnlyOne(e, cats) => place[e] < NextPlace(known)
<1>0. known \in SUBSET (cats \ Foreign)
  BY DEF Known
<1>1. PICK T : T = {place[c] : c \in known}
  OBVIOUS
<1>2. PICK S : S = {-1} \union T
  OBVIOUS
<1>3. \A c \in known : place[c] \in Nat
  BY <1>0, RowTypes
<1>4. IsFiniteSet(known)
  BY <1>0, RowTypes, FS_Subset, FS_Difference
<1>5. IsFiniteSet(T) /\ IsFiniteSet({-1})
  <2>1. IsFiniteSet({place[c] : c \in known})
    BY <1>4, ImageFinite
  <2> QED
    BY <1>1, <2>1, FS_Singleton
<1>6. IsFiniteSet(S)
  BY <1>2, <1>5, FS_Union
<1>7. S \in SUBSET Int /\ S # {} /\ -1 \in S
  BY <1>1, <1>2, <1>3
<1>8. Max(S) \in S /\ \A y \in S : Max(S) >= y
  BY <1>6, <1>7, MaxOf
<1>9. PICK m \in Int : m = Max(S) /\ m >= -1
  BY <1>7, <1>8
<1>10. NextPlace(known) = 1 + m
  BY <1>1, <1>2, <1>9 DEF NextPlace
<1>11. \A c \in known : place[c] <= m
  BY <1>1, <1>2, <1>3, <1>8, <1>9
<1>12. ASSUME NEW e \in cats \ Foreign, OnlyOne(e, cats) PROVE e \in known
  <2>1. \A c \in cats \ Foreign : \E k \in known : Label[k] = Label[c]
    BY DEF Known
  <2>2. PICK k \in known : Label[k] = Label[e]
    BY <2>1
  <2> QED
    BY <1>0, <1>12, <2>2 DEF OnlyOne
<1> QED
  BY <1>3, <1>9, <1>10, <1>11, <1>12

LEMMA BegunIs ==
    ASSUME OInv, NEW op \in Inserting \union {"merge_categories", "sort"}
    PROVE  /\ Begun(op) \in Requests
           /\ Begun(op).op = op /\ Begun(op).rows = {} /\ Begun(op).make = {}
           /\ Begun(op).sawCat = cat /\ Begun(op).sawOrder = order
           /\ Begun(op).sawCats = cats /\ Begun(op).sawPlace = place
<1>1. Idle \in Requests /\ Idle.rows = {} /\ Idle.make = {}
  BY IdleOK DEF Idle
<1> QED
  BY <1>1, RowTypes DEF Begun, Requests

\* How many of a request's channels come before one of them in its target.
Nth(ids, to, i) == Cardinality({j \in ids : j < i /\ to[j] = to[i]})

NewOrders(ids, to) == [i \in Ids |-> IF i \notin ids THEN 0 ELSE NextOrder(to[i]) + Nth(ids, to, i)]

NewPlaces(new, mode, known) ==
    [c \in Cats |-> IF c \notin new \/ mode = "merge" THEN 0
                    ELSE NextPlace(known) + Cardinality({d \in new : Rank[d] < Rank[c]})]

\* The new categories are numbered in the provider's order.
LEMMA NewPlacesAre ==
    ASSUME OInv, NEW new \in SUBSET Own, IsFiniteSet(new), NEW mode, NEW known \in Known
    PROVE  /\ NewPlaces(new, mode, known) \in [Cats -> Nat]
           /\ mode = "per_category" =>
                /\ \A c \in new : NewPlaces(new, mode, known)[c] >= NextPlace(known)
                /\ \A c, d \in new : Rank[c] < Rank[d] => NewPlaces(new, mode, known)[c] < NewPlaces(new, mode, known)[d]
<1>1. PICK lower : lower = [c \in Cats |-> {d \in new : Rank[d] < Rank[c]}]
  OBVIOUS
<1>2. ASSUME NEW c \in Cats PROVE IsFiniteSet(lower[c]) /\ Cardinality(lower[c]) \in Nat
  <2>1. lower[c] \in SUBSET new
    BY <1>1
  <2>2. IsFiniteSet(lower[c])
    BY <2>1, FS_Subset
  <2> QED
    BY <2>2, FS_CardinalityType
<1>3. \A c \in Cats : NewPlaces(new, mode, known)[c] = IF c \notin new \/ mode = "merge" THEN 0
                                                ELSE NextPlace(known) + Cardinality(lower[c])
  BY <1>1 DEF NewPlaces
<1>4. NextPlace(known) \in Nat
  BY NextPlaceIs
<1>5. NewPlaces(new, mode, known) \in [Cats -> Nat]
  <2>1. \A c \in Cats : NewPlaces(new, mode, known)[c] \in Nat
    BY <1>2, <1>3, <1>4
  <2> QED
    BY <2>1 DEF NewPlaces
<1>6. new \in SUBSET Cats
  BY DEF Own
<1>7. ASSUME NEW c \in new, NEW d \in new, Rank[c] < Rank[d] PROVE Cardinality(lower[c]) < Cardinality(lower[d])
  <2>1. \A x \in Cats : Rank[x] \in Nat
    BY OrderAssumptions
  <2>2. lower[c] \in SUBSET lower[d] /\ c \in lower[d] /\ c \notin lower[c]
    BY <1>1, <1>6, <1>7, <2>1
  <2>3. IsFiniteSet(lower[d]) /\ Cardinality(lower[c]) \in Nat /\ Cardinality(lower[d]) \in Nat
    BY <1>2, <1>6
  <2>4. /\ Cardinality(lower[c]) <= Cardinality(lower[d])
        /\ Cardinality(lower[d]) = Cardinality(lower[c]) => lower[d] = lower[c]
    BY <2>2, <2>3, FS_Subset
  <2> QED
    BY <2>2, <2>3, <2>4
<1>8. ASSUME mode = "per_category"
      PROVE  /\ \A c \in new : NewPlaces(new, mode, known)[c] >= NextPlace(known)
             /\ \A c, d \in new : Rank[c] < Rank[d] => NewPlaces(new, mode, known)[c] < NewPlaces(new, mode, known)[d]
  <2>1. \A c \in new : /\ NewPlaces(new, mode, known)[c] = NextPlace(known) + Cardinality(lower[c])
                       /\ Cardinality(lower[c]) \in Nat
    BY <1>2, <1>3, <1>6, <1>8
  <2>2. \A c \in new : NewPlaces(new, mode, known)[c] >= NextPlace(known)
    BY <1>4, <2>1
  <2>3. \A c, d \in new : Rank[c] < Rank[d] => NewPlaces(new, mode, known)[c] < NewPlaces(new, mode, known)[d]
    BY <1>4, <1>7, <2>1
  <2> QED
    BY <2>2, <2>3
<1> QED
  BY <1>5, <1>8

\* The new channels are numbered behind those there are.
LEMMA NewOrdersAre ==
    ASSUME OInv, NEW n \in nextId..MaxId, NEW to \in [nextId..n -> Own]
    PROVE  /\ NewOrders(nextId..n, to) \in [Ids -> Nat]
           /\ \A k \in nextId..n, i \in Ids : cat[i] = to[k] =>
                \/ order[i] < NewOrders(nextId..n, to)[k]
                \/ order[i] = 0 /\ NewOrders(nextId..n, to)[k] = 0 /\ i < k
<1>1. PICK ids \in SUBSET Ids : ids = nextId..n
  BY RowTypes DEF Ids
<1>2. PICK O : O = NewOrders(ids, to)
  OBVIOUS
<1>3. ASSUME NEW i \in ids PROVE O[i] \in Nat /\ O[i] >= NextOrder(to[i]) /\ NextOrder(to[i]) \in Nat
  <2>1. {j \in ids : j < i /\ to[j] = to[i]} \in SUBSET Ids
    OBVIOUS
  <2>2. Nth(ids, to, i) \in Nat
    BY <2>1, IdsFinite DEF Nth
  <2>3. O[i] = NextOrder(to[i]) + Nth(ids, to, i)
    BY <1>2 DEF NewOrders
  <2> QED
    BY <2>2, <2>3, NextOrderIs
<1>4. O \in [Ids -> Nat]
  BY <1>2, <1>3 DEF NewOrders
<1>5. ASSUME NEW k \in nextId..n, NEW i \in Ids, cat[i] = to[k]
      PROVE  order[i] < O[k] \/ (order[i] = 0 /\ O[k] = 0 /\ i < k)
  <2>1. to[k] # NoCat
    BY OrderAssumptions DEF Own
  <2>2. i \in Members(to[k]) /\ i < nextId
    BY <1>5, <2>1, RowTypes DEF Members
  <2>3. i < k
    BY <2>2, IdNumbers, RowTypes
  <2>4. order[i] < NextOrder(to[k]) \/ (order[i] = 0 /\ NextOrder(to[k]) = 0)
    BY <2>2, NextOrderIs
  <2>5. O[k] \in Nat /\ O[k] >= NextOrder(to[k]) /\ NextOrder(to[k]) \in Nat /\ order[i] \in Nat
    BY <1>1, <1>3, RowTypes
  <2> QED
    BY <2>3, <2>4, <2>5
<1> QED
  BY <1>1, <1>2, <1>4, <1>5

LEMMA InsertBegun ==
    ASSUME OInv, NEW r \in Reqs, NEW mode \in Inserting, NEW n \in nextId..MaxId,
           NEW to \in [nextId..n -> Own], NEW known \in Known, InsertBegin(r, mode, nextId..n, to, known)
    PROVE  OInv'
<1>1. PICK ids \in SUBSET Ids : ids = nextId..n
  BY RowTypes DEF Ids
<1>2. PICK new : new = {to[i] : i \in ids} \ cats
  OBVIOUS
<1>3. new \in SUBSET Own /\ IsFiniteSet(new)
  <2>1. new \in SUBSET Own
    BY <1>1, <1>2
  <2>2. IsFiniteSet(ids)
    BY IdsFinite
  <2>3. IsFiniteSet({to[i] : i \in ids})
    BY <2>2, ImageFinite
  <2> QED
    BY <1>2, <2>1, <2>3, FS_Difference
<1>4. PICK T \in [Ids -> Cats \union {NoCat}] : T = [i \in Ids |-> IF i \in ids THEN to[i] ELSE NoCat]
  <2>1. \A i \in ids : to[i] \in Cats
    BY <1>1 DEF Own
  <2> QED
    BY <2>1
<1>5. PICK O \in [Ids -> Nat] : O = NewOrders(ids, to)
  BY <1>1, NewOrdersAre
<1>6. PICK P \in [Cats -> Nat] : P = NewPlaces(new, mode, known)
  BY <1>3, NewPlacesAre
<1>7. PICK b \in Requests : b = Begun(mode)
  BY BegunIs
<1>8. /\ b.op = mode /\ b.sawCat = cat /\ b.sawOrder = order /\ b.sawCats = cats /\ b.sawPlace = place
  BY <1>7, BegunIs
<1>9. PICK y : y = [b EXCEPT !.rows = ids, !.to = T, !.order = O, !.make = new, !.place = P]
  OBVIOUS
<1>10. /\ y \in Requests /\ y.op = mode /\ y.rows = ids /\ y.to = T /\ y.order = O /\ y.make = new /\ y.place = P
       /\ y.sawCat = cat /\ y.sawOrder = order /\ y.sawCats = cats /\ y.sawPlace = place
  BY <1>3, <1>8, <1>9 DEF Requests
<1>11. req' = [req EXCEPT ![r] = y]
  BY <1>1, <1>2, <1>4, <1>5, <1>6, <1>7, <1>9 DEF InsertBegin, NewOrders, NewPlaces, Nth
<1>12. /\ nextId' = n + 1 /\ cat' = cat /\ order' = order /\ cats' = cats /\ place' = place /\ page' = page
       /\ Begins
  <2>1. Cardinality(nextId..n) = n - nextId + 1 /\ nextId \in Int /\ n \in Int
    BY RowTypes, FS_Interval
  <2> QED
    BY <2>1 DEF InsertBegin, rowsVars, catVars
<1>13. nextId' \in nextId..MaxId + 1 /\ nextId \in Nat /\ nextId >= 1 /\ nextId <= nextId'
  BY <1>12, RowTypes
<1>14. RowsOK(cat', order', cats', place', nextId')
  <2>1. \A i \in Ids : cat[i] # NoCat => cat[i] \in cats /\ i < nextId'
    BY <1>13, RowTypes, IdNumbers
  <2> QED
    BY <1>12, <1>13, <2>1, RowTypes DEF RowsOK
<1>15. InsertOK(y, cats)
  <2>1. \A i \in ids : T[i] \in Own /\ T[i] \in cats \union new
    BY <1>1, <1>2, <1>4
  <2>2. \A k \in ids, i \in Ids : cat[i] = T[k] => order[i] < O[k] \/ (order[i] = 0 /\ O[k] = 0 /\ i < k)
    <3>1. ASSUME NEW k \in ids, NEW i \in Ids, cat[i] = T[k]
          PROVE  order[i] < O[k] \/ (order[i] = 0 /\ O[k] = 0 /\ i < k)
      <4>1. cat[i] = to[k]
        BY <1>4, <3>1
      <4>2. \A l \in nextId..n, j \in Ids : cat[j] = to[l] =>
              \/ order[j] < NewOrders(nextId..n, to)[l]
              \/ order[j] = 0 /\ NewOrders(nextId..n, to)[l] = 0 /\ j < l
        BY Zenon, NewOrdersAre
      <4> QED
        BY <1>1, <1>5, <4>1, <4>2
    <3> QED
      BY <3>1
  <2>3. ASSUME mode = "per_category"
        PROVE  /\ \A c, d \in new : Rank[c] < Rank[d] => P[c] < P[d]
               /\ \A c \in new, e \in cats \ Foreign : OnlyOne(e, cats) => place[e] < P[c]
    <3>1. \A c, d \in new : Rank[c] < Rank[d] => P[c] < P[d]
      BY <1>3, <1>6, <2>3, NewPlacesAre
    <3>2. \A c \in new : P[c] >= NextPlace(known) /\ P[c] \in Nat
      BY <1>3, <1>6, <2>3, NewPlacesAre DEF Own
    <3>3. /\ NextPlace(known) \in Nat
          /\ \A e \in cats \ Foreign : OnlyOne(e, cats) => place[e] < NextPlace(known)
          /\ \A e \in cats \ Foreign : place[e] \in Nat
      BY NextPlaceIs, RowTypes
    <3>4. \A c \in new, e \in cats \ Foreign : OnlyOne(e, cats) => place[e] < P[c]
      BY <3>2, <3>3
    <3> QED
      BY <3>1, <3>4
  <2>4. new \intersect cats = {}
    BY <1>2
  <2> QED
    BY <1>10, <2>1, <2>2, <2>3, <2>4 DEF InsertOK
<1>16. RequestOK(y, cats', nextId')
  <2>1. \A i \in ids : i < nextId'
    BY <1>1, <1>12, <1>13
  <2>2. mode # "merge_categories" /\ mode # "sort"
    BY DEF Inserting
  <2> QED
    BY <1>3, <1>10, <1>12, <1>15, <2>1, <2>2 DEF RequestOK
<1>17. RequestsOK(req', cats', nextId')
  BY <1>11, <1>12, <1>13, <1>16, RequestSet
<1> QED
  BY <1>12, <1>13, <1>14, <1>17, PageStays, BeginCounts DEF OInv

LEMMA InsertCommitted == ASSUME OInv, NEW r \in Reqs, InsertCommit(r) PROVE OInv'
<1>1. PICK x \in Requests : x = req[r]
  BY RowTypes
<1>2. /\ x.rows \in SUBSET Ids /\ x.to \in [Ids -> Cats \union {NoCat}] /\ x.order \in [Ids -> Nat]
      /\ x.make \in SUBSET Own /\ x.place \in [Cats -> Nat] /\ IsFiniteSet(x.make)
      /\ \A i \in x.rows : i < nextId /\ x.to[i] \in Own /\ x.to[i] \in cats \union x.make
  <2>1. RequestOK(x, cats, nextId) /\ x.op \in Inserting
    BY <1>1 DEF OInv, RequestsOK, InsertCommit
  <2> QED
    BY <2>1, RequestFields DEF RequestOK, InsertOK
<1>3. /\ cat' = [i \in Ids |-> IF i \in x.rows THEN x.to[i] ELSE cat[i]]
      /\ order' = [i \in Ids |-> IF i \in x.rows THEN x.order[i] ELSE order[i]]
      /\ cats' = cats \union x.make
      /\ place' = [c \in Cats |-> IF c \in x.make THEN x.place[c] ELSE place[c]]
      /\ req' = [req EXCEPT ![r] = Idle]
      /\ nextId' = nextId /\ page' = page /\ edits' = edits
  BY <1>1 DEF InsertCommit, Ends
<1>4. nextId' \in nextId..MaxId + 1
  BY <1>3, RowTypes
<1>5. RowsOK(cat', order', cats', place', nextId')
  <2>1. cat' \in [Ids -> Cats \union {NoCat}] /\ order' \in [Ids -> Nat]
    BY <1>2, <1>3, RowTypes
  <2>2. cats' \in SUBSET Cats /\ place' \in [Cats -> Nat]
    BY <1>2, <1>3, RowTypes DEF Own
  <2>3. IsFiniteSet(cats')
    BY <1>2, <1>3, RowTypes, FS_Union
  <2>4. \A i \in Ids : cat'[i] # NoCat => cat'[i] \in cats' /\ i < nextId'
    BY <1>2, <1>3, RowTypes
  <2> QED
    BY <1>3, <2>1, <2>2, <2>3, <2>4, RowTypes DEF RowsOK
<1>6. RequestsOK(req', cats', nextId')
  BY <1>3, <1>4, IdleOK, RequestSet
<1> QED
  BY <1>3, <1>4, <1>5, <1>6, PageStays DEF OInv

LEMMA InsertedAtDefault ==
    ASSUME OInv, NEW c, NEW k \in Nat, InsertAtDefault(c, k)
    PROVE  OInv'
<1>1. /\ c \in cats /\ nextId..nextId + k - 1 \in SUBSET Ids /\ nextId' = nextId + k
      /\ cat' = [i \in Ids |-> IF i \in nextId..nextId + k - 1 THEN c ELSE cat[i]]
      /\ order' = order /\ cats' = cats /\ place' = place /\ req' = req /\ page' = page /\ Begins
  BY DEF InsertAtDefault, catVars
<1>2. nextId' \in nextId..MaxId + 1
  <2>1. CASE k = 0
    BY <1>1, <2>1, RowTypes
  <2>2. CASE k # 0
    <3>1. nextId + k - 1 \in nextId..nextId + k - 1
      BY <2>2, RowTypes
    <3>2. nextId + k - 1 \in 1..MaxId
      BY <1>1, <3>1 DEF Ids
    <3> QED
      BY <1>1, <3>2, RowTypes
  <2> QED
    BY <2>1, <2>2
<1>3. RowsOK(cat', order', cats', place', nextId')
  <2>1. cat' \in [Ids -> Cats \union {NoCat}]
    BY <1>1, RowTypes
  <2>2. ASSUME NEW i \in Ids, cat'[i] # NoCat PROVE cat'[i] \in cats' /\ i < nextId'
    <3>1. CASE i \in nextId..nextId + k - 1
      BY <1>1, <3>1, RowTypes
    <3>2. CASE i \notin nextId..nextId + k - 1
      <4>1. cat[i] \in cats /\ i < nextId /\ cat'[i] = cat[i]
        BY <1>1, <2>2, <3>2, RowTypes
      <4> QED
        BY <1>1, <4>1, RowTypes, IdNumbers
    <3> QED
      BY <3>1, <3>2
  <2>3. nextId' \in 1..MaxId + 1
    BY <1>2, RowTypes
  <2> QED
    BY <1>1, <2>1, <2>2, <2>3, RowTypes DEF RowsOK
<1>4. RequestsOK(req', cats', nextId')
  BY <1>1, <1>2, RequestsStay
<1> QED
  BY <1>1, <1>2, <1>3, <1>4, PageStays, BeginCounts DEF OInv

LEMMA CategoryCreated == ASSUME OInv, NEW c \in Own, CreateCategory(c) PROVE OInv'
<1>1. /\ cats' = cats \union {c} /\ place' = [place EXCEPT ![c] = 0]
      /\ cat' = cat /\ order' = order /\ nextId' = nextId /\ req' = req /\ page' = page /\ Begins
  BY DEF CreateCategory, rowsVars
<1>2. c \in Cats
  BY DEF Own
<1>3. nextId' \in nextId..MaxId + 1
  BY <1>1, RowTypes
<1>4. cats' \in SUBSET Cats /\ IsFiniteSet(cats') /\ place' \in [Cats -> Nat]
  BY <1>1, <1>2, RowTypes, FS_AddElement
<1>5. RowsOK(cat', order', cats', place', nextId')
  BY <1>1, <1>4, RowTypes DEF RowsOK
<1>6. RequestsOK(req', cats', nextId')
  BY <1>1, <1>3, RequestsStay
<1> QED
  BY <1>1, <1>3, <1>5, <1>6, PageStays, BeginCounts DEF OInv

-----------------------------------------------------------------------------
(* Moves and deletes *)

LEMMA ChannelsMoved ==
    ASSUME OInv, NEW S, NEW c, MoveChannels(S, c)
    PROVE  OInv'
<1>1. /\ c \in cats /\ cat' = [i \in Ids |-> IF i \in S /\ cat[i] # NoCat THEN c ELSE cat[i]]
      /\ order' = order /\ cats' = cats /\ place' = place /\ nextId' = nextId /\ req' = req /\ page' = page /\ Begins
  BY DEF MoveChannels, catVars
<1>2. nextId' \in nextId..MaxId + 1
  BY <1>1, RowTypes
<1>3. RowsOK(cat', order', cats', place', nextId')
  <2>1. cat' \in [Ids -> Cats \union {NoCat}]
    BY <1>1, RowTypes
  <2>2. \A i \in Ids : cat'[i] # NoCat => cat'[i] \in cats' /\ i < nextId'
    BY <1>1, RowTypes
  <2> QED
    BY <1>1, <2>1, <2>2, RowTypes DEF RowsOK
<1>4. RequestsOK(req', cats', nextId')
  BY <1>1, <1>2, RequestsStay
<1> QED
  BY <1>1, <1>2, <1>3, <1>4, PageStays, BeginCounts DEF OInv

LEMMA ChannelsDeleted ==
    ASSUME OInv, NEW S, DeleteChannels(S)
    PROVE  OInv'
<1>1. /\ cat' = [i \in Ids |-> IF i \in S THEN NoCat ELSE cat[i]]
      /\ order' = [i \in Ids |-> IF i \in S THEN 0 ELSE order[i]]
      /\ cats' = cats /\ place' = place /\ nextId' = nextId /\ req' = req /\ page' = page /\ Begins
  BY DEF DeleteChannels, DeleteRows, catVars
<1>2. nextId' \in nextId..MaxId + 1
  BY <1>1, RowTypes
<1>3. RowsOK(cat', order', cats', place', nextId')
  <2>1. cat' \in [Ids -> Cats \union {NoCat}] /\ order' \in [Ids -> Nat]
    BY <1>1, RowTypes
  <2>2. \A i \in Ids : cat'[i] # NoCat => cat'[i] \in cats' /\ i < nextId'
    BY <1>1, RowTypes
  <2> QED
    BY <1>1, <2>1, <2>2, RowTypes DEF RowsOK
<1>4. RequestsOK(req', cats', nextId')
  BY <1>1, <1>2, RequestsStay
<1> QED
  BY <1>1, <1>2, <1>3, <1>4, PageStays, BeginCounts DEF OInv

\* Deleted categories are not the targets of an insert.
LEMMA DeletedCats ==
    ASSUME OInv, NEW C, DeleteCats(C), Deletable(C)
    PROVE  /\ cats' = cats \ C /\ cats' \in SUBSET Cats /\ IsFiniteSet(cats') /\ place' \in [Cats -> Nat]
           /\ \A q \in Reqs : req[q].op \in Inserting =>
                \A i \in req[q].rows : req[q].to[i] \in cats => req[q].to[i] \in cats'
<1>1. cats' = cats \ C /\ place' = [c \in Cats |-> IF c \in C THEN 0 ELSE place[c]]
  BY DEF DeleteCats
<1>2. cats' \in SUBSET Cats /\ IsFiniteSet(cats') /\ place' \in [Cats -> Nat]
  BY <1>1, RowTypes, FS_Difference
<1>3. \A q \in Reqs : req[q].op \in Inserting => \A i \in req[q].rows : req[q].to[i] \notin C
  BY DEF Deletable
<1> QED
  BY <1>1, <1>2, <1>3

LEMMA CategoryDeleted == ASSUME OInv, NEW c \in Own, DeleteCategory(c) PROVE OInv'
<1>1. /\ DeleteCats({c}) /\ Deletable({c})
      /\ cat' = [i \in Ids |-> IF i \in Members(c) THEN NoCat ELSE cat[i]]
      /\ order' = [i \in Ids |-> IF i \in Members(c) THEN 0 ELSE order[i]]
      /\ nextId' = nextId /\ req' = req /\ page' = page /\ Begins
  BY DEF DeleteCategory, DeleteRows
<1>2. nextId' \in nextId..MaxId + 1
  BY <1>1, RowTypes
<1>3. cats' = cats \ {c} /\ cats' \in SUBSET Cats /\ IsFiniteSet(cats') /\ place' \in [Cats -> Nat]
  BY <1>1, DeletedCats
<1>4. RowsOK(cat', order', cats', place', nextId')
  <2>1. cat' \in [Ids -> Cats \union {NoCat}] /\ order' \in [Ids -> Nat]
    BY <1>1, RowTypes
  <2>2. \A i \in Ids : cat'[i] # NoCat => cat'[i] \in cats' /\ i < nextId'
    BY <1>1, <1>3, RowTypes DEF Members
  <2> QED
    BY <1>1, <1>3, <2>1, <2>2, RowTypes DEF RowsOK
<1>5. RequestsOK(req', cats', nextId')
  BY <1>1, <1>2, DeletedCats, RequestsStay
<1> QED
  BY <1>1, <1>2, <1>4, <1>5, PageStays, BeginCounts DEF OInv

LEMMA MergeBegun ==
    ASSUME OInv, NEW r \in Reqs, NEW into \in Own, NEW from \in SUBSET cats, MergeBegin(r, into, from)
    PROVE  OInv'
<1>1. PICK b \in Requests : b = Begun("merge_categories")
  BY BegunIs
<1>2. /\ b.op = "merge_categories" /\ b.sawCat = cat /\ b.sawOrder = order /\ b.make = {}
  BY <1>1, BegunIs
<1>3. PICK D \in SUBSET Cats : D = from \ {into}
  BY RowTypes
<1>4. PICK S \in SUBSET Ids : S = {i \in Ids : cat[i] \in D}
  OBVIOUS
<1>5. PICK T \in [Ids -> Cats \union {NoCat}] : T = [i \in Ids |-> into]
  BY DEF Own
<1>6. PICK y : y = [b EXCEPT !.rows = S, !.to = T, !.drop = D]
  OBVIOUS
<1>7. /\ y \in Requests /\ y.op = "merge_categories" /\ y.rows = S /\ y.to = T /\ y.drop = D
      /\ y.sawCat = cat /\ y.make = {}
  BY <1>2, <1>6 DEF Requests
<1>8. req' = [req EXCEPT ![r] = y]
  BY <1>1, <1>3, <1>4, <1>5, <1>6 DEF MergeBegin
<1>9. /\ nextId' = nextId /\ cat' = cat /\ order' = order /\ cats' = cats /\ place' = place /\ page' = page
      /\ Begins
  BY DEF MergeBegin, rowsVars, catVars
<1>10. nextId' \in nextId..MaxId + 1
  BY <1>9, RowTypes
<1>11. RowsOK(cat', order', cats', place', nextId')
  BY <1>9 DEF OInv
<1>12. MergeOK(y)
  <2>1. into \notin D /\ \A i \in Ids : T[i] = into
    BY <1>3, <1>5
  <2> QED
    BY <1>4, <1>7, <2>1 DEF MergeOK
<1>13. RequestOK(y, cats', nextId')
  <2>1. \A i \in S : i < nextId
    BY <1>3, <1>4, RowTypes, OrderAssumptions
  <2>2. y.op \notin Inserting /\ y.op # "sort"
    BY <1>7 DEF Inserting
  <2> QED
    BY <1>7, <1>9, <1>12, <2>1, <2>2, FS_EmptySet DEF RequestOK
<1>14. RequestsOK(req', cats', nextId')
  BY <1>8, <1>9, <1>10, <1>13, RequestSet
<1> QED
  BY <1>9, <1>10, <1>11, <1>14, PageStays, BeginCounts DEF OInv

\* What a merge does to each channel.
LEMMA MergeMoves ==
    ASSUME OInv, NEW r \in Reqs, MergeCommit(r)
    PROVE  /\ cats' = cats \ (req[r].drop \ Foreign)
           /\ \A i \in Ids :
                /\ i \in req[r].rows /\ cat[i] # NoCat
                     => cat'[i] = req[r].to[i] /\ cat'[i] \in cats /\ cat'[i] \notin req[r].drop
                /\ ~(i \in req[r].rows /\ cat[i] # NoCat) /\ cat[i] \in Dropped(r) => cat'[i] = NoCat
                /\ ~(i \in req[r].rows /\ cat[i] # NoCat) /\ cat[i] \notin Dropped(r) => cat'[i] = cat[i]
<1>1. PICK x \in Requests : x = req[r]
  BY RowTypes
<1>2. MergeOK(x)
  BY <1>1 DEF OInv, RequestsOK, RequestOK, MergeCommit
<1>3. /\ \A i \in x.rows : x.to[i] \in cats /\ x.to[i] \notin x.drop
      /\ x.rows \in SUBSET Ids
  BY <1>1, <1>2, RequestFields DEF MergeCommit, MergeOK
<1>4. PICK D : D = Dropped(r) /\ D = (x.drop \ Foreign) \intersect cats
  BY <1>1 DEF Dropped
<1>5. cats' = cats \ (x.drop \ Foreign)
  BY <1>1, <1>4 DEF MergeCommit, DeleteCats
<1>6. Moved(r) = {i \in x.rows : cat[i] # NoCat} /\ Lost(r) = {i \in Ids : cat[i] \in D} \ Moved(r)
  BY <1>1, <1>4 DEF Moved, Lost
<1>7. cat' = [i \in Ids |-> IF i \in Lost(r) THEN NoCat ELSE IF i \in Moved(r) THEN x.to[i] ELSE cat[i]]
  BY <1>1 DEF MergeCommit
<1>8. ASSUME NEW i \in Ids
      PROVE  /\ i \in x.rows /\ cat[i] # NoCat
                     => cat'[i] = x.to[i] /\ cat'[i] \in cats /\ cat'[i] \notin x.drop
             /\ ~(i \in x.rows /\ cat[i] # NoCat) /\ cat[i] \in D => cat'[i] = NoCat
             /\ ~(i \in x.rows /\ cat[i] # NoCat) /\ cat[i] \notin D => cat'[i] = cat[i]
  BY <1>3, <1>6, <1>7
<1> QED
  BY <1>1, <1>4, <1>5, <1>8

LEMMA MergeCommitted == ASSUME OInv, NEW r \in Reqs, MergeCommit(r) PROVE OInv'
<1>1. /\ DeleteCats(Dropped(r)) /\ Deletable(Dropped(r))
      /\ order' = [i \in Ids |-> IF i \in Lost(r) THEN 0 ELSE order[i]]
      /\ req' = [req EXCEPT ![r] = Idle] /\ nextId' = nextId /\ page' = page /\ edits' = edits
  BY DEF MergeCommit, Ends
<1>2. nextId' \in nextId..MaxId + 1
  BY <1>1, RowTypes
<1>3. /\ cats' = cats \ Dropped(r) /\ cats' \in SUBSET Cats /\ IsFiniteSet(cats') /\ place' \in [Cats -> Nat]
      /\ \A q \in Reqs : req[q].op \in Inserting =>
                \A i \in req[q].rows : req[q].to[i] \in cats => req[q].to[i] \in cats'
  BY <1>1, DeletedCats
<1>4. RowsOK(cat', order', cats', place', nextId')
  <2>1. ASSUME NEW i \in Ids
        PROVE cat'[i] \in Cats \union {NoCat} /\ (cat'[i] # NoCat => cat'[i] \in cats' /\ i < nextId')
    <3>1. CASE i \in req[r].rows /\ cat[i] # NoCat
      <4>1. cat'[i] \in cats /\ cat'[i] \notin req[r].drop
        BY <3>1, MergeMoves
      <4>2. cat'[i] \in cats'
        BY <4>1, MergeMoves
      <4> QED
        BY <1>1, <1>3, <3>1, <4>2, RowTypes
    <3>2. CASE ~(i \in req[r].rows /\ cat[i] # NoCat) /\ cat[i] \in Dropped(r)
      BY <3>2, MergeMoves
    <3>3. CASE ~(i \in req[r].rows /\ cat[i] # NoCat) /\ cat[i] \notin Dropped(r)
      <4>1. cat'[i] = cat[i]
        BY <3>3, MergeMoves
      <4> QED
        BY <1>1, <1>3, <3>3, <4>1, RowTypes
    <3> QED
      BY <3>1, <3>2, <3>3
  <2>2. cat' = [i \in Ids |-> cat'[i]]
    BY DEF MergeCommit
  <2>3. cat' \in [Ids -> Cats \union {NoCat}] /\ order' \in [Ids -> Nat]
    BY <1>1, <2>1, <2>2, RowTypes
  <2> QED
    BY <1>1, <1>3, <2>1, <2>3, RowTypes DEF RowsOK
<1>5. RequestsOK(req', cats', nextId')
  BY <1>1, <1>2, <1>3, IdleOK, RequestSet
<1> QED
  BY <1>1, <1>2, <1>4, <1>5, PageStays DEF OInv

LEMMA RequestFailed == ASSUME OInv, NEW r \in Reqs, RequestFails(r) PROVE OInv'
<1>1. /\ cat' = cat /\ order' = order /\ cats' = cats /\ place' = place /\ nextId' = nextId /\ page' = page
      /\ edits' = edits /\ req' = [req EXCEPT ![r] = Idle]
  BY DEF RequestFails, Ends, rowsVars, catVars
<1>2. nextId' \in nextId..MaxId + 1
  BY <1>1, RowTypes
<1>3. RowsOK(cat', order', cats', place', nextId')
  BY <1>1 DEF OInv
<1>4. RequestsOK(req', cats', nextId')
  BY <1>1, <1>2, IdleOK, RequestSet
<1> QED
  BY <1>1, <1>2, <1>3, <1>4, PageStays DEF OInv

-----------------------------------------------------------------------------
(* Sorting *)

\* The places of a sort are those its channels hold, one each.
SlotOf(o, M, i) == AtIn(o, M, NameRank(M, i))

LEMMA Slots ==
    ASSUME NEW o \in [Ids -> Nat], NEW M \in SUBSET Ids
    PROVE  /\ \A i \in M : SlotOf(o, M, i) \in M
           /\ \A i, j \in M : ByName(i, j) <=> BeforeIn(o, SlotOf(o, M, i), SlotOf(o, M, j))
           /\ \A i, j \in M : SlotOf(o, M, i) = SlotOf(o, M, j) => i = j
           /\ \A k \in M : \E i \in M : k = SlotOf(o, M, i)
<1>1. ASSUME NEW i \in M
      PROVE  SlotOf(o, M, i) \in M /\ RankIn(o, M, SlotOf(o, M, i)) = NameRank(M, i) /\ NameRank(M, i) \in Int
  <2>1. NameRank(M, i) \in 0..Cardinality(M) - 1
    BY NameRanks
  <2> QED
    BY <2>1, OrderRanks DEF SlotOf
<1>2. ASSUME NEW i \in M, NEW j \in M
      PROVE  ByName(i, j) <=> BeforeIn(o, SlotOf(o, M, i), SlotOf(o, M, j))
  <2>1. PICK a \in M, b \in M : a = SlotOf(o, M, i) /\ b = SlotOf(o, M, j)
    BY <1>1
  <2>2. BeforeIn(o, a, b) <=> RankIn(o, M, a) < RankIn(o, M, b)
    BY OrderRanks
  <2>3. ByName(i, j) <=> NameRank(M, i) < NameRank(M, j)
    BY NameRanks
  <2>4. RankIn(o, M, a) = NameRank(M, i) /\ RankIn(o, M, b) = NameRank(M, j)
    BY <1>1, <2>1
  <2> QED
    BY <2>1, <2>2, <2>3, <2>4
<1>3. ASSUME NEW i \in M, NEW j \in M, SlotOf(o, M, i) = SlotOf(o, M, j) PROVE i = j
  <2>1. NameRank(M, i) = NameRank(M, j)
    BY <1>1, <1>3
  <2> QED
    BY <2>1, NameRanks
<1>4. ASSUME NEW k \in M PROVE \E i \in M : k = SlotOf(o, M, i)
  <2>1. RankIn(o, M, k) \in 0..Cardinality(M) - 1
    BY OrderRanks
  <2>2. PICK i \in M : NameRank(M, i) = RankIn(o, M, k)
    BY <2>1, NameRanks
  <2>3. PICK a \in M : a = SlotOf(o, M, i) /\ RankIn(o, M, a) = RankIn(o, M, k)
    BY <1>1, <2>2
  <2>4. \A x, y \in M : RankIn(o, M, x) = RankIn(o, M, y) => x = y
    BY OrderRanks
  <2>5. a = k
    BY <2>3, <2>4
  <2> QED
    BY <2>3, <2>5
<1> QED
  BY <1>1, <1>2, <1>3, <1>4

LEMMA SlotIs == ASSUME NEW M, NEW i PROVE Slot(i, M) = order[SlotOf(order, M, i)]
  BY DEF Slot, SlotOf, At, AtIn, Position, RankIn, NameRank, Before

LEMMA SortBegun ==
    ASSUME OInv, NEW r \in Reqs, NEW S \in SUBSET Ids, SortBegin(r, S)
    PROVE  OInv'
<1>1. PICK b \in Requests : b = Begun("sort")
  BY BegunIs
<1>2. /\ b.op = "sort" /\ b.sawCat = cat /\ b.sawOrder = order /\ b.make = {}
  BY <1>1, BegunIs
<1>3. PICK mates : mates = [i \in S |-> {j \in S : cat[j] = cat[i]}]
  OBVIOUS
<1>4. ASSUME NEW i \in S PROVE S \intersect Members(cat[i]) = mates[i] /\ mates[i] \in SUBSET Ids /\ i \in mates[i]
  BY <1>3 DEF Members
<1>5. PICK O : O = [i \in Ids |-> IF i \in S THEN order[SlotOf(order, mates[i], i)] ELSE 0]
  OBVIOUS
<1>6. O \in [Ids -> Nat]
  <2>1. ASSUME NEW i \in S PROVE order[SlotOf(order, mates[i], i)] \in Nat
    <3>1. SlotOf(order, mates[i], i) \in Ids
      BY <1>4, Slots, RowTypes
    <3> QED
      BY <3>1, RowTypes
  <2> QED
    BY <1>5, <2>1
<1>7. PICK y : y = [b EXCEPT !.rows = S, !.order = O]
  OBVIOUS
<1>8. /\ y \in Requests /\ y.op = "sort" /\ y.rows = S /\ y.order = O
      /\ y.sawCat = cat /\ y.sawOrder = order /\ y.make = {}
  BY <1>2, <1>6, <1>7 DEF Requests
<1>9. req' = [req EXCEPT ![r] = y]
  <2>1. O = [i \in Ids |-> IF i \in S THEN Slot(i, S \intersect Members(cat[i])) ELSE 0]
    BY <1>4, <1>5, SlotIs
  <2> QED
    BY <1>1, <1>7, <2>1 DEF SortBegin
<1>10. /\ nextId' = nextId /\ cat' = cat /\ order' = order /\ cats' = cats /\ place' = place /\ page' = page
       /\ Begins /\ \A i \in S : cat[i] # NoCat
  BY DEF SortBegin, rowsVars, catVars
<1>11. nextId' \in nextId..MaxId + 1
  BY <1>10, RowTypes
<1>12. RowsOK(cat', order', cats', place', nextId')
  BY <1>10 DEF OInv
<1>13. SortOK(y)
  <2>1. ASSUME NEW i \in S
        PROVE  cat[i] \in Cats /\ O[i] = order[AtIn(order, Mates(y, i), NameRank(Mates(y, i), i))]
    <3>1. cat[i] \in Cats
      BY <1>10, RowTypes
    <3>2. Mates(y, i) = mates[i]
      BY <1>3, <1>8 DEF Mates
    <3> QED
      BY <1>5, <3>1, <3>2 DEF SlotOf
  <2> QED
    BY <1>8, <2>1 DEF SortOK
<1>14. RequestOK(y, cats', nextId')
  <2>1. \A i \in S : i < nextId
    BY <1>10, RowTypes
  <2>2. y.op \notin Inserting /\ y.op # "merge_categories"
    BY <1>8 DEF Inserting
  <2> QED
    BY <1>8, <1>10, <1>13, <2>1, <2>2, FS_EmptySet DEF RequestOK
<1>15. RequestsOK(req', cats', nextId')
  BY <1>9, <1>10, <1>11, <1>14, RequestSet
<1> QED
  BY <1>10, <1>11, <1>12, <1>15, PageStays, BeginCounts DEF OInv

LEMMA SortCommitted == ASSUME OInv, NEW r \in Reqs, SortCommit(r) PROVE OInv'
<1>1. PICK x \in Requests : x = req[r]
  BY RowTypes
<1>2. /\ order' = [i \in Ids |-> IF i \in x.rows /\ x.order[i] # x.sawOrder[i] /\ cat[i] # NoCat
                                 THEN x.order[i] ELSE order[i]]
      /\ cat' = cat /\ cats' = cats /\ place' = place /\ nextId' = nextId /\ page' = page
      /\ edits' = edits /\ req' = [req EXCEPT ![r] = Idle]
  BY <1>1 DEF SortCommit, Ends, catVars
<1>3. nextId' \in nextId..MaxId + 1
  BY <1>2, RowTypes
<1>4. RowsOK(cat', order', cats', place', nextId')
  <2>1. order' \in [Ids -> Nat]
    BY <1>2, RowTypes, RequestFields
  <2> QED
    BY <1>2, <2>1, RowTypes DEF RowsOK
<1>5. RequestsOK(req', cats', nextId')
  BY <1>2, <1>3, IdleOK, RequestSet
<1> QED
  BY <1>2, <1>3, <1>4, <1>5, PageStays DEF OInv

-----------------------------------------------------------------------------
(* The browser's page *)

LEMMA DisplaySeq ==
    ASSUME OInv, NEW c \in Cats
    PROVE  /\ Display(c) \in Seq(Ids) /\ Len(Display(c)) = Cardinality(Members(c))
           /\ Len(Display(c)) \in Nat
           /\ \A k \in 1..Len(Display(c)) : Display(c)[k] \in Members(c) /\ Display(c)[k] < nextId
<1>1. PICK S \in SUBSET Ids : S = Members(c)
  BY DEF Members
<1>2. Cardinality(S) \in Nat
  BY IdsFinite
<1>3. DisplayOf(order, S) \in [1..Cardinality(S) -> S]
  BY RowTypes, Displayed
<1>4. Display(c) = DisplayOf(order, S)
  BY <1>1, DisplayIs
<1>5. Display(c) \in Seq(S) /\ Len(Display(c)) = Cardinality(S) /\ Display(c) \in [1..Cardinality(S) -> S]
  BY <1>2, <1>3, <1>4
<1>6. \A i \in S : i < nextId
  BY <1>1, RowTypes, OrderAssumptions DEF Members
<1> QED
  BY <1>1, <1>2, <1>5, <1>6

\* Rows are added to the page as the server shows them.
LEMMA PageGrows ==
    ASSUME OInv, NEW c \in Own, NEW s \in Seq(Ids), \A k \in 1..Len(s) : s[k] < nextId,
           NEW m \in Nat, NEW n \in Nat, m >= 1, m <= n + 1, n <= Len(Display(c))
    PROVE  PageOK([cat |-> c, rows |-> s \o SubSeq(Display(c), m, n)], nextId)
<1>1. PICK d \in Seq(Ids) : d = Display(c) /\ \A k \in 1..Len(d) : d[k] < nextId
  BY DisplaySeq DEF Own
<1>2. PICK e \in Seq(Ids) : /\ e = SubSeq(d, m, n) /\ Len(e) = n - m + 1
                            /\ \A i \in 1..n - m + 1 : e[i] = d[m + i - 1]
  <2>1. n <= Len(d)
    BY <1>1
  <2>2. /\ SubSeq(d, m, n) \in Seq(Ids) /\ Len(SubSeq(d, m, n)) = n - m + 1
        /\ \A i \in 1..n - m + 1 : SubSeq(d, m, n)[i] = d[m + i - 1]
    BY <2>1, PartOfSeq
  <2> QED
    BY <2>2
<1>3. \A i \in 1..Len(e) : e[i] < nextId
  <2>1. ASSUME NEW i \in 1..Len(e) PROVE e[i] < nextId
    <3>1. i \in 1..n - m + 1 /\ m + i - 1 \in 1..Len(d)
      BY <1>1, <1>2
    <3> QED
      BY <1>1, <1>2, <3>1
  <2> QED
    BY <2>1
<1>4. PICK t \in Seq(Ids) : /\ t = s \o e /\ Len(t) = Len(s) + Len(e)
                            /\ \A i \in 1..Len(s) : t[i] = s[i]
                            /\ \A i \in 1..Len(e) : t[Len(s) + i] = e[i]
  <2>1. s \o e \in Seq(Ids) /\ Len(s \o e) = Len(s) + Len(e)
    BY ConcatProperties
  <2>2. \A i \in 1..Len(s) : (s \o e)[i] = s[i]
    BY ConcatProperties
  <2>3. \A i \in 1..Len(e) : (s \o e)[Len(s) + i] = e[i]
    OBVIOUS
  <2> QED
    BY <2>1, <2>2, <2>3
<1>5. ASSUME NEW k \in 1..Len(t) PROVE t[k] < nextId
  <2>1. Len(s) \in Nat /\ Len(e) \in Nat
    OBVIOUS
  <2>2. CASE k <= Len(s)
    BY <1>4, <2>1, <2>2
  <2>3. CASE k > Len(s)
    <3>1. k - Len(s) \in 1..Len(e) /\ Len(s) + (k - Len(s)) = k
      BY <1>4, <2>1, <2>3
    <3> QED
      BY <1>3, <1>4, <3>1
  <2> QED
    BY <2>1, <2>2, <2>3
<1>6. PICK p : p = [cat |-> c, rows |-> t]
  OBVIOUS
<1>7. PageOK(p, nextId)
  BY <1>5, <1>6 DEF PageOK
<1> QED
  BY <1>1, <1>2, <1>4, <1>6, <1>7

\* A step that only turns the page.
LEMMA PageTurned ==
    ASSUME OInv, PageOK(page', nextId), cat' = cat, order' = order, cats' = cats, place' = place,
           nextId' = nextId, req' = req, edits' = edits
    PROVE  OInv'
<1>1. RequestsOK(req', cats', nextId')
  BY DEF OInv
<1> QED
  BY <1>1 DEF OInv

LEMMA CategoryOpened == ASSUME OInv, NEW c \in Own, OpenCategory(c) PROVE OInv'
<1>1. PICK n : n = IF Len(Display(c)) < PageSize THEN Len(Display(c)) ELSE PageSize
  OBVIOUS
<1>2. Len(Display(c)) \in Nat /\ PageSize \in Nat /\ Display(c) \in Seq(Ids)
  BY OrderAssumptions, DisplaySeq DEF Own
<1>3. n \in Nat /\ n <= Len(Display(c)) /\ 1 <= n + 1 /\ 1 \in Nat /\ 1 >= 1
  BY <1>1, <1>2
<1>4. PICK e \in Seq(Ids) : e = SubSeq(Display(c), 1, n)
  BY <1>2, <1>3, PartOfSeq
<1>5. <<>> \in Seq(Ids) /\ <<>> \o e = e /\ \A k \in 1..Len(<<>>) : <<>>[k] < nextId
  OBVIOUS
<1>6. PageOK([cat |-> c, rows |-> <<>> \o SubSeq(Display(c), 1, n)], nextId)
  BY <1>3, <1>5, PageGrows
<1>7. page' = [cat |-> c, rows |-> e]
  BY <1>1, <1>4 DEF OpenCategory
<1>8. PageOK(page', nextId)
  BY <1>4, <1>5, <1>6, <1>7
<1>9. /\ cat' = cat /\ order' = order /\ cats' = cats /\ place' = place
      /\ nextId' = nextId /\ req' = req /\ edits' = edits
  BY DEF OpenCategory, rowsVars, catVars
<1> QED
  BY <1>8, <1>9, PageTurned

LEMMA PageScrolled == ASSUME OInv, NextPage PROVE OInv'
<1>1. /\ page \in [cat : Own \union {NoCat}, rows : Seq(Ids)] /\ page.cat \in Own
      /\ \A k \in 1..Len(page.rows) : page.rows[k] < nextId
  BY DEF OInv, PageOK, NextPage
<1>2. PICK c \in Own, s \in Seq(Ids) : page = [cat |-> c, rows |-> s] /\ page.cat = c /\ page.rows = s
  BY <1>1
<1>3. PICK n : n = IF Len(Display(c)) < Len(s) + PageSize THEN Len(Display(c)) ELSE Len(s) + PageSize
  OBVIOUS
<1>4. Len(Display(c)) \in Nat /\ PageSize \in Nat \ {0} /\ Len(s) \in Nat /\ Len(s) < Len(Display(c))
  BY <1>2, OrderAssumptions, DisplaySeq DEF Own, NextPage
<1>5. n \in Nat /\ n <= Len(Display(c)) /\ Len(s) + 1 <= n + 1 /\ Len(s) + 1 \in Nat /\ Len(s) + 1 >= 1
  BY <1>3, <1>4
<1>6. PageOK([cat |-> c, rows |-> s \o SubSeq(Display(c), Len(s) + 1, n)], nextId)
  BY <1>1, <1>2, <1>5, PageGrows
<1>7. page' = [page EXCEPT !.rows = s \o SubSeq(Display(c), Len(s) + 1, n)]
  BY <1>2, <1>3 DEF NextPage
<1>8. page' = [cat |-> c, rows |-> s \o SubSeq(Display(c), Len(s) + 1, n)]
  BY <1>2, <1>7
<1>9. /\ cat' = cat /\ order' = order /\ cats' = cats /\ place' = place
      /\ nextId' = nextId /\ req' = req /\ edits' = edits
  BY DEF NextPage, rowsVars, catVars
<1> QED
  BY <1>6, <1>8, <1>9, PageTurned

LEMMA PageLeft == ASSUME OInv, LeavePage PROVE OInv'
  BY NoPageOK, PageTurned DEF LeavePage, rowsVars, catVars

-----------------------------------------------------------------------------
(* Dragging *)

NoRepeat(s) == \A j, k \in 1..Len(s) : s[j] = s[k] => j = k

Places(s, T) == {k \in 1..Len(s) : s[k] \in T}

LEMMA Elements == ASSUME NEW s \in Seq(Ids) PROVE ToSet(s) = {s[k] : k \in 1..Len(s)} /\ ToSet(s) \in SUBSET Ids
<1>1. DOMAIN s = 1..Len(s)
  OBVIOUS
<1>2. ToSet(s) = {s[k] : k \in 1..Len(s)}
  BY <1>1 DEF ToSet
<1>3. \A k \in 1..Len(s) : s[k] \in Ids
  OBVIOUS
<1> QED
  BY <1>2, <1>3

\* What is kept of a sequence: which elements, and where they were.
LEMMA Kept ==
    ASSUME NEW s \in Seq(Ids), NEW T
    PROVE  /\ Keep(s, T) \in Seq(Ids) /\ ToSet(Keep(s, T)) = ToSet(s) \intersect T
           /\ NoRepeat(s) => NoRepeat(Keep(s, T))
<1>1. PICK P : P = Places(s, T)
  OBVIOUS
<1>2. P \in SUBSET Nat /\ IsFiniteSet(P) /\ P \in SUBSET (1..Len(s))
  <2>1. Len(s) \in Nat
    OBVIOUS
  <2>2. P \in SUBSET (1..Len(s)) /\ IsFiniteSet(1..Len(s))
    BY <1>1, <2>1, FS_Interval DEF Places
  <2>3. IsFiniteSet(P)
    BY <2>2, FS_Subset
  <2> QED
    BY <2>1, <2>2, <2>3
<1>3. PICK n \in Nat : n = Cardinality(P)
  BY <1>2, FS_CardinalityType
<1>4. PICK t : t = Keep(s, T)
  OBVIOUS
<1>5. t = [k \in 1..n |-> s[NumberAt(P, k - 1)]]
  <2>1. {k \in DOMAIN s : s[k] \in T} = P
    BY <1>1 DEF Places
  <2> QED
    BY <1>3, <1>4, <2>1, KeepIs
<1>6. /\ \A k \in 0..n - 1 : NumberAt(P, k) \in P
      /\ \A k, l \in 0..n - 1 : k < l => NumberAt(P, k) < NumberAt(P, l)
      /\ \A i \in P : \E k \in 0..n - 1 : i = NumberAt(P, k)
  BY <1>2, <1>3, NumberRanks
<1>7. PICK w : w = [k \in 1..n |-> NumberAt(P, k - 1)]
  OBVIOUS
<1>8. ASSUME NEW k \in 1..n PROVE w[k] \in P /\ w[k] \in 1..Len(s) /\ t[k] = s[w[k]] /\ t[k] \in T
  <2>1. k - 1 \in 0..n - 1
    OBVIOUS
  <2>2. w[k] \in P
    BY <1>6, <1>7, <2>1
  <2> QED
    BY <1>1, <1>5, <1>7, <2>2 DEF Places
<1>9. ASSUME NEW i \in P PROVE \E k \in 1..n : i = w[k]
  <2>1. PICK k \in 0..n - 1 : i = NumberAt(P, k)
    BY <1>6
  <2>2. k + 1 \in 1..n /\ k + 1 - 1 = k
    OBVIOUS
  <2>3. w[k + 1] = i
    BY <1>7, <2>1, <2>2
  <2> QED
    BY <2>2, <2>3
<1>10. ASSUME NEW j \in 1..n, NEW k \in 1..n, w[j] = w[k] PROVE j = k
  <2>1. j - 1 \in 0..n - 1 /\ k - 1 \in 0..n - 1
    OBVIOUS
  <2>2. w[j] = NumberAt(P, j - 1) /\ w[k] = NumberAt(P, k - 1)
    BY <1>7
  <2>3. w[j] \in Nat /\ w[k] \in Nat
    BY <1>2, <1>8
  <2>4. ~(j - 1 < k - 1)
    <3>1. j - 1 < k - 1 => w[j] < w[k]
      BY <1>6, <2>1, <2>2
    <3> QED
      BY <1>10, <2>3, <3>1
  <2>5. ~(k - 1 < j - 1)
    <3>1. k - 1 < j - 1 => w[k] < w[j]
      BY <1>6, <2>1, <2>2
    <3> QED
      BY <1>10, <2>3, <3>1
  <2> QED
    BY <2>4, <2>5
<1>11. t \in Seq(Ids) /\ Len(t) = n
  <2>1. \A k \in 1..n : t[k] \in Ids
    BY <1>8
  <2>2. t \in [1..n -> Ids]
    BY <1>5, <2>1
  <2> QED
    BY <1>3, <2>2
<1>12. ToSet(t) = ToSet(s) \intersect T
  <2>1. ToSet(t) = {t[k] : k \in 1..n} /\ ToSet(s) = {s[k] : k \in 1..Len(s)}
    BY <1>11, Elements
  <2>2. \A x \in ToSet(t) : x \in ToSet(s) /\ x \in T
    BY <1>8, <2>1
  <2>3. ASSUME NEW x \in ToSet(s), x \in T PROVE x \in ToSet(t)
    <3>1. PICK i \in 1..Len(s) : x = s[i]
      BY <2>1
    <3>2. i \in P
      BY <1>1, <2>3, <3>1 DEF Places
    <3>3. PICK k \in 1..n : i = w[k]
      BY <1>9, <3>2
    <3> QED
      BY <1>8, <2>1, <3>1, <3>3
  <2> QED
    BY <2>2, <2>3
<1>13. NoRepeat(s) => NoRepeat(t)
  BY <1>8, <1>10, <1>11 DEF NoRepeat
<1> QED
  BY <1>4, <1>11, <1>12, <1>13

LEMMA Joined ==
    ASSUME NEW s \in Seq(Ids), NEW t \in Seq(Ids)
    PROVE  /\ s \o t \in Seq(Ids) /\ Len(s \o t) = Len(s) + Len(t)
           /\ \A k \in 1..Len(s) : (s \o t)[k] = s[k]
           /\ \A k \in 1..Len(t) : (s \o t)[Len(s) + k] = t[k]
           /\ \A k \in Len(s) + 1..Len(s) + Len(t) : (s \o t)[k] = t[k - Len(s)]
           /\ ToSet(s \o t) = ToSet(s) \union ToSet(t)
           /\ NoRepeat(s) /\ NoRepeat(t) /\ ToSet(s) \intersect ToSet(t) = {} => NoRepeat(s \o t)
<1>1. PICK u : u = s \o t
  OBVIOUS
<1>2. u \in Seq(Ids) /\ Len(u) = Len(s) + Len(t) /\ Len(s) \in Nat /\ Len(t) \in Nat
  BY <1>1, ConcatProperties
<1>3. \A k \in 1..Len(s) : u[k] = s[k]
  BY <1>1
<1>4. \A k \in 1..Len(t) : u[Len(s) + k] = t[k]
  BY <1>1
<1>5. ASSUME NEW k \in Len(s) + 1..Len(s) + Len(t) PROVE u[k] = t[k - Len(s)] /\ k - Len(s) \in 1..Len(t)
  <2>1. k - Len(s) \in 1..Len(t) /\ Len(s) + (k - Len(s)) = k
    BY <1>2
  <2> QED
    BY <1>4, <2>1
<1>6. \A k \in 1..Len(u) : k \in 1..Len(s) \/ k \in Len(s) + 1..Len(s) + Len(t)
  BY <1>2
<1>7. /\ ToSet(s) = {s[k] : k \in 1..Len(s)} /\ ToSet(t) = {t[k] : k \in 1..Len(t)}
      /\ ToSet(u) = {u[k] : k \in 1..Len(u)}
  BY <1>2, Elements
<1>8. ToSet(u) = ToSet(s) \union ToSet(t)
  <2>1. \A x \in ToSet(u) : x \in ToSet(s) \union ToSet(t)
    BY <1>3, <1>5, <1>6, <1>7
  <2>2. \A k \in 1..Len(s) : k \in 1..Len(u)
    BY <1>2
  <2>3. \A k \in 1..Len(t) : Len(s) + k \in 1..Len(u)
    BY <1>2
  <2>4. \A x \in ToSet(s) : x \in ToSet(u)
    BY <1>3, <1>7, <2>2
  <2>5. \A x \in ToSet(t) : x \in ToSet(u)
    BY <1>4, <1>7, <2>3
  <2> QED
    BY <2>1, <2>4, <2>5
<1>9. ASSUME NoRepeat(s), NoRepeat(t), ToSet(s) \intersect ToSet(t) = {},
             NEW j \in 1..Len(u), NEW k \in 1..Len(u), u[j] = u[k]
      PROVE  j = k
  <2>1. CASE j \in 1..Len(s) /\ k \in 1..Len(s)
    BY <1>3, <1>9, <2>1 DEF NoRepeat
  <2>2. CASE j \in Len(s) + 1..Len(s) + Len(t) /\ k \in Len(s) + 1..Len(s) + Len(t)
    <3>1. /\ u[j] = t[j - Len(s)] /\ u[k] = t[k - Len(s)]
          /\ j - Len(s) \in 1..Len(t) /\ k - Len(s) \in 1..Len(t)
      BY <1>5, <2>2
    <3>2. j - Len(s) = k - Len(s)
      BY <1>9, <3>1 DEF NoRepeat
    <3> QED
      BY <1>2, <3>2
  <2>3. CASE j \in 1..Len(s) /\ k \in Len(s) + 1..Len(s) + Len(t)
    BY <1>3, <1>5, <1>7, <1>9, <2>3
  <2>4. CASE k \in 1..Len(s) /\ j \in Len(s) + 1..Len(s) + Len(t)
    BY <1>3, <1>5, <1>7, <1>9, <2>4
  <2> QED
    BY <1>6, <2>1, <2>2, <2>3, <2>4
<1>10. NoRepeat(s) /\ NoRepeat(t) /\ ToSet(s) \intersect ToSet(t) = {} => NoRepeat(u)
  BY <1>9 DEF NoRepeat
<1> QED
  BY <1>1, <1>2, <1>3, <1>4, <1>5, <1>8, <1>10

\* A sequence cut in two.
LEMMA Cut ==
    ASSUME NEW s \in Seq(Ids), NEW at \in 1..Len(s)
    PROVE  /\ SubSeq(s, 1, at - 1) \in Seq(Ids) /\ SubSeq(s, at, Len(s)) \in Seq(Ids)
           /\ ToSet(SubSeq(s, 1, at - 1)) \union ToSet(SubSeq(s, at, Len(s))) = ToSet(s)
           /\ NoRepeat(s) => /\ NoRepeat(SubSeq(s, 1, at - 1)) /\ NoRepeat(SubSeq(s, at, Len(s)))
                             /\ ToSet(SubSeq(s, 1, at - 1)) \intersect ToSet(SubSeq(s, at, Len(s))) = {}
<1>1. PICK a : a = SubSeq(s, 1, at - 1)
  OBVIOUS
<1>2. PICK b : b = SubSeq(s, at, Len(s))
  OBVIOUS
<1>3. Len(s) \in Nat /\ at \in Nat /\ at >= 1 /\ at <= Len(s)
  OBVIOUS
<1>4. a \in Seq(Ids) /\ Len(a) = at - 1 /\ \A i \in 1..at - 1 : a[i] = s[i]
  <2>1. 1 \in Nat /\ at - 1 \in Nat /\ 1 >= 1 /\ 1 <= at - 1 + 1 /\ at - 1 <= Len(s)
    BY <1>3
  <2>2. /\ a \in Seq(Ids) /\ Len(a) = at - 1 - 1 + 1
        /\ \A i \in 1..at - 1 - 1 + 1 : a[i] = s[1 + i - 1]
    BY <1>1, <2>1, PartOfSeq
  <2>3. at - 1 - 1 + 1 = at - 1 /\ \A i \in 1..at - 1 : 1 + i - 1 = i
    BY <1>3
  <2> QED
    BY <2>2, <2>3
<1>5. b \in Seq(Ids) /\ Len(b) = Len(s) - at + 1 /\ \A i \in 1..Len(s) - at + 1 : b[i] = s[at + i - 1]
  <2>1. at <= Len(s) + 1 /\ Len(s) <= Len(s)
    BY <1>3
  <2> QED
    BY <1>2, <1>3, <2>1, PartOfSeq
<1>6. /\ ToSet(a) = {a[k] : k \in 1..Len(a)} /\ ToSet(b) = {b[k] : k \in 1..Len(b)}
      /\ ToSet(s) = {s[k] : k \in 1..Len(s)}
  BY <1>4, <1>5, Elements
<1>7. \A k \in 1..Len(a) : a[k] = s[k] /\ k \in 1..Len(s) /\ k < at
  BY <1>3, <1>4
<1>8. \A k \in 1..Len(b) : b[k] = s[at + k - 1] /\ at + k - 1 \in 1..Len(s) /\ at + k - 1 >= at
  BY <1>3, <1>5
<1>9. ToSet(a) \union ToSet(b) = ToSet(s)
  <2>1. \A x \in ToSet(a) : x \in ToSet(s)
    BY <1>6, <1>7
  <2>2. \A x \in ToSet(b) : x \in ToSet(s)
    BY <1>6, <1>8
  <2>3. ASSUME NEW k \in 1..Len(s) PROVE s[k] \in ToSet(a) \union ToSet(b)
    <3>1. CASE k < at
      <4>1. k \in 1..Len(a)
        BY <1>3, <1>4, <3>1
      <4> QED
        BY <1>6, <1>7, <4>1
    <3>2. CASE k >= at
      <4>1. k - at + 1 \in 1..Len(b) /\ at + (k - at + 1) - 1 = k
        BY <1>3, <1>5, <3>2
      <4> QED
        BY <1>6, <1>8, <4>1
    <3> QED
      BY <1>3, <3>1, <3>2
  <2> QED
    BY <1>6, <2>1, <2>2, <2>3
<1>10. ASSUME NoRepeat(s) PROVE NoRepeat(a) /\ NoRepeat(b) /\ ToSet(a) \intersect ToSet(b) = {}
  <2>1. NoRepeat(a)
    BY <1>7, <1>10 DEF NoRepeat
  <2>2. NoRepeat(b)
    <3>1. ASSUME NEW j \in 1..Len(b), NEW k \in 1..Len(b), b[j] = b[k] PROVE j = k
      <4>1. at + j - 1 = at + k - 1
        BY <1>8, <1>10, <3>1 DEF NoRepeat
      <4> QED
        BY <1>3, <4>1
    <3> QED
      BY <3>1 DEF NoRepeat
  <2>3. ASSUME NEW j \in 1..Len(a), NEW k \in 1..Len(b) PROVE a[j] # b[k]
    <3>1. a[j] = b[k] => j = at + k - 1
      BY <1>7, <1>8, <1>10 DEF NoRepeat
    <3>2. j # at + k - 1
      BY <1>3, <1>7, <1>8
    <3> QED
      BY <3>1, <3>2
  <2> QED
    BY <1>6, <2>1, <2>2, <2>3
<1> QED
  BY <1>1, <1>2, <1>4, <1>5, <1>9, <1>10

\* A block goes before a row of the rest, or to its end.
Splice(rest, block, at) == SubSeq(rest, 1, at - 1) \o block \o SubSeq(rest, at, Len(rest))

LEMMA Spliced ==
    ASSUME NEW rest \in Seq(Ids), NEW block \in Seq(Ids), NEW at \in 1..Len(rest)
    PROVE  /\ Splice(rest, block, at) \in Seq(Ids)
           /\ ToSet(Splice(rest, block, at)) = ToSet(rest) \union ToSet(block)
           /\ NoRepeat(rest) /\ NoRepeat(block) /\ ToSet(rest) \intersect ToSet(block) = {}
                => NoRepeat(Splice(rest, block, at))
<1>1. PICK a \in Seq(Ids), b \in Seq(Ids) : a = SubSeq(rest, 1, at - 1) /\ b = SubSeq(rest, at, Len(rest))
  BY Cut
<1>2. /\ ToSet(a) \union ToSet(b) = ToSet(rest)
      /\ NoRepeat(rest) => NoRepeat(a) /\ NoRepeat(b) /\ ToSet(a) \intersect ToSet(b) = {}
  BY <1>1, Cut
<1>3. PICK m \in Seq(Ids) :
        /\ m = a \o block /\ ToSet(m) = ToSet(a) \union ToSet(block)
        /\ NoRepeat(a) /\ NoRepeat(block) /\ ToSet(a) \intersect ToSet(block) = {} => NoRepeat(m)
  BY Joined
<1>4. /\ m \o b \in Seq(Ids) /\ ToSet(m \o b) = ToSet(m) \union ToSet(b)
      /\ NoRepeat(m) /\ NoRepeat(b) /\ ToSet(m) \intersect ToSet(b) = {} => NoRepeat(m \o b)
  BY Joined
<1>5. Splice(rest, block, at) = m \o b
  BY <1>1, <1>3 DEF Splice
<1> QED
  BY <1>2, <1>3, <1>4, <1>5

\* A drag reorders the rows it has and has each of them once if it had.
LEMMA Reordered ==
    ASSUME NEW rows \in Seq(Ids), NEW selected \in SUBSET ToSet(rows), NEW active \in ToSet(rows), NEW over
    PROVE  /\ ReorderBlock(rows, selected, active, over) \in Seq(Ids)
           /\ ToSet(ReorderBlock(rows, selected, active, over)) = ToSet(rows)
           /\ NoRepeat(rows) => NoRepeat(ReorderBlock(rows, selected, active, over))
<1>1. PICK moving : moving = IF active \in selected /\ Cardinality(selected) > 1 THEN selected ELSE {active}
  OBVIOUS
<1>2. PICK block : block = IF moving = {active} THEN <<active>> ELSE Keep(rows, moving)
  OBVIOUS
<1>3. PICK rest : rest = Keep(rows, ToSet(rows) \ moving)
  OBVIOUS
<1>4. PICK at : at = SelectInSeq(rest, LAMBDA i : i = over)
  OBVIOUS
<1>5. PICK u : u = ReorderBlock(rows, selected, active, over)
  OBVIOUS
<1>6. u = IF at = 0 THEN rest \o block ELSE SubSeq(rest, 1, at - 1) \o block \o SubSeq(rest, at, Len(rest))
  BY <1>1, <1>2, <1>3, <1>4, <1>5 DEF ReorderBlock
<1>7. moving \in SUBSET ToSet(rows) /\ active \in Ids
  BY <1>1, Elements
<1>8. block \in Seq(Ids) /\ ToSet(block) = moving /\ (NoRepeat(rows) => NoRepeat(block))
  <2>1. CASE moving = {active}
    <3>1. block = <<active>> /\ block \in Seq(Ids) /\ Len(block) = 1 /\ block[1] = active
      BY <1>2, <1>7, <2>1
    <3>2. ToSet(block) = {active}
      <4>1. ToSet(block) = {block[k] : k \in 1..1}
        BY <3>1, Elements
      <4>2. 1..1 = {1}
        OBVIOUS
      <4> QED
        BY <3>1, <4>1, <4>2
    <3>3. NoRepeat(block)
      BY <3>1 DEF NoRepeat
    <3> QED
      BY <2>1, <3>1, <3>2, <3>3
  <2>2. CASE moving # {active}
    <3>1. block = Keep(rows, moving)
      BY <1>2, <2>2
    <3> QED
      BY <1>7, <3>1, Kept
  <2> QED
    BY <2>1, <2>2
<1>9. rest \in Seq(Ids) /\ ToSet(rest) = ToSet(rows) \ moving /\ (NoRepeat(rows) => NoRepeat(rest))
  BY <1>3, Kept
<1>10. ToSet(rest) \union ToSet(block) = ToSet(rows) /\ ToSet(rest) \intersect ToSet(block) = {}
  BY <1>7, <1>8, <1>9
<1>11. at = 0 \/ at \in 1..Len(rest)
  <2>1. PICK I : I = {i \in 1..Len(rest) : rest[i] = over}
    OBVIOUS
  <2>2. I \in SUBSET Nat /\ I \in SUBSET (1..Len(rest))
    BY <1>9, <2>1
  <2>3. at = IF I # {} THEN Min(I) ELSE 0
    BY <1>4, <2>1 DEF SelectInSeq
  <2>4. I # {} => Min(I) \in I
    <3>1. ASSUME I # {} PROVE Min(I) \in I
      <4>1. PICK m \in I : \A n \in I : m <= n
        BY <2>2, <3>1, LeastNumber
      <4> QED
        BY <4>1 DEF Min
    <3> QED
      BY <3>1
  <2> QED
    BY <2>2, <2>3, <2>4
<1>12. u \in Seq(Ids) /\ ToSet(u) = ToSet(rest) \union ToSet(block)
       /\ (NoRepeat(rest) /\ NoRepeat(block) /\ ToSet(rest) \intersect ToSet(block) = {} => NoRepeat(u))
  <2>1. CASE at = 0
    <3>1. u = rest \o block
      BY <1>6, <2>1
    <3> QED
      BY <1>8, <1>9, <3>1, Joined
  <2>2. CASE at # 0
    <3>1. u = Splice(rest, block, at) /\ at \in 1..Len(rest)
      BY <1>6, <1>11, <2>2 DEF Splice
    <3>2. rest \in Seq(Ids) /\ block \in Seq(Ids)
      BY <1>8, <1>9
    <3> QED
      BY <3>1, <3>2, Spliced
  <2> QED
    BY <2>1, <2>2
<1> QED
  BY <1>5, <1>8, <1>9, <1>10, <1>12

\* The number a row gets is the index of one of its places.
LEMMA Renumbered ==
    ASSUME NEW items \in Seq(Ids), NEW i \in ToSet(items)
    PROVE  /\ Renumber(items, i) \in 0..Len(items) - 1
           /\ items[Renumber(items, i) + 1] = i
<1>1. PICK K : K = {k \in DOMAIN items : items[k] = i}
  OBVIOUS
<1>2. DOMAIN items = 1..Len(items) /\ Len(items) \in Nat
  OBVIOUS
<1>3. K \in SUBSET (1..Len(items)) /\ K \in SUBSET Int
  BY <1>1, <1>2
<1>4. IsFiniteSet(K)
  <2>1. IsFiniteSet(1..Len(items))
    BY <1>2, FS_Interval
  <2> QED
    BY <1>3, <2>1, FS_Subset
<1>5. K # {}
  BY <1>1, <1>2, Elements
<1>6. Max(K) \in K
  BY <1>3, <1>4, <1>5, MaxOf
<1>7. PICK m \in 1..Len(items) : m = Max(K) /\ items[m] = i
  BY <1>1, <1>3, <1>6
<1>8. Renumber(items, i) = m - 1
  BY <1>1, <1>7 DEF Renumber
<1> QED
  BY <1>2, <1>7, <1>8

LEMMA Dragged ==
    ASSUME OInv, NEW S \in SUBSET ToSet(page.rows), NEW i \in ToSet(page.rows), NEW j, Drag(S, i, j)
    PROVE  OInv'
<1>1. PICK rows \in Seq(Ids) : rows = page.rows
  BY DEF OInv, PageOK
<1>2. PICK items \in Seq(Ids) : items = ReorderBlock(rows, S, i, j)
  BY <1>1, Reordered
<1>3. /\ order' = [k \in Ids |-> IF k \in ToSet(items) /\ cat[k] = page.cat THEN Renumber(items, k) ELSE order[k]]
      /\ cat' = cat /\ cats' = cats /\ place' = place /\ nextId' = nextId /\ req' = req /\ page' = NoPage /\ Begins
  BY <1>1, <1>2 DEF Drag, catVars
<1>4. \A k \in ToSet(items) : Renumber(items, k) \in Nat
  BY Renumbered
<1>5. order' \in [Ids -> Nat]
  BY <1>3, <1>4, RowTypes
<1>6. RowsOK(cat', order', cats', place', nextId')
  BY <1>3, <1>5, RowTypes DEF RowsOK
<1>7. RequestsOK(req', cats', nextId')
  BY <1>3 DEF OInv
<1>8. PageOK(page', nextId')
  BY <1>3, NoPageOK
<1> QED
  BY <1>3, <1>6, <1>7, <1>8, BeginCounts DEF OInv

\* The categories as dragged: each of the playlist's once.
LEMMA CategoriesDragged ==
    ASSUME OInv, NEW items \in SetToSeqs(cats \ Foreign), DragCategories(items)
    PROVE  OInv'
<1>1. PICK C : C = cats \ Foreign
  OBVIOUS
<1>2. IsFiniteSet(C) /\ Cardinality(C) \in Nat
  BY <1>1, RowTypes, FS_Difference, FS_CardinalityType
<1>3. PICK f \in [1..Cardinality(C) -> C] : f = items /\ IsInjective(f)
  <2>1. items \in SetToSeqs(C)
    BY <1>1
  <2>2. /\ items \in [1..Cardinality(C) -> C]
        /\ \A a, b \in 1..Cardinality(C) : a # b => items[a] # items[b]
    BY <2>1 DEF SetToSeqs
  <2>3. IsInjective(items)
    BY <2>2 DEF IsInjective
  <2> QED
    BY <2>2, <2>3
<1>4. f \in Injection(1..Cardinality(C), C)
  BY <1>3 DEF Injection
<1>5. IsFiniteSet(1..Cardinality(C)) /\ Cardinality(1..Cardinality(C)) = Cardinality(C)
  BY <1>2, FS_Interval
<1>6. f \in Surjection(1..Cardinality(C), C)
  BY <1>2, <1>4, <1>5, FS_Injection
<1>7. ASSUME NEW c \in C PROVE (CHOOSE k \in DOMAIN items : items[k] = c) - 1 \in Nat
  <2>1. \E k \in 1..Cardinality(C) : f[k] = c
    BY <1>6 DEF Surjection
  <2>2. DOMAIN items = 1..Cardinality(C)
    BY <1>3
  <2>3. (CHOOSE k \in DOMAIN items : items[k] = c) \in 1..Cardinality(C)
    BY <1>3, <2>1, <2>2
  <2> QED
    BY <1>2, <2>3
<1>8. /\ place' = [c \in Cats |-> IF c \in C THEN (CHOOSE k \in DOMAIN items : items[k] = c) - 1 ELSE place[c]]
      /\ cat' = cat /\ order' = order /\ cats' = cats /\ nextId' = nextId /\ req' = req /\ page' = page /\ Begins
  BY <1>1 DEF DragCategories, rowsVars
<1>9. place' \in [Cats -> Nat]
  BY <1>7, <1>8, RowTypes
<1>10. RowsOK(cat', order', cats', place', nextId')
  BY <1>8, <1>9, RowTypes DEF RowsOK
<1>11. RequestsOK(req', cats', nextId') /\ PageOK(page', nextId')
  BY <1>8 DEF OInv
<1> QED
  BY <1>8, <1>10, <1>11, BeginCounts DEF OInv

-----------------------------------------------------------------------------
(* Types *)

LEMMA InsertStep == ASSUME OInv, Insert PROVE OInv'
<1>1. ASSUME NEW r \in Reqs, NEW mode \in Inserting, NEW ids \in NewIds, NEW to \in [ids -> Own],
             NEW known \in Known, InsertBegin(r, mode, ids, to, known)
      PROVE  OInv'
  <2>1. PICK n \in nextId..MaxId : ids = nextId..n
    BY DEF NewIds
  <2> QED
    BY <1>1, <2>1, InsertBegun
<1>2. ASSUME NEW r \in Reqs, InsertCommit(r) PROVE OInv'
  BY <1>2, InsertCommitted
<1>3. ASSUME NEW c \in Own, AddManualChannel(c) PROVE OInv'
  BY <1>3, InsertedAtDefault DEF AddManualChannel
<1>4. ASSUME NEW c \in Own, CreateCategory(c) PROVE OInv'
  BY <1>4, CategoryCreated
<1>5. ASSUME NEW c \in Own, NEW S \in SUBSET {i \in Ids : cat[i] # NoCat}, CopyChannels(S, c) PROVE OInv'
  <2>1. PICK T \in SUBSET Ids : T = S
    OBVIOUS
  <2>2. Cardinality(T) \in Nat
    BY IdsFinite
  <2> QED
    BY <1>5, <2>1, <2>2, InsertedAtDefault DEF CopyChannels
<1> QED
  BY <1>1, <1>2, <1>3, <1>4, <1>5 DEF Insert

LEMMA MoveOrDeleteStep == ASSUME OInv, MoveOrDelete PROVE OInv'
<1>1. ASSUME NEW c \in Own, NEW S, MoveChannels(S, c) PROVE OInv'
  BY <1>1, ChannelsMoved
<1>2. ASSUME NEW S, DeleteChannels(S) PROVE OInv'
  BY <1>2, ChannelsDeleted
<1>3. ASSUME NEW c \in Own, DeleteCategory(c) PROVE OInv'
  BY <1>3, CategoryDeleted
<1>4. ASSUME NEW r \in Reqs, NEW c \in Own, NEW from \in SUBSET cats, MergeBegin(r, c, from) PROVE OInv'
  BY <1>4, MergeBegun
<1>5. ASSUME NEW r \in Reqs, MergeCommit(r) \/ RequestFails(r) PROVE OInv'
  BY <1>5, MergeCommitted, RequestFailed
<1> QED
  BY <1>1, <1>2, <1>3, <1>4, <1>5 DEF MoveOrDelete

LEMMA RearrangeStep == ASSUME OInv, Rearrange PROVE OInv'
<1>1. ASSUME NEW r \in Reqs, NEW S \in SUBSET Present, SortBegin(r, S) PROVE OInv'
  <2>1. S \in SUBSET Ids
    BY DEF Present
  <2> QED
    BY <1>1, <2>1, SortBegun
<1>2. ASSUME NEW r \in Reqs, SortCommit(r) PROVE OInv'
  BY <1>2, SortCommitted
<1>3. ASSUME NEW c \in Own, OpenCategory(c) PROVE OInv'
  BY <1>3, CategoryOpened
<1>4. ASSUME NextPage \/ LeavePage PROVE OInv'
  BY <1>4, PageScrolled, PageLeft
<1>5. ASSUME NEW S \in SUBSET ToSet(page.rows), NEW i \in ToSet(page.rows), NEW j \in ToSet(page.rows),
             Drag(S, i, j)
      PROVE  OInv'
  BY <1>5, Dragged
<1>6. ASSUME NEW items \in SetToSeqs(cats \ Foreign), DragCategories(items) PROVE OInv'
  BY <1>6, CategoriesDragged
<1> QED
  BY <1>1, <1>2, <1>3, <1>4, <1>5, <1>6 DEF Rearrange

LEMMA OrderStep == OInv /\ [Next]_vars => OInv'
<1>1. OInv /\ Next => OInv'
  BY InsertStep, MoveOrDeleteStep, RearrangeStep DEF Next
<1>2. ASSUME OInv, UNCHANGED vars PROVE OInv'
  BY <1>2, PageTurned DEF vars, rowsVars, catVars, OInv
<1> QED
  BY <1>1, <1>2

LEMMA OrderInvariance == Spec => []OInv
  BY OrderInitially, OrderStep, PTL DEF Spec

(* Whatever is imported, moved, merged, sorted, dragged and deleted, and in
   whatever order its requests read and commit: every channel is in a
   category that is there, and its id has been given out. *)
THEOREM OrderTypeCorrect == Spec => []TypeOK
  BY OrderInvariance, OrderTypes, PTL

-----------------------------------------------------------------------------
(* What a merge keeps *)

MergeKeeps ==
    \A r \in Reqs : MergeCommit(r) => \A i \in Ids :
      /\ cat[i] # NoCat /\ cat'[i] = NoCat => req[r].sawCat[i] # cat[i]
      /\ req[r].sawCat[i] \in req[r].drop /\ cat[i] # NoCat => cat'[i] \in cats' \ req[r].drop

LEMMA MergeKeepsStep == OInv /\ [Next]_vars => MergeKeeps
<1> SUFFICES ASSUME OInv, NEW r \in Reqs, MergeCommit(r), NEW i \in Ids
             PROVE  /\ cat[i] # NoCat /\ cat'[i] = NoCat => req[r].sawCat[i] # cat[i]
                    /\ req[r].sawCat[i] \in req[r].drop /\ cat[i] # NoCat => cat'[i] \in cats' \ req[r].drop
  BY DEF MergeKeeps
<1>1. req[r].rows = {j \in Ids : req[r].sawCat[j] \in req[r].drop}
  BY DEF OInv, RequestsOK, RequestOK, MergeCommit, MergeOK
<1>2. NoCat \notin cats
  BY RowTypes, OrderAssumptions
<1>3. CASE i \in req[r].rows /\ cat[i] # NoCat
  <2>1. cat'[i] \in cats /\ cat'[i] \notin req[r].drop
    BY <1>3, MergeMoves
  <2>2. cats' = cats \ (req[r].drop \ Foreign)
    BY MergeMoves
  <2> QED
    BY <1>2, <2>1, <2>2
<1>4. CASE ~(i \in req[r].rows /\ cat[i] # NoCat) /\ cat[i] \in Dropped(r)
  <2>1. cat[i] \in req[r].drop /\ cat[i] # NoCat
    BY <1>2, <1>4 DEF Dropped
  <2> QED
    BY <1>1, <1>4, <2>1
<1>5. CASE ~(i \in req[r].rows /\ cat[i] # NoCat) /\ cat[i] \notin Dropped(r)
  <2>1. cat'[i] = cat[i]
    BY <1>5, MergeMoves
  <2> QED
    BY <1>1, <1>5, <2>1
<1> QED
  BY <1>3, <1>4, <1>5

(* A merge deletes no channel it saw in a category it drops: it moves those,
   wherever they are by then, to its target, which stays.  What it deletes
   had come into a dropped category after it looked. *)
THEOREM MergeKeepsAlways == Spec => MergeKeepsWhatItSaw
<1>1. Spec => [][MergeKeeps]_vars
  BY OrderInvariance, MergeKeepsStep, PTL DEF Spec
<1> QED
  BY <1>1 DEF MergeKeepsWhatItSaw, MergeKeeps

-----------------------------------------------------------------------------
(* Where what is new is shown *)

ChannelsLast ==
    \A r \in Reqs : InsertCommit(r) =>
      \A n \in req[r].rows, i \in Ids \ req[r].rows :
        /\ cat[i] = req[r].to[n] /\ req[r].sawCat[i] = cat[i]
        /\ req[r].sawOrder[i] = order[i]
        => /\ order'[i] < order'[n] \/ (order'[i] = 0 /\ order'[n] = 0)
           /\ BeforeIn(order', i, n)

LEMMA ChannelsLastStep == OInv /\ [Next]_vars => ChannelsLast
<1> SUFFICES ASSUME OInv, NEW r \in Reqs, InsertCommit(r), NEW n \in req[r].rows, NEW i \in Ids \ req[r].rows,
                    cat[i] = req[r].to[n], req[r].sawCat[i] = cat[i], req[r].sawOrder[i] = order[i]
             PROVE  order'[i] < order'[n] \/ (order'[i] = 0 /\ order'[n] = 0 /\ i < n)
  BY DEF ChannelsLast, BeforeIn
<1>1. InsertOK(req[r], cats) /\ req[r] \in Requests
  BY DEF InsertCommit, OInv, RequestsOK, RequestOK
<1>2. req[r].sawOrder[i] < req[r].order[n] \/ (req[r].sawOrder[i] = 0 /\ req[r].order[n] = 0 /\ i < n)
  BY <1>1 DEF InsertOK
<1>3. n \in Ids
  BY <1>1, RequestFields
<1>4. order'[i] = order[i] /\ order'[n] = req[r].order[n]
  BY <1>3 DEF InsertCommit
<1> QED
  BY <1>2, <1>4

(* What an import or a sync inserts gets a higher number than every channel of
   the category that is where the import saw it, whoever has written since, or
   both have 0: then the editor still shows it below, a player may not. *)
THEOREM ChannelsAlwaysLast == Spec => NewChannelsComeLast
<1>1. Spec => [][ChannelsLast]_vars
  BY OrderInvariance, ChannelsLastStep, PTL DEF Spec
<1> QED
  BY <1>1 DEF NewChannelsComeLast, ChannelsLast

CategoriesLast ==
    \A r \in Reqs : InsertCommit(r) /\ req[r].op = "per_category" =>
      \A c, d \in req[r].make, e \in (req[r].sawCats \cap cats) \ Foreign :
        /\ Rank[c] < Rank[d] => place'[c] < place'[d]
        /\ OnlyOne(e, req[r].sawCats) /\ place[e] = req[r].sawPlace[e] => place'[e] < place'[c]

LEMMA CategoriesLastStep == OInv /\ [Next]_vars => CategoriesLast
<1> SUFFICES ASSUME OInv, NEW r \in Reqs, InsertCommit(r), req[r].op = "per_category",
                    NEW c \in req[r].make, NEW d \in req[r].make,
                    NEW e \in (req[r].sawCats \cap cats) \ Foreign
             PROVE  /\ Rank[c] < Rank[d] => place'[c] < place'[d]
                    /\ OnlyOne(e, req[r].sawCats) /\ place[e] = req[r].sawPlace[e]
                         => place'[e] < place'[c]
  BY DEF CategoriesLast
<1>1. InsertOK(req[r], cats) /\ req[r] \in Requests
  BY DEF InsertCommit, OInv, RequestsOK, RequestOK
<1>2. /\ Rank[c] < Rank[d] => req[r].place[c] < req[r].place[d]
      /\ OnlyOne(e, req[r].sawCats) => req[r].sawPlace[e] < req[r].place[c]
      /\ req[r].make \intersect req[r].sawCats = {}
  BY <1>1 DEF InsertOK
<1>3. c \in Cats /\ d \in Cats /\ e \in Cats /\ e \notin req[r].make
  BY <1>1, <1>2, RequestFields, RowTypes DEF Own
<1>4. place'[c] = req[r].place[c] /\ place'[d] = req[r].place[d] /\ place'[e] = place[e]
  BY <1>3 DEF InsertCommit
<1> QED
  BY <1>2, <1>4

(* The categories a per-category import makes come below those of the
   playlist that are where it saw them and alone in their name, in the
   provider's order. *)
THEOREM CategoriesAlwaysLast == Spec => NewCategoriesComeLast
<1>1. Spec => [][CategoriesLast]_vars
  BY OrderInvariance, CategoriesLastStep, PTL DEF Spec
<1> QED
  BY <1>1 DEF NewCategoriesComeLast, CategoriesLast

-----------------------------------------------------------------------------
(* What a drag shows *)

LEMMA DisplayNext == ASSUME NEW c PROVE Display(c)' = DisplayOf(order', Members(c)')
  BY DEF Display, DisplayOf, At, AtIn, Position, RankIn, Before

LEMMA HowMany ==
    ASSUME NEW n \in Nat, NEW S, NEW f \in [1..n -> S],
           \A j, k \in 1..n : f[j] = f[k] => j = k, \A x \in S : \E k \in 1..n : x = f[k]
    PROVE  IsFiniteSet(S) /\ Cardinality(S) = n
<1>1. IsFiniteSet(1..n) /\ Cardinality(1..n) = n
  BY FS_Interval
<1>2. f \in Surjection(1..n, S)
  BY DEF Surjection
<1>3. IsFiniteSet(S) /\ Cardinality(S) <= n /\ (Cardinality(S) = n <=> f \in Injection(1..n, S))
  BY <1>1, <1>2, FS_Surjection
<1>4. f \in Injection(1..n, S)
  BY DEF Injection, IsInjective
<1> QED
  BY <1>3, <1>4

\* A list of a category's channels in their order is how they are shown.
LEMMA InOrder ==
    ASSUME NEW o \in [Ids -> Nat], NEW S \in SUBSET Ids, NEW E \in [1..Cardinality(S) -> S],
           \A j, k \in 1..Cardinality(S) : j < k => BeforeIn(o, E[j], E[k])
    PROVE  E = DisplayOf(o, S)
<1>1. PICK n \in Nat : n = Cardinality(S) /\ IsFiniteSet(S)
  BY IdsFinite
<1>2. /\ \A i, j \in S : BeforeIn(o, i, j) <=> RankIn(o, S, i) < RankIn(o, S, j)
      /\ \A i \in S : RankIn(o, S, i) \in 0..n - 1
  BY <1>1, OrderRanks
<1>3. ASSUME NEW j \in 1..n, NEW k \in 1..n PROVE j < k <=> BeforeIn(o, E[j], E[k])
  <2>1. E[j] \in S /\ E[k] \in S
    BY <1>1
  <2>2. ~BeforeIn(o, E[j], E[k]) \/ ~BeforeIn(o, E[k], E[j])
    BY <1>2, <2>1
  <2>3. j = k => ~BeforeIn(o, E[j], E[k])
    BY <2>2
  <2>4. j < k \/ j = k \/ k < j
    OBVIOUS
  <2> QED
    BY <1>1, <2>2, <2>3, <2>4
<1>4. ASSUME NEW j \in 1..n, NEW k \in 1..n, E[j] = E[k] PROVE j = k
  <2>1. ~BeforeIn(o, E[j], E[k]) /\ ~BeforeIn(o, E[k], E[j])
    <3>1. E[j] \in S
      BY <1>1
    <3> QED
      BY <1>2, <1>4, <3>1
  <2> QED
    BY <1>3, <2>1
<1>5. E \in Injection(1..n, S)
  BY <1>1, <1>4 DEF Injection, IsInjective
<1>6. IsFiniteSet(1..n) /\ Cardinality(1..n) = n
  BY <1>1, FS_Interval
<1>7. E \in Surjection(1..n, S)
  BY <1>1, <1>5, <1>6, FS_Injection
<1>8. ASSUME NEW k \in 1..n PROVE E[k] = DisplayOf(o, S)[k]
  <2>1. PICK A : A = {x \in S : BeforeIn(o, x, E[k])}
    OBVIOUS
  <2>2. k - 1 \in Nat /\ \A l \in 1..k - 1 : l \in 1..n /\ l < k
    BY <1>1
  <2>3. PICK g : g = [l \in 1..k - 1 |-> E[l]]
    OBVIOUS
  <2>4. g \in [1..k - 1 -> A] /\ \A j, l \in 1..k - 1 : g[j] = g[l] => j = l
    BY <1>1, <1>3, <1>4, <2>1, <2>2, <2>3
  <2>5. ASSUME NEW x \in A PROVE \E l \in 1..k - 1 : x = g[l]
    <3>1. PICK l \in 1..n : x = E[l]
      BY <1>7, <2>1 DEF Surjection
    <3>2. l < k
      BY <1>3, <2>1, <3>1
    <3>3. l \in 1..k - 1
      BY <1>1, <3>2
    <3> QED
      BY <2>3, <3>1, <3>3
  <2>6. Cardinality(A) = k - 1
    BY <2>2, <2>4, <2>5, HowMany
  <2>7. PICK x \in S : x = E[k] /\ RankIn(o, S, x) = k - 1
    BY <1>1, <2>1, <2>6 DEF RankIn
  <2>8. PICK y \in S : y = DisplayOf(o, S)[k] /\ RankIn(o, S, y) = k - 1
    BY ZenonT(40), <1>1, Displayed
  <2>9. \A a, b \in S : RankIn(o, S, a) = RankIn(o, S, b) => a = b
    BY OrderRanks
  <2> QED
    BY <2>7, <2>8, <2>9
<1>9. DisplayOf(o, S) \in [1..n -> S]
  BY <1>1, Displayed
<1> QED
  BY <1>1, <1>8, <1>9

\* Without ties the k-th of a category has at least the number k - 1.
LEMMA NoTies ==
    ASSUME NEW o \in [Ids -> Nat], NEW S \in SUBSET Ids, \A i, j \in S : i # j => o[i] # o[j], NEW i \in S
    PROVE  RankIn(o, S, i) <= o[i]
<1>1. PICK A \in SUBSET S : A = {j \in S : BeforeIn(o, j, i)}
  OBVIOUS
<1>2. PICK n \in Nat : n = o[i]
  BY IdsFinite
<1>3. PICK T : T = 0..n - 1
  OBVIOUS
<1>4. IsFiniteSet(T) /\ Cardinality(T) = n
  <2>1. IsFiniteSet(0..n - 1) /\ Cardinality(0..n - 1) = IF 0 > n - 1 THEN 0 ELSE n - 1 - 0 + 1
    BY FS_Interval
  <2> QED
    BY <1>3, <2>1
<1>5. PICK f : f = [j \in A |-> o[j]]
  OBVIOUS
<1>6. ASSUME NEW j \in A PROVE o[j] \in T
  <2>2. BeforeIn(o, j, i) /\ j \in S /\ j \in Nat /\ i \in Nat
    BY <1>1, IdNumbers
  <2>3. o[j] \in Nat /\ j # i
    BY <2>2, <1>2 DEF BeforeIn
  <2>4. o[j] < n
    BY <1>2, <2>2, <2>3 DEF BeforeIn
  <2> QED
    BY <1>3, <2>3, <2>4
<1>7. f \in Injection(A, T)
  BY <1>1, <1>5, <1>6 DEF Injection, IsInjective
<1>8. Cardinality(A) <= n
  BY <1>4, <1>7, FS_Injection
<1> QED
  BY <1>1, <1>2, <1>8 DEF RankIn

LEMMA LengthOfSet ==
    ASSUME NEW s \in Seq(Ids), NoRepeat(s)
    PROVE  Cardinality(ToSet(s)) = Len(s)
<1>1. PICK n \in Nat : n = Len(s)
  OBVIOUS
<1>2. ToSet(s) = {s[k] : k \in 1..n}
  BY <1>1, Elements
<1>3. s \in [1..n -> ToSet(s)]
  BY <1>1, <1>2
<1>4. \A j, k \in 1..n : s[j] = s[k] => j = k
  BY <1>1 DEF NoRepeat
<1>5. \A x \in ToSet(s) : \E k \in 1..n : x = s[k]
  BY <1>2
<1> QED
  BY <1>1, <1>3, <1>4, <1>5, HowMany

LEMMA DragShows ==
    ASSUME OInv, NEW S \in SUBSET ToSet(page.rows), NEW i \in ToSet(page.rows), NEW j \in ToSet(page.rows),
           Drag(S, i, j), NEW c \in Own, page.cat = c, DistinctOrders(c), IsPrefix(page.rows, Display(c))
    PROVE  Display(c)' = ReorderBlock(page.rows, S, i, j) \o
                           SubSeq(Display(c), Len(page.rows) + 1, Len(Display(c)))
<1>1. PICK rows \in Seq(Ids) : rows = page.rows
  BY DEF OInv, PageOK
<1>2. PICK M \in SUBSET Ids : M = Members(c)
  BY DEF Members
<1>3. PICK n \in Nat : n = Cardinality(M)
  BY IdsFinite
<1>4. PICK D : D = Display(c) /\ D = DisplayOf(order, M)
  BY <1>2, DisplayIs
<1>5. order \in [Ids -> Nat] /\ \A x, y \in M : x # y => order[x] # order[y]
  BY <1>2, RowTypes DEF DistinctOrders
<1>6. /\ D \in [1..n -> M] /\ \A k \in 1..n : RankIn(order, M, D[k]) = k - 1
      /\ \A k, l \in 1..n : k < l <=> BeforeIn(order, D[k], D[l])
  <2>1. /\ DisplayOf(order, M) \in [1..Cardinality(M) -> M]
        /\ \A k \in 1..Cardinality(M) : RankIn(order, M, DisplayOf(order, M)[k]) = k - 1
        /\ \A k, l \in 1..Cardinality(M) :
             k < l <=> BeforeIn(order, DisplayOf(order, M)[k], DisplayOf(order, M)[l])
    BY <1>5, Displayed
  <2>2. Cardinality(M) = n /\ DisplayOf(order, M) = D
    BY <1>3, <1>4
  <2> QED
    BY <2>1, <2>2
<1>7. D \in Seq(Ids) /\ Len(D) = n
  BY <1>2, <1>3, <1>6
<1>8. \A k, l \in 1..n : D[k] = D[l] => k = l
  <2>1. ASSUME NEW k \in 1..n, NEW l \in 1..n, D[k] = D[l] PROVE k = l
    <3>1. k - 1 = l - 1
      BY <1>6, <2>1
    <3> QED
      BY <3>1
  <2> QED
    BY <2>1
<1>9. PICK m \in Nat : m = Len(rows)
  BY <1>1
<1>10. m <= n /\ \A k \in 1..m : k \in 1..n /\ rows[k] = D[k]
  <2>1. m <= n /\ SubSeq(rows, 1, m) = SubSeq(D, 1, m)
    BY <1>1, <1>4, <1>7, <1>9 DEF IsPrefix
  <2>2. /\ 1 \in Nat /\ 1 >= 1 /\ 1 <= m + 1 /\ m <= Len(rows) /\ m <= Len(D)
        /\ \A k \in 1..m : k \in 1..m - 1 + 1 /\ 1 + k - 1 = k
    BY <1>7, <1>9, <2>1
  <2>3. \A k \in 1..m - 1 + 1 : SubSeq(rows, 1, m)[k] = rows[1 + k - 1]
    BY <2>2, PartOfSeq
  <2>4. \A k \in 1..m - 1 + 1 : SubSeq(D, 1, m)[k] = D[1 + k - 1]
    BY <1>7, <2>2, PartOfSeq
  <2>5. ASSUME NEW k \in 1..m PROVE k \in 1..n /\ rows[k] = D[k]
    BY <2>1, <2>2, <2>3, <2>4
  <2> QED
    BY <2>1, <2>5
<1>11. NoRepeat(rows)
  BY <1>8, <1>9, <1>10 DEF NoRepeat
<1>12. PICK items \in Seq(Ids) :
         items = ReorderBlock(rows, S, i, j) /\ ToSet(items) = ToSet(rows) /\ NoRepeat(items)
  BY <1>1, <1>11, Reordered
<1>13. Len(items) = m
  BY <1>9, <1>11, <1>12, LengthOfSet
<1>14. ToSet(rows) = {rows[k] : k \in 1..m} /\ ToSet(items) = {items[k] : k \in 1..m}
  BY <1>9, <1>12, <1>13, Elements
<1>15. \A k \in 1..m : items[k] \in ToSet(items) /\ items[k] \in M
  <2>1. \A k \in 1..m : rows[k] \in M
    BY <1>6, <1>10
  <2>2. \A x \in ToSet(rows) : x \in M
    BY <1>14, <2>1
  <2> QED
    BY <1>12, <1>14, <2>2
<1>16. ASSUME NEW k \in 1..n, k > m PROVE D[k] \notin ToSet(items)
  BY <1>8, <1>10, <1>12, <1>14, <1>16
<1>17. PICK o : o = order'
  OBVIOUS
<1>18. /\ o = [x \in Ids |-> IF x \in ToSet(items) /\ cat[x] = c THEN Renumber(items, x) ELSE order[x]]
       /\ cat' = cat
  BY <1>1, <1>12, <1>17 DEF Drag
<1>19. o \in [Ids -> Nat]
  <2>1. \A x \in ToSet(items) : Renumber(items, x) \in Nat
    BY Renumbered
  <2> QED
    BY <1>5, <1>18, <2>1
<1>20. ASSUME NEW k \in 1..m PROVE o[items[k]] = k - 1
  <2>1. items[k] \in Ids /\ items[k] \in ToSet(items) /\ cat[items[k]] = c
    BY <1>2, <1>15 DEF Members
  <2>2. PICK q \in Int : q = Renumber(items, items[k]) /\ q + 1 \in 1..m /\ items[q + 1] = items[k]
    <3>1. Renumber(items, items[k]) \in 0..m - 1 /\ items[Renumber(items, items[k]) + 1] = items[k]
      BY <1>13, <2>1, Renumbered
    <3> QED
      BY <3>1
  <2>3. q + 1 = k
    BY <1>12, <1>13, <2>2 DEF NoRepeat
  <2> QED
    BY <1>18, <2>1, <2>2, <2>3
<1>21. ASSUME NEW k \in 1..n, k > m PROVE o[D[k]] = order[D[k]] /\ k - 1 <= o[D[k]]
  <2>1. D[k] \in M /\ D[k] \in Ids
    BY <1>6
  <2>2. o[D[k]] = order[D[k]]
    BY <1>16, <1>18, <1>21, <2>1
  <2>3. RankIn(order, M, D[k]) <= order[D[k]]
    BY <1>5, <2>1, NoTies
  <2> QED
    BY <1>6, <2>2, <2>3
<1>22. PICK e \in Seq(Ids) : /\ e = SubSeq(D, m + 1, n) /\ Len(e) = n - m
                             /\ \A k \in 1..n - m : e[k] = D[m + k]
  <2>1. m + 1 \in Nat /\ m + 1 >= 1 /\ m + 1 <= n + 1 /\ n <= Len(D)
    BY <1>7, <1>10
  <2>2. /\ SubSeq(D, m + 1, n) \in Seq(Ids) /\ Len(SubSeq(D, m + 1, n)) = n - (m + 1) + 1
        /\ \A k \in 1..n - (m + 1) + 1 : SubSeq(D, m + 1, n)[k] = D[m + 1 + k - 1]
    BY <1>7, <2>1, PartOfSeq
  <2>3. n - (m + 1) + 1 = n - m
    OBVIOUS
  <2>4. ASSUME NEW k \in 1..n - m PROVE SubSeq(D, m + 1, n)[k] = D[m + k]
    <3>1. k \in 1..n - (m + 1) + 1 /\ m + 1 + k - 1 = m + k
      BY <2>3
    <3> QED
      BY <2>2, <3>1
  <2>5. SubSeq(D, m + 1, n) \in Seq(Ids) /\ Len(SubSeq(D, m + 1, n)) = n - m
    BY <2>2, <2>3
  <2> QED
    BY <2>4, <2>5
<1>23. PICK E \in Seq(Ids) : E = items \o e
  BY Joined
<1>24. /\ Len(E) = n /\ \A k \in 1..m : E[k] = items[k]
       /\ \A k \in 1..n : k > m => E[k] = D[k]
  <2>1. Len(E) = n /\ \A k \in 1..m : E[k] = items[k]
    <3>1. Len(E) = Len(items) + Len(e) /\ \A k \in 1..Len(items) : E[k] = items[k]
      BY <1>23, Joined
    <3>2. m + (n - m) = n
      OBVIOUS
    <3> QED
      BY <1>13, <1>22, <3>1, <3>2
  <2>2. ASSUME NEW k \in 1..n, k > m PROVE E[k] = D[k]
    <3>1. k \in Len(items) + 1..Len(items) + Len(e) /\ k - m \in 1..n - m /\ m + (k - m) = k
      BY <1>13, <1>22, <2>2
    <3>2. E[k] = e[k - Len(items)]
      BY <1>23, <3>1, Joined
    <3>3. e[k - m] = D[m + (k - m)]
      BY <1>22, <3>1
    <3> QED
      BY <1>13, <3>1, <3>2, <3>3
  <2> QED
    BY <2>1, <2>2
<1>25. E \in [1..n -> M]
  <2>1. ASSUME NEW k \in 1..n PROVE E[k] \in M
    <3>1. CASE k <= m
      <4>1. k \in 1..m
        BY <3>1
      <4> QED
        BY <1>15, <1>24, <4>1
    <3>2. CASE k > m
      BY <1>6, <1>24, <3>2
    <3> QED
      BY <3>1, <3>2
  <2>2. E \in [1..n -> Ids]
    BY <1>24
  <2> QED
    BY <2>1, <2>2
<1>26. ASSUME NEW k \in 1..n, NEW l \in 1..n, k < l PROVE BeforeIn(o, E[k], E[l])
  <2>1. CASE l <= m
    <3>1. k \in 1..m /\ l \in 1..m
      BY <1>26, <2>1
    <3>2. o[E[k]] = k - 1 /\ o[E[l]] = l - 1
      BY <1>20, <1>24, <3>1
    <3> QED
      BY <1>26, <3>2 DEF BeforeIn
  <2>2. CASE k <= m /\ l > m
    <3>1. k \in 1..m
      BY <2>2
    <3>2. o[E[k]] = k - 1 /\ l - 1 <= o[E[l]]
      BY <1>20, <1>21, <1>24, <2>2, <3>1
    <3>3. o[E[l]] \in Nat
      BY <1>19, <1>25
    <3> QED
      BY <2>2, <3>2, <3>3 DEF BeforeIn
  <2>3. CASE k > m
    <3>1. l > m
      BY <1>26, <2>3
    <3>2. E[k] = D[k] /\ E[l] = D[l] /\ o[D[k]] = order[D[k]] /\ o[D[l]] = order[D[l]]
      BY <1>21, <1>24, <2>3, <3>1
    <3>3. BeforeIn(order, D[k], D[l])
      BY <1>6, <1>26
    <3> QED
      BY <3>2, <3>3 DEF BeforeIn
  <2> QED
    BY <2>1, <2>2, <2>3
<1>27. E = DisplayOf(o, M)
  BY <1>3, <1>19, <1>25, <1>26, InOrder
<1>28. Members(c)' = M
  BY <1>2, <1>18 DEF Members
<1>29. Display(c)' = DisplayOf(o, M)
  BY <1>17, <1>28, DisplayNext
<1> QED
  BY <1>1, <1>4, <1>7, <1>9, <1>12, <1>22, <1>23, <1>27, <1>29

DragShown ==
    page # NoPage /\ page' = NoPage /\ edits' # edits =>
       \A c \in Own, S \in SUBSET ToSet(page.rows), i, j \in ToSet(page.rows) :
         /\ Drag(S, i, j)
         /\ page.cat = c
         /\ DistinctOrders(c)
         /\ IsPrefix(page.rows, Display(c))
         => Display(c)' = ReorderBlock(page.rows, S, i, j) \o
                            SubSeq(Display(c), Len(page.rows) + 1, Len(Display(c)))

LEMMA DragShownStep == OInv /\ [Next]_vars => DragShown
  BY DragShows DEF DragShown

(* "renumbering just that prefix 0..N-1 can never collide with an unloaded
   channel": the rows the browser had loaded are shown as they were dropped,
   whatever block of them was dragged, and the rows below them are shown
   after them as they were, however few pages were loaded. *)
THEOREM DragAlwaysMovesOnlyLoaded == Spec => DragMovesOnlyLoaded
<1>1. Spec => [][DragShown]_vars
  BY OrderInvariance, DragShownStep, PTL DEF Spec
<1> QED
  BY <1>1 DEF DragMovesOnlyLoaded, DragShown

-----------------------------------------------------------------------------
(* What a sort shows *)

\* Which channel's place each channel of c has after the sort.
PlaceOf(o, M, i) == IF i \in M THEN SlotOf(o, M, i) ELSE i

EachTaken(o, M, C) == \A k \in C : \E i \in C : PlaceOf(o, M, i) = k

LEMMA PlacesTaken ==
    ASSUME NEW o \in [Ids -> Nat], NEW M \in SUBSET Ids, NEW C \in SUBSET Ids, M \in SUBSET C
    PROVE  /\ \A i \in C : PlaceOf(o, M, i) \in C /\ (PlaceOf(o, M, i) \in M <=> i \in M)
           /\ EachTaken(o, M, C)
<1>1. \A i \in M : SlotOf(o, M, i) \in M
  BY Slots
<1>2. \A k \in M : \E i \in M : k = SlotOf(o, M, i)
  BY Slots
<1>3. ASSUME NEW i \in C PROVE PlaceOf(o, M, i) \in C /\ (PlaceOf(o, M, i) \in M <=> i \in M)
  BY <1>1 DEF PlaceOf
<1>4. ASSUME NEW k \in C PROVE \E i \in C : PlaceOf(o, M, i) = k
  BY <1>2 DEF PlaceOf
<1> QED
  BY <1>3, <1>4 DEF EachTaken

LEMMA SortMoves ==
    ASSUME OInv, NEW r \in Reqs, SortCommit(r), NEW c \in Own, NEW mine,
           mine = {i \in req[r].rows : req[r].sawCat[i] = c},
           \A i \in mine : cat[i] = c /\ order[i] = req[r].sawOrder[i],
           req[r].rows \cap Members(c) \subseteq mine
    PROVE  /\ mine \in SUBSET Members(c)
           /\ order' \in [Ids -> Nat]
           /\ \A i \in Members(c) : order'[i] = order[PlaceOf(req[r].sawOrder, mine, i)]
<1>1. PICK x \in Requests : x = req[r]
  BY RowTypes
<1>2. SortOK(x) /\ x.rows \in SUBSET Ids /\ x.sawOrder \in [Ids -> Nat] /\ x.order \in [Ids -> Nat]
  <2>1. RequestOK(x, cats, nextId) /\ x.op = "sort"
    BY <1>1 DEF OInv, RequestsOK, SortCommit
  <2> QED
    BY <2>1, RequestFields DEF RequestOK
<1>3. mine \in SUBSET Ids /\ mine \in SUBSET Members(c)
  BY <1>1, <1>2 DEF Members
<1>4. order' = [i \in Ids |-> IF i \in x.rows /\ x.order[i] # x.sawOrder[i] /\ cat[i] # NoCat
                              THEN x.order[i] ELSE order[i]]
  BY <1>1 DEF SortCommit
<1>5. order' \in [Ids -> Nat]
  BY <1>2, <1>4, RowTypes
<1>6. NoCat # c
  BY OrderAssumptions DEF Own
<1>7. ASSUME NEW i \in mine PROVE order'[i] = order[PlaceOf(x.sawOrder, mine, i)]
  <2>1. i \in x.rows /\ i \in Ids /\ cat[i] = c /\ order[i] = x.sawOrder[i]
    BY <1>1, <1>3
  <2>2. Mates(x, i) = mine
    BY <1>1 DEF Mates
  <2>3. x.order[i] = x.sawOrder[SlotOf(x.sawOrder, mine, i)]
    BY <1>2, <2>1, <2>2 DEF SortOK, SlotOf
  <2>4. SlotOf(x.sawOrder, mine, i) \in mine
    <3>1. PICK o \in [Ids -> Nat], M \in SUBSET Ids : o = x.sawOrder /\ M = mine
      BY <1>2, <1>3
    <3>2. \A k \in M : SlotOf(o, M, k) \in M
      BY Slots
    <3> QED
      BY <3>1, <3>2
  <2>5. x.order[i] = order[SlotOf(x.sawOrder, mine, i)]
    BY <1>1, <2>3, <2>4
  <2>6. order'[i] = x.order[i]
    BY <1>4, <1>6, <2>1
  <2> QED
    BY <2>5, <2>6 DEF PlaceOf
<1>8. ASSUME NEW i \in Members(c), i \notin mine PROVE order'[i] = order[PlaceOf(x.sawOrder, mine, i)]
  <2>1. i \notin x.rows /\ i \in Ids
    BY <1>1, <1>8 DEF Members
  <2> QED
    BY <1>4, <1>8, <2>1 DEF PlaceOf
<1> QED
  BY <1>1, <1>3, <1>5, <1>7, <1>8

\* Each channel of C has with p the number its f had with o, none of them twice.
Trade(o, p, C, f) ==
    /\ \A i \in C : p[i] = o[f[i]]
    /\ \A k \in C : \E i \in C : f[i] = k
    /\ \A i, j \in C : i # j => o[i] # o[j]

ShownTraded(o, p, C, f) == \A k \in 1..Cardinality(C) : f[DisplayOf(p, C)[k]] = DisplayOf(o, C)[k]

\* A category whose channels trade places by f is shown as f says.
LEMMA Traded ==
    ASSUME NEW o \in [Ids -> Nat], NEW p \in [Ids -> Nat], NEW C \in SUBSET Ids, NEW f \in [C -> C],
           Trade(o, p, C, f)
    PROVE  ShownTraded(o, p, C, f)
<1>0. /\ \A i \in C : p[i] = o[f[i]]
      /\ \A k \in C : \E i \in C : f[i] = k
      /\ \A i, j \in C : i # j => o[i] # o[j]
  BY DEF Trade
<1>1. PICK n \in Nat : n = Cardinality(C)
  BY IdsFinite
<1>2. PICK D : D = DisplayOf(o, C)
  OBVIOUS
<1>3. D \in [1..n -> C] /\ \A j, k \in 1..n : j < k <=> BeforeIn(o, D[j], D[k])
  <2>1. /\ DisplayOf(o, C) \in [1..Cardinality(C) -> C]
        /\ \A j, k \in 1..Cardinality(C) : j < k <=> BeforeIn(o, DisplayOf(o, C)[j], DisplayOf(o, C)[k])
    BY Displayed
  <2> QED
    BY <1>1, <1>2, <2>1
<1>4. PICK E : E = [k \in 1..n |-> CHOOSE i \in C : f[i] = D[k]]
  OBVIOUS
<1>5. ASSUME NEW k \in 1..n PROVE E[k] \in C /\ f[E[k]] = D[k]
  <2>1. \E i \in C : f[i] = D[k]
    BY <1>0, <1>3
  <2> QED
    BY <1>4, <2>1
<1>6. E \in [1..n -> C]
  BY <1>4, <1>5
<1>7. ASSUME NEW j \in 1..n, NEW k \in 1..n, j < k PROVE BeforeIn(p, E[j], E[k])
  <2>1. p[E[j]] = o[D[j]] /\ p[E[k]] = o[D[k]]
    BY <1>0, <1>5
  <2>2. BeforeIn(o, D[j], D[k]) /\ ~BeforeIn(o, D[k], D[j])
    BY <1>3, <1>7
  <2>3. D[j] \in C /\ D[k] \in C
    BY <1>3
  <2>4. D[j] # D[k]
    BY <2>2
  <2>5. o[D[j]] # o[D[k]]
    BY <1>0, <2>3, <2>4
  <2> QED
    BY <2>1, <2>2, <2>5 DEF BeforeIn
<1>8. E = DisplayOf(p, C)
  BY ZenonT(40), <1>1, <1>6, <1>7, InOrder
<1> QED
  BY <1>1, <1>2, <1>5, <1>8 DEF ShownTraded

LEMMA SortShows ==
    ASSUME OInv, NEW r \in Reqs, SortCommit(r), NEW c \in Own, NEW mine,
           mine = {i \in req[r].rows : req[r].sawCat[i] = c},
           \A i \in mine : cat[i] = c /\ order[i] = req[r].sawOrder[i],
           req[r].rows \cap Members(c) \subseteq mine,
           DistinctOrders(c)
    PROVE  /\ \A k \in DOMAIN Display(c) :
                Display(c)[k] \notin mine => Display(c)'[k] = Display(c)[k]
           /\ \A j, k \in DOMAIN Display(c)' :
                j < k /\ {Display(c)'[j], Display(c)'[k]} \subseteq mine
                  => ByName(Display(c)'[j], Display(c)'[k])
<1>1. PICK so \in [Ids -> Nat] : so = req[r].sawOrder
  BY RowTypes, RequestFields
<1>2. PICK C \in SUBSET Ids : C = Members(c)
  BY DEF Members
<1>3. PICK p \in [Ids -> Nat] : p = order' /\ \A i \in C : p[i] = order[PlaceOf(so, mine, i)]
  <2>1. order' \in [Ids -> Nat] /\ \A i \in Members(c) : order'[i] = order[PlaceOf(req[r].sawOrder, mine, i)]
    BY SortMoves
  <2>2. \A i \in C : order'[i] = order[PlaceOf(so, mine, i)]
    BY <1>1, <1>2, <2>1
  <2> QED
    BY <2>1, <2>2
<1>4. mine \in SUBSET C
  BY <1>2, SortMoves
<1>5. /\ \A i \in C : PlaceOf(so, mine, i) \in C /\ (PlaceOf(so, mine, i) \in mine <=> i \in mine)
      /\ \A k \in C : \E i \in C : PlaceOf(so, mine, i) = k
  <2>1. PICK M \in SUBSET Ids : M = mine
    BY <1>4
  <2>2. M \in SUBSET C
    BY <1>4, <2>1
  <2>3. \A i \in C : PlaceOf(so, M, i) \in C /\ (PlaceOf(so, M, i) \in M <=> i \in M)
    BY <2>2, PlacesTaken
  <2>4. EachTaken(so, M, C)
    BY <2>2, PlacesTaken
  <2>5. \A k \in C : \E i \in C : PlaceOf(so, M, i) = k
    BY <2>4 DEF EachTaken
  <2> QED
    BY <2>1, <2>3, <2>5
<1>6. PICK f \in [C -> C] : f = [i \in C |-> PlaceOf(so, mine, i)]
  BY <1>5
<1>7. /\ \A i \in C : p[i] = order[f[i]] /\ (f[i] \in mine <=> i \in mine)
      /\ \A k \in C : \E i \in C : f[i] = k
  BY <1>3, <1>5, <1>6
<1>8. order \in [Ids -> Nat] /\ \A i, j \in C : i # j => order[i] # order[j]
  BY <1>2, RowTypes DEF DistinctOrders
<1>9. PICK n \in Nat : n = Cardinality(C)
  BY IdsFinite
<1>10. PICK D : D = DisplayOf(order, C)
  OBVIOUS
<1>11. PICK E : E = DisplayOf(p, C)
  OBVIOUS
<1>12. \A k \in 1..n : f[E[k]] = D[k]
  <2>1. PICK o \in [Ids -> Nat] : o = order
    BY <1>8
  <2>2. Trade(o, p, C, f)
    BY <1>7, <1>8, <2>1 DEF Trade
  <2>3. ShownTraded(o, p, C, f)
    BY <2>2, Traded
  <2> QED
    BY <1>9, <1>10, <1>11, <2>1, <2>3 DEF ShownTraded
<1>13. /\ D \in [1..n -> C] /\ E \in [1..n -> C]
       /\ \A j, k \in 1..n : j < k <=> BeforeIn(order, D[j], D[k])
  <2>1. DisplayOf(p, C) \in [1..Cardinality(C) -> C]
    BY Displayed
  <2>2. /\ DisplayOf(order, C) \in [1..Cardinality(C) -> C]
        /\ \A j, k \in 1..Cardinality(C) : j < k <=> BeforeIn(order, DisplayOf(order, C)[j], DisplayOf(order, C)[k])
    BY <1>8, Displayed
  <2> QED
    BY <1>9, <1>10, <1>11, <2>1, <2>2
<1>14. Display(c) = D
  BY <1>2, <1>10, DisplayIs
<1>15. Members(c)' = C
  <2>1. cat' = cat
    BY DEF SortCommit
  <2> QED
    BY <1>2, <2>1 DEF Members
<1>16. Display(c)' = E
  BY <1>3, <1>11, <1>15, DisplayNext
<1>17. ASSUME NEW k \in 1..n, D[k] \notin mine PROVE E[k] = D[k]
  <2>1. E[k] \in C /\ f[E[k]] = D[k]
    BY <1>12, <1>13
  <2>2. E[k] \notin mine
    BY <1>7, <1>17, <2>1
  <2> QED
    BY <1>6, <2>1, <2>2 DEF PlaceOf
<1>18. ASSUME NEW j \in 1..n, NEW k \in 1..n, j < k, E[j] \in mine, E[k] \in mine PROVE ByName(E[j], E[k])
  <2>1. PICK a \in mine, b \in mine : a = E[j] /\ b = E[k]
    BY <1>18
  <2>2. f[a] = SlotOf(so, mine, a) /\ f[b] = SlotOf(so, mine, b) /\ f[a] = D[j] /\ f[b] = D[k]
    BY <1>4, <1>6, <1>12, <2>1 DEF PlaceOf
  <2>3. BeforeIn(order, f[a], f[b])
    BY <1>13, <1>18, <2>2
  <2>4. f[a] \in mine /\ f[b] \in mine
    BY <1>4, <1>7
  <2>5. BeforeIn(so, f[a], f[b])
    BY <1>1, <2>3, <2>4 DEF BeforeIn
  <2>6. mine \in SUBSET Ids
    BY <1>4
  <2>7. ByName(a, b) <=> BeforeIn(so, SlotOf(so, mine, a), SlotOf(so, mine, b))
    BY <2>6, Slots
  <2> QED
    BY <2>1, <2>2, <2>5, <2>7
<1>19. DOMAIN D = 1..n /\ DOMAIN E = 1..n
  BY <1>13
<1> QED
  BY <1>14, <1>16, <1>17, <1>18, <1>19

SortShown ==
    \A r \in Reqs, c \in Own :
      /\ SortCommit(r) /\ c \in cats
      /\ \A i \in SortedIn(r, c) : cat[i] = c /\ order[i] = req[r].sawOrder[i]
      /\ req[r].rows \cap Members(c) \subseteq SortedIn(r, c)
      /\ DistinctOrders(c)
      => /\ \A k \in DOMAIN Display(c) :
              Display(c)[k] \notin SortedIn(r, c) => Display(c)'[k] = Display(c)[k]
         /\ \A j, k \in DOMAIN Display(c)' :
              j < k /\ {Display(c)'[j], Display(c)'[k]} \subseteq SortedIn(r, c)
                => ByName(Display(c)'[j], Display(c)'[k])

LEMMA SortShownStep == OInv /\ [Next]_vars => SortShown
  BY SortShows DEF SortShown, SortedIn

(* "the selected channels take the places they already hold, in name order":
   for any selection, over any number of categories, the k-th place of a
   category is held by the same channel as before unless it was selected,
   and the selected ones are in name order. *)
THEOREM SortAlwaysStaysInPlace == Spec => SortStaysInPlace
<1>1. Spec => [][SortShown]_vars
  BY OrderInvariance, SortShownStep, PTL DEF Spec
<1> QED
  BY <1>1 DEF SortStaysInPlace, SortShown
=============================================================================
