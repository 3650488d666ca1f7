--------------------------- MODULE SetSums_proofs ---------------------------
(***************************************************************************)
(* What the aggregates of the models compute: the greatest and least       *)
(* element of a finite set of integers, and the sum of its elements.       *)
(*                                                                         *)
(* The sum is a fold, defined by recursion over the subsets of the set.    *)
(* The library's induction theorems take a predicate as a parameter; here  *)
(* induction is instead an argument about a minimal counterexample, a set  *)
(* of sets, which the library shows to exist.                              *)
(***************************************************************************)
EXTENDS Integers, FiniteSets, FiniteSetsExt, FiniteSetTheorems, TLAPS

\* Among the bad subsets of a finite set, one has no bad proper subset.
LEMMA MinimalSubset ==
    ASSUME NEW S, IsFiniteSet(S), NEW Bad \in SUBSET (SUBSET S), Bad # {}
    PROVE  \E T \in Bad : \A U \in SUBSET T : U # T => U \notin Bad
<1>1. IsWellFoundedOn(StrictSubsetOrdering(S), SUBSET S)
  BY FS_FiniteSubsetsOfFinite, FS_StrictSubsetOrderingWellFounded
<1>2. PICK T \in Bad : \A U \in Bad : <<U, T>> \notin StrictSubsetOrdering(S)
  BY <1>1, WFMin
<1>3. ASSUME NEW U \in SUBSET T, U # T PROVE U \notin Bad
  BY <1>2, <1>3 DEF StrictSubsetOrdering
<1> QED
  BY <1>3

\* Among bad numbers there is a least one.
LEMMA LeastNumber ==
    ASSUME NEW Bad \in SUBSET Nat, Bad # {}
    PROVE  \E n \in Bad : \A m \in Bad : n <= m
<1>1. PICK n \in Bad : \A m \in Bad : <<m, n>> \notin OpToRel(<, Nat)
  BY NatLessThanWellFounded, WFMin
<1>2. ASSUME NEW m \in Bad PROVE n <= m
  <2>1. n \in Nat /\ m \in Nat /\ ~(m < n)
    BY <1>1 DEF OpToRel
  <2> QED
    BY <2>1
<1> QED
  BY <1>2

-----------------------------------------------------------------------------
(* The greatest and the least element *)

LEMMA GreatestExists ==
    ASSUME NEW S \in SUBSET Int, IsFiniteSet(S), S # {}
    PROVE  \E x \in S : \A y \in S : x >= y
<1> DEFINE Bad == {U \in SUBSET S : U # {} /\ ~ \E x \in U : \A y \in U : x >= y}
<1> SUFFICES ASSUME Bad # {} PROVE FALSE
  OBVIOUS
<1>1. PICK T \in Bad : \A U \in SUBSET T : U # T => U \notin Bad
  <2>1. Bad \in SUBSET (SUBSET S)
    OBVIOUS
  <2> HIDE DEF Bad
  <2> QED
    BY <2>1, MinimalSubset
<1>2. PICK x \in T : TRUE
  BY <1>1
<1>3. CASE T \ {x} = {}
  BY <1>1, <1>2, <1>3
<1>4. CASE T \ {x} # {}
  <2>1. T \ {x} \notin Bad
    BY <1>1, <1>2
  <2>2. PICK m \in T \ {x} : \A y \in T \ {x} : m >= y
    BY <2>1, <1>1, <1>4
  <2>3. m \in Int /\ x \in Int /\ T \subseteq Int
    BY <1>1, <1>2, <2>2
  <2>4. CASE m >= x
    BY <2>2, <2>4, <1>1
  <2>5. CASE x > m
    <3>1. \A y \in T : x >= y
      BY <2>2, <2>3, <2>5
    <3> QED
      BY <3>1, <1>1, <1>2
  <2> QED
    BY <2>3, <2>4, <2>5
<1> QED
  BY <1>3, <1>4

\* Max is the greatest element.
LEMMA MaxOf ==
    ASSUME NEW S \in SUBSET Int, IsFiniteSet(S), S # {}
    PROVE  Max(S) \in S /\ \A y \in S : Max(S) >= y
BY GreatestExists DEF Max

LEMMA ImageFinite ==
    ASSUME NEW S, IsFiniteSet(S), NEW f
    PROVE  IsFiniteSet({f[x] : x \in S})
<1>1. PICK T : T = {f[x] : x \in S}
  OBVIOUS
<1>2. PICK g : g = [x \in S |-> f[x]]
  OBVIOUS
<1>3. g \in Surjection(S, T)
  BY <1>1, <1>2 DEF Surjection
<1> QED
  BY <1>1, <1>3, FS_Surjection

-----------------------------------------------------------------------------
(* The sum *)

Chosen(s) == CHOOSE x \in s : TRUE

\* The function the fold is computed with.
IsSumming(g, T) == g = [s \in SUBSET T |-> IF s = {} THEN 0 ELSE Chosen(s) + g[s \ {Chosen(s)}]]
Summing(T)      == CHOOSE g : IsSumming(g, T)
Total(T)        == Summing(T)[T]

LEMMA SumIsTotal == ASSUME NEW S PROVE SumSet(S) = Total(S)
  BY DEF SumSet, FoldSet, MapThenFoldSet, Summing, IsSumming, Chosen, Total

LEMMA FirstIn == ASSUME NEW s, s # {} PROVE Chosen(s) \in s
  BY DEF Chosen

LEMMA SummingAgree ==
    ASSUME NEW A, NEW B, NEW f, NEW g, IsSumming(f, A), IsSumming(g, B),
           NEW S, IsFiniteSet(S), S \subseteq A, S \subseteq B
    PROVE  f[S] = g[S]
<1> DEFINE Bad == {U \in SUBSET S : f[U] # g[U]}
<1> SUFFICES ASSUME Bad # {} PROVE FALSE
  OBVIOUS
<1>1. PICK T \in Bad : \A U \in SUBSET T : U # T => U \notin Bad
  <2>1. Bad \in SUBSET (SUBSET S)
    OBVIOUS
  <2> HIDE DEF Bad
  <2> QED
    BY <2>1, MinimalSubset
<1>2. T \in SUBSET A /\ T \in SUBSET B /\ T \in SUBSET S
  BY <1>1
<1>3. CASE T = {}
  <2>1. f[T] = 0 /\ g[T] = 0
    BY <1>2, <1>3 DEF IsSumming
  <2> QED
    BY <2>1, <1>1
<1>4. CASE T # {}
  <2>1. Chosen(T) \in T
    BY <1>4, FirstIn
  <2>2. f[T] = Chosen(T) + f[T \ {Chosen(T)}] /\ g[T] = Chosen(T) + g[T \ {Chosen(T)}]
    BY <1>2, <1>4 DEF IsSumming
  <2>3. T \ {Chosen(T)} \in SUBSET T /\ T \ {Chosen(T)} # T
    BY <2>1
  <2>4. f[T \ {Chosen(T)}] = g[T \ {Chosen(T)}]
    BY <2>3, <1>1, <1>2
  <2> QED
    BY <2>2, <2>4, <1>1
<1> QED
  BY <1>3, <1>4

LEMMA SummingExists ==
    ASSUME NEW S, IsFiniteSet(S)
    PROVE  IsSumming(Summing(S), S)
<1> DEFINE Bad == {U \in SUBSET S : ~ \E g : IsSumming(g, U)}
<1>1. SUFFICES ASSUME Bad # {} PROVE FALSE
  BY DEF Summing
<1>2. PICK T \in Bad : \A U \in SUBSET T : U # T => U \notin Bad
  <2>1. Bad \in SUBSET (SUBSET S)
    OBVIOUS
  <2> HIDE DEF Bad
  <2> QED
    BY <1>1, <2>1, MinimalSubset
<1>3. \A U \in SUBSET T : U # T => IsSumming(Summing(U), U)
  <2> SUFFICES ASSUME NEW U \in SUBSET T, U # T PROVE IsSumming(Summing(U), U)
    OBVIOUS
  <2>1. \E g : IsSumming(g, U)
    BY <1>2
  <2> QED
    BY <2>1 DEF Summing
<1> DEFINE Value(s) == IF s = {} THEN 0 ELSE Chosen(s) + Total(s \ {Chosen(s)})
           g == [s \in SUBSET T |-> IF s = T THEN Value(T) ELSE Total(s)]
<1>4. \A U \in SUBSET T : U # T => Total(U) = Value(U)
  <2> SUFFICES ASSUME NEW U \in SUBSET T, U # T PROVE Total(U) = Value(U)
    OBVIOUS
  <2>1. IsSumming(Summing(U), U)
    BY <1>3
  <2>2. CASE U = {}
    BY <2>1, <2>2 DEF IsSumming, Total
  <2>3. CASE U # {}
    <3> DEFINE V == U \ {Chosen(U)}
    <3>1. Chosen(U) \in U
      BY <2>3, FirstIn
    <3>2. V \in SUBSET U /\ V \in SUBSET T /\ V # T
      BY <3>1
    <3>3. IsSumming(Summing(V), V)
      BY <3>2, <1>3
    <3>4. IsFiniteSet(V)
      BY <3>2, <1>2, FS_Subset
    <3>5. Summing(U)[V] = Summing(V)[V]
      BY <2>1, <3>2, <3>3, <3>4, SummingAgree
    <3>6. Summing(U)[U] = Chosen(U) + Summing(U)[V]
      BY <2>1, <2>3 DEF IsSumming
    <3> QED
      BY <3>5, <3>6, <2>3 DEF Total
  <2> QED
    BY <2>2, <2>3
<1>5. IsSumming(g, T)
  <2>1. ASSUME NEW s \in SUBSET T
        PROVE  g[s] = IF s = {} THEN 0 ELSE Chosen(s) + g[s \ {Chosen(s)}]
    <3>1. g[s] = Value(s)
      BY <1>4
    <3>2. CASE s = {}
      BY <3>1, <3>2
    <3>3. CASE s # {}
      <4>1. Chosen(s) \in s
        BY <3>3, FirstIn
      <4>2. s \ {Chosen(s)} \in SUBSET T /\ s \ {Chosen(s)} # T
        BY <4>1
      <4>3. g[s \ {Chosen(s)}] = Total(s \ {Chosen(s)})
        BY <4>2
      <4> QED
        BY <3>1, <3>3, <4>3
    <3> QED
      BY <3>2, <3>3
  <2>2. g = [s \in SUBSET T |-> g[s]]
    OBVIOUS
  <2> HIDE DEF g
  <2> QED
    BY <2>1, <2>2 DEF IsSumming
<1> QED
  BY <1>2, <1>5

\* The equation of the fold.
LEMMA SumStep ==
    ASSUME NEW S, IsFiniteSet(S)
    PROVE  /\ S = {} => SumSet(S) = 0
           /\ S # {} => Chosen(S) \in S /\ SumSet(S) = Chosen(S) + SumSet(S \ {Chosen(S)})
<1>1. IsSumming(Summing(S), S)
  BY SummingExists
<1>2. ASSUME S = {} PROVE SumSet(S) = 0
  BY <1>1, <1>2, SumIsTotal DEF IsSumming, Total
<1>3. ASSUME S # {} PROVE Chosen(S) \in S /\ SumSet(S) = Chosen(S) + SumSet(S \ {Chosen(S)})
  <2> DEFINE V == S \ {Chosen(S)}
  <2>1. Chosen(S) \in S
    BY <1>3, FirstIn
  <2>2. IsFiniteSet(V)
    BY FS_RemoveElement
  <2>3. IsSumming(Summing(V), V)
    BY <2>2, SummingExists
  <2>4. Summing(S)[V] = Summing(V)[V]
    BY <1>1, <2>2, <2>3, SummingAgree
  <2>5. Summing(S)[S] = Chosen(S) + Summing(S)[V]
    BY <1>1, <1>3 DEF IsSumming
  <2> QED
    BY <2>1, <2>4, <2>5, SumIsTotal DEF Total
<1> QED
  BY <1>2, <1>3

LEMMA SumType ==
    ASSUME NEW S \in SUBSET Int, IsFiniteSet(S)
    PROVE  SumSet(S) \in Int
<1> DEFINE Bad == {U \in SUBSET S : SumSet(U) \notin Int}
<1> SUFFICES ASSUME Bad # {} PROVE FALSE
  OBVIOUS
<1>1. PICK T \in Bad : \A U \in SUBSET T : U # T => U \notin Bad
  <2>1. Bad \in SUBSET (SUBSET S)
    OBVIOUS
  <2> HIDE DEF Bad
  <2> QED
    BY <2>1, MinimalSubset
<1>2. IsFiniteSet(T) /\ T \subseteq Int /\ T \in SUBSET S
  BY <1>1, FS_Subset
<1>3. T # {} /\ ~(SumSet(T) \in Int)
  <2>1. ~(SumSet(T) \in Int)
    BY <1>1
  <2>2. T = {} => SumSet(T) = 0
    BY <1>2, SumStep
  <2> QED
    BY <2>1, <2>2
<1>4. Chosen(T) \in T /\ SumSet(T) = Chosen(T) + SumSet(T \ {Chosen(T)})
  BY <1>2, <1>3, SumStep
<1>5. T \ {Chosen(T)} \in SUBSET T /\ T \ {Chosen(T)} # T
  BY <1>4
<1>6. SumSet(T \ {Chosen(T)}) \in Int
  BY <1>1, <1>2, <1>5
<1>7. Chosen(T) \in Int
  BY <1>2, <1>4
<1> QED
  BY <1>3, <1>4, <1>6, <1>7

\* Any element may be taken out first.
LEMMA SumRemove ==
    ASSUME NEW S \in SUBSET Int, IsFiniteSet(S), NEW x \in S
    PROVE  SumSet(S) = x + SumSet(S \ {x})
<1> DEFINE Bad == {U \in SUBSET S : \E y \in U : SumSet(U) # y + SumSet(U \ {y})}
<1> SUFFICES ASSUME Bad # {} PROVE FALSE
  <2> QED
    OBVIOUS
<1>1. PICK T \in Bad : \A U \in SUBSET T : U # T => U \notin Bad
  <2>1. Bad \in SUBSET (SUBSET S)
    OBVIOUS
  <2> HIDE DEF Bad
  <2> QED
    BY <2>1, MinimalSubset
<1>2. PICK y \in T : SumSet(T) # y + SumSet(T \ {y})
  BY <1>1
<1>3. IsFiniteSet(T) /\ T \subseteq Int /\ T \in SUBSET S
  BY <1>1, FS_Subset
<1> DEFINE f == Chosen(T)
<1>4. f \in T /\ SumSet(T) = f + SumSet(T \ {f})
  BY <1>2, <1>3, SumStep
<1>5. f # y
  BY <1>2, <1>4
<1>6. SumSet(T \ {f}) = y + SumSet((T \ {f}) \ {y})
  <2>1. T \ {f} \in SUBSET T /\ T \ {f} # T /\ y \in T \ {f}
    BY <1>2, <1>4, <1>5
  <2> QED
    BY <2>1, <1>1, <1>3
<1>7. SumSet(T \ {y}) = f + SumSet((T \ {y}) \ {f})
  <2>1. T \ {y} \in SUBSET T /\ T \ {y} # T /\ f \in T \ {y}
    BY <1>2, <1>4, <1>5
  <2> QED
    BY <2>1, <1>1, <1>3
<1>8. (T \ {f}) \ {y} = (T \ {y}) \ {f}
  OBVIOUS
<1>9. PICK rest : rest = SumSet((T \ {y}) \ {f}) /\ rest \in Int
  <2>1. IsFiniteSet((T \ {y}) \ {f}) /\ (T \ {y}) \ {f} \in SUBSET Int
    BY <1>3, FS_RemoveElement
  <2> QED
    BY <2>1, SumType
<1>10. f \in Int /\ y \in Int
  BY <1>2, <1>3, <1>4
<1> QED
  BY <1>2, <1>4, <1>6, <1>7, <1>8, <1>9, <1>10

\* The sums of disjoint sets add up.
LEMMA SumUnion ==
    ASSUME NEW C \in SUBSET Int, IsFiniteSet(C), NEW D \in SUBSET Int, IsFiniteSet(D), C \intersect D = {}
    PROVE  SumSet(C \union D) = SumSet(C) + SumSet(D)
<1> DEFINE Bad == {U \in SUBSET D : SumSet(C \union U) # SumSet(C) + SumSet(U)}
<1> SUFFICES ASSUME Bad # {} PROVE FALSE
  OBVIOUS
<1>1. PICK T \in Bad : \A U \in SUBSET T : U # T => U \notin Bad
  <2>1. Bad \in SUBSET (SUBSET D)
    OBVIOUS
  <2> HIDE DEF Bad
  <2> QED
    BY <2>1, MinimalSubset
<1>2. IsFiniteSet(T) /\ T \subseteq Int /\ T \in SUBSET D
  BY <1>1, FS_Subset
<1>3. SumSet(C) \in Int
  BY SumType
<1>4. CASE T = {}
  <2>1. SumSet(T) = 0 /\ C \union T = C
    <3>1. SumSet(T) = 0
      BY <1>2, <1>4, SumStep
    <3> QED
      BY <3>1, <1>4
  <2>2. SumSet(C \union T) # SumSet(C) + SumSet(T)
    BY <1>1
  <2>3. SumSet(C \union T) = SumSet(C)
    BY <2>1, Zenon
  <2> QED
    BY <2>1, <2>2, <2>3, <1>3
<1>5. CASE T # {}
  <2>1. PICK x \in T : TRUE
    BY <1>5
  <2> DEFINE V == T \ {x}
  <2>2. V \in SUBSET T /\ V # T /\ IsFiniteSet(V) /\ V \in SUBSET Int
    BY <2>1, <1>2, FS_RemoveElement
  <2>3. SumSet(C \union V) = SumSet(C) + SumSet(V)
    BY <2>2, <1>1, <1>2
  <2>4. SumSet(T) = x + SumSet(V)
    BY <1>2, <2>1, SumRemove
  <2>5. SumSet(C \union T) = x + SumSet(C \union V)
    <3>1. IsFiniteSet(C \union T) /\ C \union T \in SUBSET Int /\ x \in C \union T
      BY <1>2, <2>1, FS_Union
    <3>2. (C \union T) \ {x} = C \union V
      BY <1>2, <2>1
    <3> QED
      BY <3>1, <3>2, SumRemove
  <2>6. SumSet(V) \in Int /\ x \in Int
    BY <2>1, <2>2, <1>2, SumType
  <2> QED
    BY <2>3, <2>4, <2>5, <2>6, <1>1, <1>3
<1> QED
  BY <1>4, <1>5

\* As many numbers, all of them greater, have a greater sum.
LEMMA SumGrows ==
    ASSUME NEW D \in SUBSET Int, IsFiniteSet(D), D # {}, NEW I \in SUBSET Int, IsFiniteSet(I),
           Cardinality(D) = Cardinality(I), \A d \in D, i \in I : d < i
    PROVE  SumSet(D) < SumSet(I)
<1> DEFINE Bad == {U \in SUBSET D : U # {} /\ \E W \in SUBSET I : Cardinality(U) = Cardinality(W) /\ ~(SumSet(U) < SumSet(W))}
<1> SUFFICES ASSUME Bad # {} PROVE FALSE
  OBVIOUS
<1>1. PICK T \in Bad : \A U \in SUBSET T : U # T => U \notin Bad
  <2>1. Bad \in SUBSET (SUBSET D)
    OBVIOUS
  <2> HIDE DEF Bad
  <2> QED
    BY <2>1, MinimalSubset
<1>2. PICK W \in SUBSET I : Cardinality(T) = Cardinality(W) /\ ~(SumSet(T) < SumSet(W))
  BY <1>1
<1>3. IsFiniteSet(T) /\ T \subseteq Int /\ T \in SUBSET D /\ T # {}
  BY <1>1, FS_Subset
<1>4. IsFiniteSet(W) /\ W \subseteq Int
  BY <1>2, FS_Subset
<1>5. PICK d \in T : d \in Int
  BY <1>3
<1>6. W # {}
  BY <1>2, <1>3, <1>4, FS_EmptySet
<1>7. PICK i \in W : i \in Int /\ d < i
  BY <1>3, <1>4, <1>5, <1>6
<1> DEFINE U == T \ {d}
           V == W \ {i}
<1>8. /\ IsFiniteSet(U) /\ U \in SUBSET Int /\ U \in SUBSET T /\ U # T
      /\ IsFiniteSet(V) /\ V \in SUBSET Int /\ V \in SUBSET I
      /\ Cardinality(U) = Cardinality(T) - 1 /\ Cardinality(V) = Cardinality(W) - 1
  BY <1>2, <1>3, <1>4, <1>5, <1>7, FS_RemoveElement
<1>9. SumSet(T) = d + SumSet(U) /\ SumSet(W) = i + SumSet(V)
  BY <1>3, <1>4, <1>5, <1>7, SumRemove
<1>10. SumSet(U) <= SumSet(V) /\ SumSet(U) \in Int /\ SumSet(V) \in Int
  <2>1. SumSet(U) \in Int /\ SumSet(V) \in Int
    BY <1>8, SumType
  <2>2. CASE U = {}
    <3>1. Cardinality(U) = 0
      BY <2>2, FS_EmptySet
    <3>2. V = {}
      BY <3>1, <1>2, <1>8, FS_EmptySet
    <3>3. SumSet(U) = SumSet(V)
      BY <2>2, <3>2
    <3> QED
      BY <2>1, <3>3
  <2>3. CASE U # {}
    <3>1. U \notin Bad
      BY <1>1, <1>8
    <3>2. U \in SUBSET D /\ Cardinality(U) = Cardinality(V)
      BY <1>2, <1>3, <1>8
    <3>3. SumSet(U) < SumSet(V)
      BY <2>3, <3>1, <3>2, <1>8
    <3> QED
      BY <2>1, <3>3
  <2> QED
    BY <2>2, <2>3
<1> QED
  BY <1>2, <1>5, <1>7, <1>9, <1>10

\* If all the newcomers of a set are above what it was, an unchanged number
\* of elements and an unchanged sum mean an unchanged set.
LEMMA SameSet ==
    ASSUME NEW A \in SUBSET Int, IsFiniteSet(A), NEW B \in SUBSET Int, IsFiniteSet(B),
           \A b \in B \ A, a \in A : a < b,
           Cardinality(A) = Cardinality(B), SumSet(A) = SumSet(B)
    PROVE  A = B
<1> DEFINE C == A \intersect B
           D == A \ B
           I == B \ A
<1>1. /\ IsFiniteSet(C) /\ IsFiniteSet(D) /\ IsFiniteSet(I)
      /\ C \in SUBSET Int /\ D \in SUBSET Int /\ I \in SUBSET Int
  BY FS_Subset
<1>2. Cardinality(D) = Cardinality(I)
  <2>1. Cardinality(D) = Cardinality(A) - Cardinality(A \intersect B)
    BY FS_Difference
  <2>2. Cardinality(I) = Cardinality(B) - Cardinality(B \intersect A)
    BY FS_Difference
  <2>3. A \intersect B = B \intersect A
    OBVIOUS
  <2> QED
    BY <2>1, <2>2, <2>3
<1>3. SumSet(A) = SumSet(C) + SumSet(D) /\ SumSet(B) = SumSet(C) + SumSet(I)
  <2>1. A = C \union D /\ B = C \union I /\ C \intersect D = {} /\ C \intersect I = {}
    OBVIOUS
  <2> HIDE DEF C, D, I
  <2>2. SumSet(C \union D) = SumSet(C) + SumSet(D)
    BY <1>1, <2>1, SumUnion
  <2>3. SumSet(C \union I) = SumSet(C) + SumSet(I)
    BY <1>1, <2>1, SumUnion
  <2> QED
    BY <2>1, <2>2, <2>3
<1>4. SumSet(C) \in Int /\ SumSet(D) \in Int /\ SumSet(I) \in Int
  BY <1>1, SumType
<1>5. D = {}
  <2> SUFFICES ASSUME D # {} PROVE FALSE
    OBVIOUS
  <2>1. \A d \in D, i \in I : d < i
    OBVIOUS
  <2>2. SumSet(D) < SumSet(I)
    <3> HIDE DEF D, I
    <3> QED
      BY <1>1, <1>2, <2>1, SumGrows
  <2> HIDE DEF C, D, I
  <2>3. SumSet(C) + SumSet(D) = SumSet(C) + SumSet(I)
    BY <1>3, Zenon
  <2>4. \A x, y, z \in Int : z + x = z + y => ~(x < y)
    OBVIOUS
  <2> QED
    BY <2>2, <2>3, <2>4, <1>4
<1>6. I = {}
  BY <1>1, <1>2, <1>5, FS_EmptySet
<1> QED
  BY <1>5, <1>6
=============================================================================
