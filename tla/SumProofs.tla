------------------------------ MODULE SumProofs ------------------------------
(***************************************************************************)
(* Lemmas about MapThenSumSet, which the models use for the money that     *)
(* rows of a table amount to. The library defines it by recursion over     *)
(* subsets, one chosen element at a time; what is proved here is what the  *)
(* invariants about sums need: that the sum does not depend on the order,  *)
(* and how it moves when one term or one element does.                     *)
(***************************************************************************)
EXTENDS Integers, FiniteSets, FiniteSetsExt, FiniteSetTheorems, WellFoundedInduction, TLAPS

PickOf(s) == CHOOSE x \in s : TRUE

\* g tabulates the sums of f over the sets of D.
Tabulates(g, f, D) ==
  g = [s \in D |-> IF s = {} THEN 0 ELSE f[PickOf(s)] + g[s \ {PickOf(s)}]]

TableOf(f, S) == CHOOSE g : Tabulates(g, f, SUBSET S)
SumOver(f, S) == TableOf(f, S)[S]

\* The library's sum is this one.
LEMMA SumIsSumOver ==
  ASSUME NEW f, NEW S
  PROVE  MapThenSumSet(LAMBDA x : f[x], S) = SumOver(f, S)
BY DEF MapThenSumSet, MapThenFoldSet, SumOver, TableOf, Tabulates, PickOf

-----------------------------------------------------------------------------
(***************************************************************************)
(* Induction, as the existence of a smallest counterexample.               *)
(***************************************************************************)
LEMMA Least ==
  ASSUME NEW Bad, Bad \subseteq Nat, Bad # {}
  PROVE  \E n \in Bad : \A m \in Bad : n <= m
<1>1. IsWellFoundedOn(OpToRel(<, Nat), Nat)
  BY NatLessThanWellFounded
<1>2. PICK n \in Bad : \A m \in Bad : ~(<<m, n>> \in OpToRel(<, Nat))
  BY <1>1, WFMin
<1>3. \A m \in Bad : ~(m < n)
  BY <1>2 DEF OpToRel
<1> QED BY <1>3

LEMMA LeastSubset ==
  ASSUME NEW S, IsFiniteSet(S), NEW Bad, Bad \subseteq SUBSET S, Bad # {}
  PROVE  \E s \in Bad : \A u \in Bad : u \subseteq s => u = s
<1> DEFINE Sizes == {Cardinality(s) : s \in Bad}
<1>1. \A s \in Bad : IsFiniteSet(s) /\ Cardinality(s) \in Nat
  BY FS_Subset, FS_CardinalityType
<1>2. PICK n \in Sizes : \A m \in Sizes : n <= m
  <2>1. Sizes \subseteq Nat /\ Sizes # {}
    BY <1>1
  <2> HIDE DEF Sizes
  <2> QED BY <2>1, Least
<1>3. PICK s \in Bad : Cardinality(s) = n
  BY <1>2
<1>4. ASSUME NEW u \in Bad, u \subseteq s
      PROVE  u = s
  <2>1. Cardinality(u) <= Cardinality(s) /\ (Cardinality(s) = Cardinality(u) => s = u)
    BY <1>1, <1>4, FS_Subset
  <2>2. Cardinality(s) <= Cardinality(u)
    BY <1>2, <1>3
  <2> QED BY <1>1, <2>1, <2>2
<1> QED BY <1>3, <1>4

-----------------------------------------------------------------------------
(***************************************************************************)
(* The table exists, for a finite set.                                     *)
(***************************************************************************)
LEMMA TableExists ==
  ASSUME NEW f, NEW S, IsFiniteSet(S)
  PROVE  \E g : Tabulates(g, f, SUBSET S)
<1> DEFINE Level(n) == {s \in SUBSET S : Cardinality(s) <= n}
           Bad == {n \in Nat : ~\E g : Tabulates(g, f, Level(n))}
<1>1. \A s \in SUBSET S : IsFiniteSet(s) /\ Cardinality(s) \in Nat
  BY FS_Subset, FS_CardinalityType
<1>2. 0 \notin Bad
  <2>1. Level(0) = {{}}
    BY <1>1, FS_EmptySet
  <2>2. Tabulates([s \in Level(0) |-> 0], f, Level(0))
    BY <2>1 DEF Tabulates
  <2> QED BY <2>2
<1>3. ASSUME NEW n \in Nat, n \notin Bad
      PROVE  n + 1 \notin Bad
  <2>1. PICK g : Tabulates(g, f, Level(n))
    BY <1>3
  <2> DEFINE h == [s \in Level(n + 1) |->
                     IF s = {} THEN 0 ELSE f[PickOf(s)] + g[s \ {PickOf(s)}]]
  <2>2. ASSUME NEW s \in Level(n)
        PROVE  s \in Level(n + 1) /\ h[s] = g[s]
    <3>1. s \in Level(n + 1)
      BY <1>1
    <3>2. g[s] = IF s = {} THEN 0 ELSE f[PickOf(s)] + g[s \ {PickOf(s)}]
      <4> HIDE DEF Level
      <4> QED BY <2>1 DEF Tabulates
    <3> HIDE DEF Level
    <3> QED BY <3>1, <3>2
  <2>3. ASSUME NEW s \in Level(n + 1), s # {}
        PROVE  s \ {PickOf(s)} \in Level(n)
    <3>1. PickOf(s) \in s
      BY <2>3 DEF PickOf
    <3>2. Cardinality(s \ {PickOf(s)}) = Cardinality(s) - 1
      BY <1>1, <3>1, FS_RemoveElement
    <3> QED BY <1>1, <3>2
  <2>4. \A s \in Level(n + 1) : s # {} => h[s \ {PickOf(s)}] = g[s \ {PickOf(s)}]
    BY <2>2, <2>3
  <2>5. Tabulates(h, f, Level(n + 1))
    BY <2>4 DEF Tabulates
  <2> QED BY <2>5
<1>4. Bad = {}
  <2> SUFFICES ASSUME Bad # {} PROVE FALSE
    OBVIOUS
  <2>0. Bad \subseteq Nat
    OBVIOUS
  <2> HIDE DEF Bad
  <2>1. PICK n \in Bad : \A m \in Bad : n <= m
    BY <2>0, Least
  <2>2. n - 1 \in Nat /\ n - 1 \notin Bad /\ n \in Nat
    BY <1>2, <2>0, <2>1
  <2>3. n - 1 + 1 \notin Bad
    BY <1>3, <2>2
  <2>4. n - 1 + 1 = n
    BY <2>2
  <2> QED BY <2>1, <2>3, <2>4
<1>5. Level(Cardinality(S)) = SUBSET S
  BY <1>1, FS_Subset
<1>6. Cardinality(S) \in Nat
  BY FS_CardinalityType
<1> QED BY <1>4, <1>5, <1>6

LEMMA TableEntry ==
  ASSUME NEW f, NEW S, IsFiniteSet(S), NEW s \in SUBSET S
  PROVE  TableOf(f, S)[s] =
           IF s = {} THEN 0 ELSE f[PickOf(s)] + TableOf(f, S)[s \ {PickOf(s)}]
<1>1. Tabulates(TableOf(f, S), f, SUBSET S)
  BY TableExists DEF TableOf
<1> QED BY <1>1 DEF Tabulates

\* A table for more elements says the same of fewer.
LEMMA TableOfPart ==
  ASSUME NEW f, NEW S, IsFiniteSet(S), NEW U \in SUBSET S, NEW s \in SUBSET U
  PROVE  TableOf(f, S)[s] = TableOf(f, U)[s]
<1> DEFINE Bad == {t \in SUBSET U : TableOf(f, S)[t] # TableOf(f, U)[t]}
<1>1. IsFiniteSet(U)
  BY FS_Subset
<1> SUFFICES ASSUME Bad # {} PROVE FALSE
  OBVIOUS
<1>2. PICK t \in Bad : \A u \in Bad : u \subseteq t => u = t
  <2>1. Bad \subseteq SUBSET U
    OBVIOUS
  <2> HIDE DEF Bad
  <2> QED BY <1>1, <2>1, LeastSubset
<1>3. t # {}
  BY <1>1, <1>2, TableEntry
<1>4. PickOf(t) \in t
  BY <1>3 DEF PickOf
<1>5. t \ {PickOf(t)} \notin Bad
  BY <1>2, <1>4
<1> QED BY <1>1, <1>2, <1>3, <1>5, TableEntry

-----------------------------------------------------------------------------
(***************************************************************************)
(* Sums                                                                    *)
(***************************************************************************)
LEMMA SumStep ==
  ASSUME NEW f, NEW S, IsFiniteSet(S)
  PROVE  SumOver(f, S) = IF S = {} THEN 0 ELSE f[PickOf(S)] + SumOver(f, S \ {PickOf(S)})
<1>1. TableOf(f, S)[S \ {PickOf(S)}] = TableOf(f, S \ {PickOf(S)})[S \ {PickOf(S)}]
  BY TableOfPart
<1>2. TableOf(f, S)[S] = IF S = {} THEN 0 ELSE f[PickOf(S)] + TableOf(f, S)[S \ {PickOf(S)}]
  BY TableEntry
<1> QED BY <1>1, <1>2 DEF SumOver

LEMMA SumEmpty == ASSUME NEW f PROVE SumOver(f, {}) = 0
BY SumStep, FS_EmptySet

LEMMA SumType ==
  ASSUME NEW S, IsFiniteSet(S), NEW f, \A x \in S : f[x] \in Int
  PROVE  SumOver(f, S) \in Int
<1> DEFINE Bad == {s \in SUBSET S : SumOver(f, s) \notin Int}
<1> SUFFICES ASSUME Bad # {} PROVE FALSE
  OBVIOUS
<1>1. PICK s \in Bad : \A u \in Bad : u \subseteq s => u = s
  <2>1. Bad \subseteq SUBSET S
    OBVIOUS
  <2> HIDE DEF Bad
  <2> QED BY <2>1, LeastSubset
<1>2. IsFiniteSet(s)
  BY FS_Subset
<1>3. s # {}
  <2>1. SumOver(f, {}) \in Int
    BY SumEmpty
  <2>2. SumOver(f, s) \notin Int
    BY <1>1
  <2> QED BY <2>1, <2>2, Zenon
<1>4. PickOf(s) \in s /\ s \ {PickOf(s)} \notin Bad
  BY <1>1, <1>3 DEF PickOf
<1> QED BY <1>1, <1>2, <1>3, <1>4, SumStep

\* The sum depends on the terms of its set only.
LEMMA SumSame ==
  ASSUME NEW S, IsFiniteSet(S), NEW f, NEW g, \A x \in S : f[x] = g[x]
  PROVE  SumOver(f, S) = SumOver(g, S)
<1> DEFINE Bad == {s \in SUBSET S : SumOver(f, s) # SumOver(g, s)}
<1> SUFFICES ASSUME Bad # {} PROVE FALSE
  OBVIOUS
<1>1. PICK s \in Bad : \A u \in Bad : u \subseteq s => u = s
  <2>1. Bad \subseteq SUBSET S
    OBVIOUS
  <2> HIDE DEF Bad
  <2> QED BY <2>1, LeastSubset
<1>2. IsFiniteSet(s)
  BY FS_Subset
<1>3. s # {}
  BY <1>1, SumEmpty
<1>4. PickOf(s) \in s /\ s \ {PickOf(s)} \notin Bad
  BY <1>1, <1>3 DEF PickOf
<1> QED BY <1>1, <1>2, <1>3, <1>4, SumStep

\* Nothing adds up to nothing.
LEMMA SumZero ==
  ASSUME NEW S, IsFiniteSet(S), NEW f, \A x \in S : f[x] = 0
  PROVE  SumOver(f, S) = 0
<1> DEFINE Bad == {s \in SUBSET S : SumOver(f, s) # 0}
<1> SUFFICES ASSUME Bad # {} PROVE FALSE
  OBVIOUS
<1>1. PICK s \in Bad : \A u \in Bad : u \subseteq s => u = s
  <2>1. Bad \subseteq SUBSET S
    OBVIOUS
  <2> HIDE DEF Bad
  <2> QED BY <2>1, LeastSubset
<1>2. IsFiniteSet(s)
  BY FS_Subset
<1>3. s # {}
  BY <1>1, SumEmpty
<1>4. PickOf(s) \in s /\ s \ {PickOf(s)} \notin Bad
  BY <1>1, <1>3 DEF PickOf
<1> QED BY <1>1, <1>2, <1>3, <1>4, SumStep

\* Any element may be taken out first.
LEMMA SumTake ==
  ASSUME NEW S, IsFiniteSet(S), NEW f, \A x \in S : f[x] \in Int, NEW y \in S
  PROVE  SumOver(f, S) = f[y] + SumOver(f, S \ {y})
<1> DEFINE Bad == {s \in SUBSET S : \E z \in s : SumOver(f, s) # f[z] + SumOver(f, s \ {z})}
<1> SUFFICES ASSUME Bad # {} PROVE FALSE
  OBVIOUS
<1>1. PICK s \in Bad : \A u \in Bad : u \subseteq s => u = s
  <2>1. Bad \subseteq SUBSET S
    OBVIOUS
  <2> HIDE DEF Bad
  <2> QED BY <2>1, LeastSubset
<1>2. \A u \in SUBSET S : IsFiniteSet(u) /\ SumOver(f, u) \in Int
  BY FS_Subset, SumType
<1>3. PICK z \in s : SumOver(f, s) # f[z] + SumOver(f, s \ {z})
  BY <1>1
<1> DEFINE x == PickOf(s)
<1>4. x \in s
  BY <1>3 DEF PickOf
<1>5. SumOver(f, s) = f[x] + SumOver(f, s \ {x})
  BY <1>2, <1>3, SumStep
<1>6. x # z
  BY <1>3, <1>5
<1> HIDE DEF x
<1>7. s \ {x} \notin Bad /\ s \ {z} \notin Bad
  BY <1>1, <1>3, <1>4
<1>8. SumOver(f, s \ {x}) = f[z] + SumOver(f, (s \ {x}) \ {z})
  BY <1>3, <1>6, <1>7
<1>9. SumOver(f, s \ {z}) = f[x] + SumOver(f, (s \ {z}) \ {x})
  BY <1>4, <1>6, <1>7
<1>10. (s \ {x}) \ {z} = (s \ {z}) \ {x}
  OBVIOUS
<1>11. f[x] \in Int /\ f[z] \in Int /\ SumOver(f, (s \ {z}) \ {x}) \in Int
  BY <1>2, <1>4
<1> DEFINE rest == SumOver(f, (s \ {z}) \ {x})
<1>12. SumOver(f, s) = f[x] + (f[z] + rest) /\ SumOver(f, s \ {z}) = f[x] + rest
  BY <1>5, <1>8, <1>9, <1>10
<1>13. rest \in Int
  BY <1>11
<1> HIDE DEF rest
<1> QED BY <1>3, <1>11, <1>12, <1>13

\* An element more.
LEMMA SumAdd ==
  ASSUME NEW S, IsFiniteSet(S), NEW y, y \notin S, NEW f, \A x \in S \cup {y} : f[x] \in Int
  PROVE  SumOver(f, S \cup {y}) = SumOver(f, S) + f[y]
<1>1. IsFiniteSet(S \cup {y}) /\ (S \cup {y}) \ {y} = S
  BY FS_AddElement
<1>2. SumOver(f, S \cup {y}) = f[y] + SumOver(f, S)
  BY <1>1, SumTake
<1>3. SumOver(f, S) \in Int
  BY SumType
<1> QED BY <1>2, <1>3

\* One term changes.
LEMMA SumChange ==
  ASSUME NEW S, IsFiniteSet(S), NEW y \in S, NEW f, NEW g,
         \A x \in S : f[x] \in Int /\ g[x] \in Int,
         \A x \in S \ {y} : g[x] = f[x]
  PROVE  SumOver(g, S) = SumOver(f, S) + (g[y] - f[y])
<1>1. IsFiniteSet(S \ {y})
  BY FS_Subset
<1>2. SumOver(f, S) = f[y] + SumOver(f, S \ {y}) /\ SumOver(g, S) = g[y] + SumOver(g, S \ {y})
  BY SumTake
<1>3. SumOver(f, S \ {y}) = SumOver(g, S \ {y}) /\ SumOver(f, S \ {y}) \in Int
  BY <1>1, SumSame, SumType
<1> QED BY <1>2, <1>3

\* A sum of naturals is one.
LEMMA SumIsNat ==
  ASSUME NEW S, IsFiniteSet(S), NEW f, \A x \in S : f[x] \in Nat
  PROVE  SumOver(f, S) \in Nat
<1> DEFINE Bad == {s \in SUBSET S : SumOver(f, s) \notin Nat}
<1> SUFFICES ASSUME Bad # {} PROVE FALSE
  OBVIOUS
<1>1. PICK s \in Bad : \A u \in Bad : u \subseteq s => u = s
  <2>1. Bad \subseteq SUBSET S
    OBVIOUS
  <2> HIDE DEF Bad
  <2> QED BY <2>1, LeastSubset
<1>2. IsFiniteSet(s)
  BY FS_Subset
<1>3. s # {}
  <2>1. SumOver(f, {}) \in Nat
    BY SumEmpty
  <2>2. SumOver(f, s) \notin Nat
    BY <1>1
  <2> QED BY <2>1, <2>2, Zenon
<1>4. PickOf(s) \in s /\ s \ {PickOf(s)} \notin Bad
  BY <1>1, <1>3 DEF PickOf
<1> QED BY <1>1, <1>2, <1>3, <1>4, SumStep

\* A set with fewer elements has no larger a sum of naturals.
LEMMA SumOfPart ==
  ASSUME NEW S, IsFiniteSet(S), NEW f, \A x \in S : f[x] \in Nat, NEW T \in SUBSET S
  PROVE  SumOver(f, T) <= SumOver(f, S)
<1> DEFINE Bad == {s \in SUBSET S : T \subseteq s /\ ~(SumOver(f, T) <= SumOver(f, s))}
<1> SUFFICES ASSUME Bad # {} PROVE FALSE
  OBVIOUS
<1>1. PICK s \in Bad : \A u \in Bad : u \subseteq s => u = s
  <2>1. Bad \subseteq SUBSET S
    OBVIOUS
  <2> HIDE DEF Bad
  <2> QED BY <2>1, LeastSubset
<1>2. \A u \in SUBSET S : IsFiniteSet(u) /\ SumOver(f, u) \in Nat
  BY FS_Subset, SumIsNat
<1>3. s # T
  BY <1>1, <1>2
<1>4. PICK y \in s : y \notin T
  BY <1>1, <1>3
<1>5. s \ {y} \notin Bad /\ T \subseteq s \ {y} /\ s \ {y} \in SUBSET S
  BY <1>1, <1>4
<1>6. SumOver(f, T) <= SumOver(f, s \ {y})
  BY <1>5
<1>7. SumOver(f, s) = f[y] + SumOver(f, s \ {y})
  BY <1>1, <1>2, <1>4, SumTake
<1>8. f[y] \in Nat /\ SumOver(f, s \ {y}) \in Nat /\ SumOver(f, T) \in Nat
  BY <1>1, <1>2, <1>4, <1>5
<1> QED BY <1>1, <1>6, <1>7, <1>8

\* One of finitely many numbers is the largest.
LEMMA LargestExists ==
  ASSUME NEW S, IsFiniteSet(S), S # {}, NEW f, \A x \in S : f[x] \in Nat
  PROVE  \E m \in S : \A x \in S : f[x] <= f[m]
<1> DEFINE Bad == {s \in SUBSET S : s # {} /\ ~\E m \in s : \A x \in s : f[x] <= f[m]}
<1> SUFFICES ASSUME Bad # {} PROVE FALSE
  OBVIOUS
<1>1. PICK s \in Bad : \A u \in Bad : u \subseteq s => u = s
  <2>1. Bad \subseteq SUBSET S
    OBVIOUS
  <2> HIDE DEF Bad
  <2> QED BY <2>1, LeastSubset
<1>2. PICK y : y \in s
  BY <1>1
<1>3. s \subseteq S /\ s \ {y} \notin Bad
  BY <1>1, <1>2
<1>4. CASE s \ {y} = {}
  <2>1. s = {y}
    BY <1>2, <1>4
  <2> QED BY <1>1, <1>3, <2>1
<1>5. CASE s \ {y} # {}
  <2>1. PICK m \in s \ {y} : \A x \in s \ {y} : f[x] <= f[m]
    BY <1>1, <1>3, <1>5
  <2>2. f[m] \in Nat /\ f[y] \in Nat
    BY <1>2, <1>3, <2>1
  <2>3. CASE f[y] <= f[m]
    BY <1>1, <2>1, <2>3
  <2>4. CASE ~(f[y] <= f[m])
    <3>1. \A x \in s : f[x] <= f[y]
      BY <1>3, <2>1, <2>2, <2>4
    <3> QED BY <1>1, <1>2, <3>1
  <2> QED BY <2>3, <2>4
<1> QED BY <1>4, <1>5

LEMMA Largest ==
  ASSUME NEW S, IsFiniteSet(S), S # {}, NEW f, \A x \in S : f[x] \in Nat
  PROVE  /\ Max({f[x] : x \in S}) \in Nat
         /\ \A x \in S : f[x] <= Max({f[y] : y \in S})
<1>1. PICK m \in S : \A x \in S : f[x] <= f[m]
  BY LargestExists
<1> DEFINE T == {f[x] : x \in S}
<1>2. f[m] \in T /\ \A v \in T : f[m] >= v
  BY <1>1
<1>3. Max(T) \in T /\ \A v \in T : Max(T) >= v
  <2> HIDE DEF T
  <2> QED BY <1>2 DEF Max
<1> QED BY <1>3
=============================================================================
