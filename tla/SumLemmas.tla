------------------------------ MODULE SumLemmas ------------------------------
(***************************************************************************)
(* Sums over finite sets: what SumFunctionOnSet returns.                   *)
(***************************************************************************)
EXTENDS Integers, FiniteSets, Functions, FiniteSetTheorems, WellFoundedInduction, TLAPS

\* A nonempty set of naturals has a least element.
LEMMA LeastNatural ==
  ASSUME NEW T \in SUBSET Nat, T # {}
  PROVE  \E m \in T : \A n \in T : m <= n
<1> DEFINE Less == OpToRel(<, Nat)
<1>1. IsWellFoundedOn(Less, Nat)
  BY NatLessThanWellFounded
<1>2. \A m, n \in Nat : <<n, m>> \in Less <=> n < m
  BY DEF OpToRel
<1> HIDE DEF Less
<1>3. PICK m \in T : \A n \in T : <<n, m>> \notin Less
  BY <1>1, WFMin
<1>4. ASSUME NEW n \in T PROVE m <= n
  <2>1. ~(n < m) /\ m \in Nat /\ n \in Nat
    BY <1>2, <1>3
  <2> QED BY <2>1
<1> QED BY <1>4

\* Induction over the naturals, for a set.
LEMMA NatSetInduction ==
  ASSUME NEW T, 0 \in T, \A n \in Nat : n \in T => n + 1 \in T
  PROVE  Nat \subseteq T
<1> SUFFICES ASSUME Nat \ T # {} PROVE FALSE
  OBVIOUS
<1>1. PICK m \in Nat \ T : \A n \in Nat \ T : m <= n
  BY LeastNatural
<1>2. m - 1 \in Nat /\ m - 1 \in T
  BY <1>1
<1> QED BY <1>1, <1>2

\* Induction over the subsets of a finite set, for a set of subsets.
LEMMA SubsetInduction ==
  ASSUME NEW S, IsFiniteSet(S), NEW D, {} \in D,
         \A s \in SUBSET S, x \in S : s \in D /\ x \notin s => s \union {x} \in D
  PROVE  SUBSET S \subseteq D
<1> DEFINE T == {n \in Nat : \A s \in SUBSET S : Cardinality(s) = n => s \in D}
<1>1. \A s \in SUBSET S : IsFiniteSet(s) /\ Cardinality(s) \in Nat
  BY FS_Subset, FS_CardinalityType
<1>2. 0 \in T
  BY <1>1, FS_EmptySet
<1>3. ASSUME NEW n \in Nat, n \in T PROVE n + 1 \in T
  <2>1. SUFFICES ASSUME NEW s \in SUBSET S, Cardinality(s) = n + 1 PROVE s \in D
    OBVIOUS
  <2>2. s # {}
    BY <2>1, FS_EmptySet
  <2>3. PICK x \in s : TRUE
    BY <2>2
  <2>4. Cardinality(s \ {x}) = n
    <3>1. IsFiniteSet(s)
      BY <1>1
    <3>2. Cardinality(s \ {x}) = Cardinality(s) - 1
      BY <3>1, FS_RemoveElement
    <3> QED BY <2>1, <3>2
  <2>5. s \ {x} \in D
    BY <1>3, <2>4
  <2>6. s = (s \ {x}) \union {x} /\ x \notin s \ {x}
    OBVIOUS
  <2> QED BY <2>5, <2>6
<1> HIDE DEF T
<1>4. Nat \subseteq T
  BY <1>2, <1>3, NatSetInduction
<1> QED BY <1>1, <1>4 DEF T

-----------------------------------------------------------------------------
(* The recursion behind the sum. *)

Pick(s) == CHOOSE x \in s : TRUE

\* g is the table of the sums of f over the subsets of S.
SumTable(f, S, g) ==
  g = [s \in SUBSET S |-> IF s = {} THEN 0 ELSE f[Pick(s)] + g[s \ {Pick(s)}]]

LEMMA SumIsTable ==
  ASSUME NEW f, NEW S
  PROVE  SumFunctionOnSet(f, S) = (CHOOSE g : SumTable(f, S, g))[S]
BY DEF SumFunctionOnSet, FoldFunctionOnSet, MapThenFoldSet, SumTable, Pick

\* A table extends to every subset of a finite set.
LEMMA TableExists ==
  ASSUME NEW S, IsFiniteSet(S), NEW f, \A x \in S : f[x] \in Int
  PROVE  \E g \in [SUBSET S -> Int] : SumTable(f, S, g)
<1> DEFINE Upto(g, n) == \A s \in SUBSET S : Cardinality(s) < n =>
                           g[s] = IF s = {} THEN 0 ELSE f[Pick(s)] + g[s \ {Pick(s)}]
           T == {n \in Nat : \E g \in [SUBSET S -> Int] : Upto(g, n)}
<1>1. \A s \in SUBSET S : IsFiniteSet(s) /\ Cardinality(s) \in Nat
  BY FS_Subset, FS_CardinalityType
<1>2. \A s \in SUBSET S : s # {} => Pick(s) \in s
  BY DEF Pick
<1>3. 0 \in T
  <2>1. [s \in SUBSET S |-> 0] \in [SUBSET S -> Int] /\ Upto([s \in SUBSET S |-> 0], 0)
    BY <1>1
  <2> QED BY <2>1
<1>4. ASSUME NEW n \in Nat, n \in T PROVE n + 1 \in T
  <2>1. PICK g \in [SUBSET S -> Int] : Upto(g, n)
    BY <1>4
  <2> DEFINE h == [s \in SUBSET S |->
                     IF Cardinality(s) < n THEN g[s]
                     ELSE IF s = {} THEN 0 ELSE f[Pick(s)] + g[s \ {Pick(s)}]]
  <2>2. ASSUME NEW s \in SUBSET S, s # {}
        PROVE  /\ f[Pick(s)] + g[s \ {Pick(s)}] \in Int
               /\ s \ {Pick(s)} \in SUBSET S /\ Cardinality(s \ {Pick(s)}) = Cardinality(s) - 1
    <3>1. Pick(s) \in s /\ IsFiniteSet(s)
      BY <1>1, <1>2, <2>2
    <3>2. Cardinality(s \ {Pick(s)}) = Cardinality(s) - 1
      BY <3>1, FS_RemoveElement
    <3> QED BY <3>1, <3>2
  <2>3. h \in [SUBSET S -> Int]
    BY <2>2
  <2>4. ASSUME NEW s \in SUBSET S, Cardinality(s) < n + 1
        PROVE  h[s] = IF s = {} THEN 0 ELSE f[Pick(s)] + h[s \ {Pick(s)}]
    <3>1. h[s] = IF s = {} THEN 0 ELSE f[Pick(s)] + g[s \ {Pick(s)}]
      BY <2>1
    <3>2. CASE s # {}
      <4>1. Cardinality(s \ {Pick(s)}) < n /\ s \ {Pick(s)} \in SUBSET S
        BY <1>1, <2>2, <2>4, <3>2
      <4>2. h[s \ {Pick(s)}] = g[s \ {Pick(s)}]
        BY <4>1
      <4> QED BY <3>1, <3>2, <4>2
    <3> QED BY <3>1, <3>2
  <2> HIDE DEF h
  <2> QED BY <2>3, <2>4
<1>5. Cardinality(S) + 1 \in T
  <2> HIDE DEF T
  <2>1. Nat \subseteq T
    BY <1>3, <1>4, NatSetInduction
  <2>2. Cardinality(S) + 1 \in Nat
    BY <1>1
  <2> QED BY <2>1, <2>2
<1>6. PICK g \in [SUBSET S -> Int] : Upto(g, Cardinality(S) + 1)
  BY <1>5
<1>7. ASSUME NEW s \in SUBSET S
      PROVE  g[s] = IF s = {} THEN 0 ELSE f[Pick(s)] + g[s \ {Pick(s)}]
  <2>1. Cardinality(s) <= Cardinality(S) /\ Cardinality(s) \in Nat /\ Cardinality(S) \in Nat
    BY <1>1, FS_Subset
  <2>2. Cardinality(s) < Cardinality(S) + 1
    BY <2>1
  <2> QED BY <1>6, <2>2
<1> QED BY <1>7 DEF SumTable

\* Two tables agree wherever both are defined.
LEMMA TablesAgree ==
  ASSUME NEW S, IsFiniteSet(S), NEW T, S \in SUBSET T, NEW f, NEW g, NEW h,
         SumTable(f, S, g), SumTable(f, T, h)
  PROVE  \A s \in SUBSET S : g[s] = h[s]
<1> DEFINE D(n) == \A s \in SUBSET S : Cardinality(s) = n => g[s] = h[s]
           N == {n \in Nat : D(n)}
<1>1. \A s \in SUBSET S : IsFiniteSet(s) /\ Cardinality(s) \in Nat
  BY FS_Subset, FS_CardinalityType
<1>2. ASSUME NEW s \in SUBSET S
      PROVE  /\ g[s] = IF s = {} THEN 0 ELSE f[Pick(s)] + g[s \ {Pick(s)}]
             /\ h[s] = IF s = {} THEN 0 ELSE f[Pick(s)] + h[s \ {Pick(s)}]
  <2>1. s \in SUBSET T
    OBVIOUS
  <2> QED BY <2>1 DEF SumTable
<1>3. 0 \in N
  <2>1. \A s \in SUBSET S : Cardinality(s) = 0 => s = {}
    BY <1>1, FS_EmptySet
  <2> QED BY <1>2, <2>1
<1>4. ASSUME NEW n \in Nat, n \in N PROVE n + 1 \in N
  <2>1. SUFFICES ASSUME NEW s \in SUBSET S, Cardinality(s) = n + 1 PROVE g[s] = h[s]
    OBVIOUS
  <2>2. s # {}
    BY <2>1, FS_EmptySet
  <2>3. Pick(s) \in s /\ IsFiniteSet(s)
    BY <1>1, <2>2 DEF Pick
  <2>4. Cardinality(s \ {Pick(s)}) = Cardinality(s) - 1
    BY <2>3, FS_RemoveElement
  <2>5. Cardinality(s \ {Pick(s)}) = n /\ s \ {Pick(s)} \in SUBSET S
    BY <2>1, <2>4
  <2>6. g[s \ {Pick(s)}] = h[s \ {Pick(s)}]
    BY <1>4, <2>5
  <2> QED BY <1>2, <2>2, <2>6
<1> HIDE DEF N
<1>5. Nat \subseteq N
  BY <1>3, <1>4, NatSetInduction
<1> QED BY <1>1, <1>5 DEF N

-----------------------------------------------------------------------------
(* What is known of a sum. *)

\* A sum is an entry of any table that has it.
LEMMA SumIsEntry ==
  ASSUME NEW S, IsFiniteSet(S), NEW f, \A x \in S : f[x] \in Int, NEW T \in SUBSET S
  PROVE  \A g : SumTable(f, S, g) => SumFunctionOnSet(f, T) = g[T]
<1> SUFFICES ASSUME NEW g, SumTable(f, S, g) PROVE SumFunctionOnSet(f, T) = g[T]
  OBVIOUS
<1>1. IsFiniteSet(T)
  BY FS_Subset
<1>2. \E h : SumTable(f, T, h)
  BY <1>1, TableExists
<1>3. PICK h : SumTable(f, T, h) /\ SumFunctionOnSet(f, T) = h[T]
  <2>1. SumTable(f, T, CHOOSE h : SumTable(f, T, h))
    BY <1>2
  <2> QED BY <2>1, SumIsTable
<1>4. \A s \in SUBSET T : h[s] = g[s]
  BY <1>1, <1>3, TablesAgree
<1> QED BY <1>3, <1>4

\* A sum is an integer, and the sum over nothing is nothing.
LEMMA SumType ==
  ASSUME NEW S, IsFiniteSet(S), NEW f, \A x \in S : f[x] \in Int
  PROVE  SumFunctionOnSet(f, S) \in Int /\ (S = {} => SumFunctionOnSet(f, S) = 0)
<1>1. PICK g \in [SUBSET S -> Int] : SumTable(f, S, g)
  BY TableExists
<1>2. SumFunctionOnSet(f, S) = g[S]
  BY <1>1, SumIsEntry
<1>3. S = {} => g[S] = 0
  BY <1>1 DEF SumTable
<1> QED BY <1>2, <1>3

\* Only the values on the set count.
LEMMA SumCongruent ==
  ASSUME NEW S, IsFiniteSet(S), NEW e, NEW f, \A x \in S : f[x] \in Int /\ e[x] = f[x]
  PROVE  SumFunctionOnSet(e, S) = SumFunctionOnSet(f, S)
<1>1. PICK g : SumTable(e, S, g)
  BY TableExists
<1>2. ASSUME NEW s \in SUBSET S, s # {} PROVE e[Pick(s)] = f[Pick(s)]
  BY <1>2 DEF Pick
<1>3. SumTable(f, S, g)
  BY <1>1, <1>2 DEF SumTable
<1>4. SumFunctionOnSet(e, S) = g[S] /\ SumFunctionOnSet(f, S) = g[S]
  BY <1>1, <1>3, SumIsEntry
<1> QED BY <1>4

\* Any element may be taken out of a sum, not only the one the fold picks.
LEMMA SumRemove ==
  ASSUME NEW S, IsFiniteSet(S), NEW f, \A x \in S : f[x] \in Int, NEW z \in S
  PROVE  SumFunctionOnSet(f, S) = f[z] + SumFunctionOnSet(f, S \ {z})
<1>1. PICK g \in [SUBSET S -> Int] : SumTable(f, S, g)
  BY TableExists
<1>2. \A s \in SUBSET S : SumFunctionOnSet(f, s) = g[s]
  BY <1>1, SumIsEntry
<1>3. \A s \in SUBSET S : IsFiniteSet(s) /\ Cardinality(s) \in Nat
  BY FS_Subset, FS_CardinalityType
<1> DEFINE N == {n \in Nat : \A s \in SUBSET S, x \in S :
                   Cardinality(s) = n /\ x \in s => g[s] = f[x] + g[s \ {x}]}
<1>4. 0 \in N
  BY <1>3, FS_EmptySet
<1>5. ASSUME NEW n \in Nat, n \in N PROVE n + 1 \in N
  <2>1. SUFFICES ASSUME NEW s \in SUBSET S, NEW x \in S, Cardinality(s) = n + 1, x \in s
                 PROVE  g[s] = f[x] + g[s \ {x}]
    OBVIOUS
  <2> DEFINE y == Pick(s)
  <2>2. y \in s
    BY <2>1 DEF Pick
  <2>3. g[s] = f[y] + g[s \ {y}]
    BY <1>1, <2>1 DEF SumTable
  <2> HIDE DEF y
  <2>4. CASE x = y
    BY <2>3, <2>4
  <2>5. CASE x # y
    <3>1. Cardinality(s \ {y}) = n /\ Cardinality(s \ {x}) = n
      <4>1. IsFiniteSet(s)
        BY <1>3
      <4>2. Cardinality(s \ {y}) = Cardinality(s) - 1 /\ Cardinality(s \ {x}) = Cardinality(s) - 1
        BY <2>1, <2>2, <4>1, FS_RemoveElement
      <4> QED BY <2>1, <4>2
    <3>2. s \ {y} \in SUBSET S /\ s \ {x} \in SUBSET S /\ x \in s \ {y} /\ y \in s \ {x} /\ y \in S
      BY <2>1, <2>2, <2>5
    <3>3. g[s \ {y}] = f[x] + g[(s \ {y}) \ {x}] /\ g[s \ {x}] = f[y] + g[(s \ {x}) \ {y}]
      BY <1>5, <3>1, <3>2
    <3>4. (s \ {y}) \ {x} = (s \ {x}) \ {y} /\ (s \ {x}) \ {y} \in SUBSET S
      OBVIOUS
    <3> DEFINE rest == (s \ {x}) \ {y}
    <3>5. f[x] \in Int /\ f[y] \in Int /\ g[rest] \in Int
      BY <3>2, <3>4
    <3>6. g[s \ {y}] = f[x] + g[rest] /\ g[s \ {x}] = f[y] + g[rest]
      BY <3>3, <3>4, Zenon
    <3> HIDE DEF rest
    <3> QED BY <2>3, <3>5, <3>6
  <2> QED BY <2>4, <2>5
<1> HIDE DEF N
<1>6. Nat \subseteq N
  BY <1>4, <1>5, NatSetInduction
<1>7. g[S] = f[z] + g[S \ {z}]
  BY <1>3, <1>6 DEF N
<1> QED BY <1>2, <1>7

\* One value changes: the sum changes by as much.
LEMMA SumChange ==
  ASSUME NEW S, IsFiniteSet(S), NEW e, NEW f, NEW z \in S,
         \A x \in S : e[x] \in Int /\ f[x] \in Int,
         \A x \in S \ {z} : f[x] = e[x]
  PROVE  /\ SumFunctionOnSet(e, S) \in Int
         /\ SumFunctionOnSet(f, S) = SumFunctionOnSet(e, S) + (f[z] - e[z])
<1>1. IsFiniteSet(S \ {z})
  BY FS_RemoveElement
<1>2. /\ SumFunctionOnSet(e, S) = e[z] + SumFunctionOnSet(e, S \ {z})
      /\ SumFunctionOnSet(f, S) = f[z] + SumFunctionOnSet(f, S \ {z})
  BY SumRemove
<1>3. SumFunctionOnSet(f, S \ {z}) = SumFunctionOnSet(e, S \ {z})
  BY <1>1, SumCongruent
<1>4. SumFunctionOnSet(e, S \ {z}) \in Int
  BY <1>1, SumType
<1> QED BY <1>2, <1>3, <1>4

\* The set gains an element.
LEMMA SumAdd ==
  ASSUME NEW S, IsFiniteSet(S), NEW f, \A x \in S : f[x] \in Int, NEW z, z \notin S, f[z] \in Int
  PROVE  SumFunctionOnSet(f, S \union {z}) = f[z] + SumFunctionOnSet(f, S)
<1>1. IsFiniteSet(S \union {z}) /\ (S \union {z}) \ {z} = S
  BY FS_AddElement
<1>2. SumFunctionOnSet(f, S \union {z}) = f[z] + SumFunctionOnSet(f, (S \union {z}) \ {z})
  BY <1>1, SumRemove
<1> QED BY <1>1, <1>2

\* Smaller values, smaller sum.
LEMMA SumMonotone ==
  ASSUME NEW S, IsFiniteSet(S), NEW e, NEW f,
         \A x \in S : e[x] \in Int /\ f[x] \in Int /\ e[x] <= f[x]
  PROVE  SumFunctionOnSet(e, S) <= SumFunctionOnSet(f, S)
<1> DEFINE D == {s \in SUBSET S : SumFunctionOnSet(e, s) <= SumFunctionOnSet(f, s)}
<1>1. {} \in D
  <2>1. SumFunctionOnSet(e, {}) = 0 /\ SumFunctionOnSet(f, {}) = 0
    BY FS_EmptySet, SumType
  <2> QED BY <2>1
<1>2. ASSUME NEW s \in SUBSET S, NEW x \in S, s \in D, x \notin s PROVE s \union {x} \in D
  <2>1. IsFiniteSet(s) /\ \A y \in s : e[y] \in Int /\ f[y] \in Int
    BY FS_Subset
  <2>2. /\ SumFunctionOnSet(e, s \union {x}) = e[x] + SumFunctionOnSet(e, s)
        /\ SumFunctionOnSet(f, s \union {x}) = f[x] + SumFunctionOnSet(f, s)
    BY <1>2, <2>1, SumAdd
  <2>3. SumFunctionOnSet(e, s) \in Int /\ SumFunctionOnSet(f, s) \in Int
    BY <2>1, SumType
  <2> QED BY <1>2, <2>2, <2>3
<1> HIDE DEF D
<1>3. SUBSET S \subseteq D
  BY <1>1, <1>2, SubsetInduction
<1> QED BY <1>3 DEF D

\* A sum of naturals is a natural, no less than any of them.
LEMMA SumOfNaturals ==
  ASSUME NEW S, IsFiniteSet(S), NEW f, \A x \in S : f[x] \in Nat
  PROVE  SumFunctionOnSet(f, S) \in Nat /\ \A x \in S : f[x] <= SumFunctionOnSet(f, S)
<1> DEFINE D == {s \in SUBSET S : SumFunctionOnSet(f, s) \in Nat}
<1>1. {} \in D
  BY FS_EmptySet, SumType
<1>2. ASSUME NEW s \in SUBSET S, NEW x \in S, s \in D, x \notin s PROVE s \union {x} \in D
  <2>1. IsFiniteSet(s) /\ \A y \in s : f[y] \in Int
    BY FS_Subset
  <2>2. SumFunctionOnSet(f, s \union {x}) = f[x] + SumFunctionOnSet(f, s)
    BY <1>2, <2>1, SumAdd
  <2> QED BY <1>2, <2>2
<1> HIDE DEF D
<1>3. SUBSET S \subseteq D
  BY <1>1, <1>2, SubsetInduction
<1>4. ASSUME NEW x \in S PROVE f[x] <= SumFunctionOnSet(f, S)
  <2>1. SumFunctionOnSet(f, S) = f[x] + SumFunctionOnSet(f, S \ {x})
    BY SumRemove
  <2>2. SumFunctionOnSet(f, S \ {x}) \in Nat
    BY <1>3 DEF D
  <2> QED BY <2>1, <2>2
<1> QED BY <1>3, <1>4 DEF D

\* The sum over two sets that share nothing.
LEMMA SumUnion ==
  ASSUME NEW A, NEW B, IsFiniteSet(A), IsFiniteSet(B), A \intersect B = {},
         NEW f, \A x \in A \union B : f[x] \in Int
  PROVE  SumFunctionOnSet(f, A \union B) = SumFunctionOnSet(f, A) + SumFunctionOnSet(f, B)
<1> DEFINE D == {s \in SUBSET B : SumFunctionOnSet(f, A \union s)
                                   = SumFunctionOnSet(f, A) + SumFunctionOnSet(f, s)}
<1>1. SumFunctionOnSet(f, A) \in Int
  BY SumType
<1>2. {} \in D
  <2>1. SumFunctionOnSet(f, {}) = 0
    BY FS_EmptySet, SumType
  <2>2. A \union {} = A
    OBVIOUS
  <2> QED BY <1>1, <2>1, <2>2
<1>3. ASSUME NEW s \in SUBSET B, NEW x \in B, s \in D, x \notin s PROVE s \union {x} \in D
  <2>1. IsFiniteSet(s) /\ IsFiniteSet(A \union s) /\ f[x] \in Int
    BY FS_Subset, FS_Union
  <2>2. /\ \A y \in s : f[y] \in Int
        /\ \A y \in A \union s : f[y] \in Int
        /\ x \notin A \union s
    BY <1>3
  <2>3. SumFunctionOnSet(f, s \union {x}) = f[x] + SumFunctionOnSet(f, s)
    BY <1>3, <2>1, <2>2, SumAdd
  <2>4. SumFunctionOnSet(f, (A \union s) \union {x}) = f[x] + SumFunctionOnSet(f, A \union s)
    BY <2>1, <2>2, SumAdd
  <2>5. (A \union s) \union {x} = A \union (s \union {x})
    OBVIOUS
  <2>6. SumFunctionOnSet(f, s) \in Int
    BY <2>1, <2>2, SumType
  <2>7. SumFunctionOnSet(f, A \union (s \union {x})) = f[x] + SumFunctionOnSet(f, A \union s)
    BY <2>4, <2>5, Zenon
  <2>8. SumFunctionOnSet(f, A \union (s \union {x}))
          = SumFunctionOnSet(f, A) + SumFunctionOnSet(f, s \union {x})
    BY <1>1, <1>3, <2>1, <2>3, <2>6, <2>7
  <2> QED BY <2>8
<1> HIDE DEF D
<1>4. SUBSET B \subseteq D
  <2>1. \A s \in SUBSET B, x \in B : s \in D /\ x \notin s => s \union {x} \in D
    BY <1>3
  <2> QED BY ONLY <1>2, <2>1, IsFiniteSet(B), SubsetInduction
<1>5. B \in D
  BY <1>4
<1> QED BY <1>5 DEF D

\* A part of a sum of naturals is no more than the whole.
LEMMA SumPart ==
  ASSUME NEW S, IsFiniteSet(S), NEW A \in SUBSET S, NEW f, \A x \in S : f[x] \in Nat
  PROVE  SumFunctionOnSet(f, A) <= SumFunctionOnSet(f, S)
<1>1. IsFiniteSet(A) /\ IsFiniteSet(S \ A)
  BY FS_Subset, FS_Difference
<1>2. A \intersect (S \ A) = {} /\ A \union (S \ A) = S
  OBVIOUS
<1>3. SumFunctionOnSet(f, A \union (S \ A)) = SumFunctionOnSet(f, A) + SumFunctionOnSet(f, S \ A)
  BY <1>1, <1>2, SumUnion
<1>4. SumFunctionOnSet(f, A) \in Nat /\ SumFunctionOnSet(f, S \ A) \in Nat
  BY <1>1, SumOfNaturals
<1>5. SumFunctionOnSet(f, S) = SumFunctionOnSet(f, A) + SumFunctionOnSet(f, S \ A)
  BY <1>2, <1>3, Zenon
<1> QED BY <1>4, <1>5

\* A sum of nothings is nothing.
LEMMA SumOfZeros ==
  ASSUME NEW S, IsFiniteSet(S), NEW f, \A x \in S : f[x] = 0
  PROVE  SumFunctionOnSet(f, S) = 0
<1> DEFINE D == {s \in SUBSET S : SumFunctionOnSet(f, s) = 0}
<1>1. {} \in D
  BY FS_EmptySet, SumType
<1>2. ASSUME NEW s \in SUBSET S, NEW x \in S, s \in D, x \notin s PROVE s \union {x} \in D
  <2>1. IsFiniteSet(s) /\ \A y \in s : f[y] \in Int
    BY FS_Subset
  <2>2. SumFunctionOnSet(f, s \union {x}) = f[x] + SumFunctionOnSet(f, s)
    BY <1>2, <2>1, SumAdd
  <2> QED BY <1>2, <2>2
<1> HIDE DEF D
<1>3. SUBSET S \subseteq D
  BY <1>1, <1>2, SubsetInduction
<1> QED BY <1>3 DEF D

\* The same facts for the sum of all the values of a function.
LEMMA SumFunctionFacts ==
  ASSUME NEW S, IsFiniteSet(S), NEW f \in [S -> Int]
  PROVE  /\ SumFunction(f) = SumFunctionOnSet(f, S)
         /\ SumFunction(f) \in Int
         /\ (\A x \in S : f[x] = 0) => SumFunction(f) = 0
         /\ (\A x \in S : f[x] >= 0) =>
              SumFunction(f) >= 0 /\ \A x \in S : f[x] <= SumFunction(f)
<1>1. SumFunction(f) = SumFunctionOnSet(f, S)
  BY DEF SumFunction
<1>2. \A x \in S : f[x] \in Int
  OBVIOUS
<1>3. SumFunctionOnSet(f, S) \in Int
  BY <1>2, SumType
<1>4. (\A x \in S : f[x] = 0) => SumFunctionOnSet(f, S) = 0
  BY SumOfZeros
<1>5. ASSUME \A x \in S : f[x] >= 0
      PROVE  SumFunctionOnSet(f, S) >= 0 /\ \A x \in S : f[x] <= SumFunctionOnSet(f, S)
  <2>1. \A x \in S : f[x] \in Nat
    BY <1>2, <1>5
  <2>2. SumFunctionOnSet(f, S) \in Nat /\ \A x \in S : f[x] <= SumFunctionOnSet(f, S)
    BY <2>1, SumOfNaturals
  <2> QED BY <2>2
<1> QED BY <1>1, <1>3, <1>4, <1>5

\* One value of a function changes: the sum changes by as much.
LEMMA SumFunctionChange ==
  ASSUME NEW S, IsFiniteSet(S), NEW e \in [S -> Int], NEW f \in [S -> Int], NEW z \in S,
         \A x \in S \ {z} : f[x] = e[x]
  PROVE  SumFunction(f) = SumFunction(e) + (f[z] - e[z])
<1>1. SumFunction(e) = SumFunctionOnSet(e, S) /\ SumFunction(f) = SumFunctionOnSet(f, S)
  BY DEF SumFunction
<1>2. \A x \in S : e[x] \in Int /\ f[x] \in Int
  OBVIOUS
<1>3. SumFunctionOnSet(f, S) = SumFunctionOnSet(e, S) + (f[z] - e[z])
  BY <1>2, SumChange
<1> QED BY <1>1, <1>3
=============================================================================
