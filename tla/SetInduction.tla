---------------------------- MODULE SetInduction ----------------------------
(***************************************************************************)
(* Induction and recursion in a form the provers can use: a statement      *)
(* about every number is an equation between sets, so none of the lemmas   *)
(* takes an operator as a parameter.  What is proved here of numbers is    *)
(* what the proofs about lists and arrays rest on.                         *)
(***************************************************************************)
EXTENDS Integers, WellFoundedInduction, FiniteSetTheorems, TLAPS

\* Every non-empty set of natural numbers has a least element.
THEOREM LeastNatural ==
    ASSUME NEW S, S \subseteq Nat, S # {}
    PROVE  \E m \in S : \A k \in S : m <= k
<1> DEFINE R == {ij \in Nat \X Nat : ij[1] < ij[2]}
<1>1. IsWellFoundedOn(R, Nat)
  BY NatLessThanWellFounded DEF OpToRel
<1>2. \A j, k \in S : k < j => <<k, j>> \in R
  OBVIOUS
<1>3. PICK m \in S : \A k \in S : ~(<<k, m>> \in R)
  <2> HIDE DEF R
  <2> QED BY <1>1, WFMin
<1>4. \A k \in S : m <= k
  <2> SUFFICES ASSUME NEW k \in S PROVE ~(k < m)
    OBVIOUS
  <2> HIDE DEF R
  <2> QED BY <1>2, <1>3
<1> QED BY <1>4

\* A set that a number enters when all smaller ones are in it holds them all.
THEOREM AllNaturals ==
    ASSUME NEW S,
           ASSUME NEW n \in Nat, \A m \in Nat : m < n => m \in S
           PROVE  n \in S
    PROVE  Nat \subseteq S
<1>1. SUFFICES ASSUME Nat \ S # {} PROVE FALSE
  OBVIOUS
<1>2. PICK n \in Nat \ S : \A k \in Nat \ S : n <= k
  <2> DEFINE T == Nat \ S
  <2>1. T \subseteq Nat /\ T # {}
    BY <1>1
  <2> HIDE DEF T
  <2>2. \E m \in T : \A k \in T : m <= k
    BY <2>1, LeastNatural
  <2> QED BY <2>2 DEF T
<1>3. \A m \in Nat : m < n => m \in S
  BY <1>2
<1> QED BY <1>2, <1>3

\* A set that holds 0 and passes from each number to the next holds them all,
\* up to a bound.
THEOREM AllUpTo ==
    ASSUME NEW N \in Nat, NEW S, 0 \in S,
           ASSUME NEW n \in 0 .. N - 1, n \in S PROVE n + 1 \in S
    PROVE  0 .. N \subseteq S
<1>1. SUFFICES ASSUME (0 .. N) \ S # {} PROVE FALSE
  OBVIOUS
<1>2. PICK n \in (0 .. N) \ S : \A k \in (0 .. N) \ S : n <= k
  <2> DEFINE T == (0 .. N) \ S
  <2>1. T \subseteq Nat /\ T # {}
    BY <1>1
  <2> HIDE DEF T
  <2>2. \E m \in T : \A k \in T : m <= k
    BY <2>1, LeastNatural
  <2> QED BY <2>2 DEF T
<1>3. n # 0 /\ n - 1 \in 0 .. N - 1
  BY <1>2
<1>4. n - 1 \in S
  BY <1>2, <1>3
<1>5. (n - 1) + 1 \in S
  BY <1>3, <1>4
<1> QED BY <1>2, <1>5

\* f begins with first, and step leads from each of its values, up to the
\* n-th, to the next.
Iterates(f, n, first, step) ==
    f[0] = first /\ \A k \in 1 .. n : f[k] = step[k][f[k - 1]]

\* A function on the numbers up to a bound may be defined from its first
\* value and from the step that leads from each value to the next.
THEOREM RecursionExists ==
    ASSUME NEW N \in Nat, NEW V, NEW first \in V, NEW step \in [1 .. N -> [V -> V]]
    PROVE  \E f \in [0 .. N -> V] : Iterates(f, N, first, step)
<1> DEFINE Starts(n, f) == Iterates(f, n, first, step)
           S == {n \in 0 .. N : \E f \in [0 .. n -> V] : Starts(n, f)}
<1>1. 0 \in S
  <2> DEFINE g == [k \in 0 .. 0 |-> first]
  <2>1. g \in [0 .. 0 -> V] /\ Starts(0, g) /\ 0 \in 0 .. N
    BY DEF Iterates
  <2> HIDE DEF g
  <2> QED BY <2>1
<1>2. ASSUME NEW n \in 0 .. N - 1, n \in S PROVE n + 1 \in S
  <2>1. PICK f \in [0 .. n -> V] : Starts(n, f)
    BY <1>2
  <2> DEFINE g == [k \in 0 .. n + 1 |-> IF k = n + 1 THEN step[k][f[n]] ELSE f[k]]
  <2>2. f[n] \in V /\ n + 1 \in 1 .. N /\ step[n + 1][f[n]] \in V
    BY <1>2
  <2>3. g \in [0 .. n + 1 -> V]
    BY <2>2
  <2>4. g[0] = first
    BY <2>1 DEF Iterates
  <2>5. ASSUME NEW k \in 1 .. n + 1 PROVE g[k] = step[k][g[k - 1]]
    BY <2>1 DEF Iterates
  <2>6. Starts(n + 1, g)
    <3> HIDE DEF g
    <3> QED BY <2>4, <2>5 DEF Iterates
  <2>7. n + 1 \in 0 .. N
    OBVIOUS
  <2> HIDE DEF g, Starts
  <2> QED BY <2>3, <2>6, <2>7
<1>3. 0 .. N \subseteq S
  <2> HIDE DEF S
  <2> QED BY <1>1, <1>2, AllUpTo
<1>4. N \in S
  BY <1>3
<1> QED BY <1>4

\* A finite set of which each element has a number has one with the least.
THEOREM LeastOfFinite ==
    ASSUME NEW S, IsFiniteSet(S), S # {}, NEW rank \in [S -> Int]
    PROVE  \E m \in S : \A k \in S : rank[m] <= rank[k]
<1> DEFINE Bad(T) == T \subseteq S /\ T # {} /\ ~\E m \in T : \A k \in T : rank[m] <= rank[k]
           Sizes == {Cardinality(T) : T \in {U \in SUBSET S : Bad(U)}}
<1>1. SUFFICES ASSUME Bad(S) PROVE FALSE
  OBVIOUS
<1>2. \A T \in SUBSET S : IsFiniteSet(T) /\ Cardinality(T) \in Nat
  BY FS_Subset, FS_CardinalityType
<1>3. Sizes \subseteq Nat /\ Sizes # {}
  BY <1>1, <1>2
<1>4. PICK n \in Sizes : \A k \in Sizes : n <= k
  <2> HIDE DEF Sizes
  <2> QED BY <1>3, LeastNatural
<1>5. PICK T \in SUBSET S : Bad(T) /\ Cardinality(T) = n
  BY <1>4
<1>6. PICK x \in T : TRUE
  BY <1>5
<1> DEFINE U == T \ {x}
<1>7. U \in SUBSET S /\ Cardinality(U) = n - 1 /\ n \in Nat
  BY <1>2, <1>5, <1>6, FS_RemoveElement
<1>8. ~Bad(U)
  <2>1. Bad(U) => Cardinality(U) \in Sizes
    BY <1>7
  <2>2. Cardinality(U) \notin Sizes
    <3> HIDE DEF Sizes, Bad, U
    <3> QED BY <1>4, <1>7
  <2> QED BY <2>1, <2>2
<1>9. CASE U = {}
  <2>1. \A k \in T : k = x
    BY <1>9
  <2> QED BY <2>1, <1>5, <1>6
<1>10. CASE U # {}
  <2>1. PICK m \in U : \A k \in U : rank[m] <= rank[k]
    BY <1>7, <1>8, <1>10
  <2>2. m \in S /\ x \in S /\ rank[m] \in Int /\ rank[x] \in Int
    BY <1>6, <1>7
  <2>3. \A k \in T : k = x \/ k \in U
    OBVIOUS
  <2>4. CASE rank[m] <= rank[x]
    <3>1. \A k \in T : rank[m] <= rank[k]
      BY <2>1, <2>3, <2>4
    <3> QED BY <3>1, <1>5
  <2>5. CASE rank[x] < rank[m]
    <3>1. \A k \in T : rank[k] \in Int
      BY <1>5
    <3>2. \A k \in T : rank[x] <= rank[k]
      BY <2>1, <2>2, <2>3, <2>5, <3>1
    <3> QED BY <3>2, <1>5, <1>6
  <2> QED BY <2>2, <2>4, <2>5
<1> QED BY <1>9, <1>10
=============================================================================
