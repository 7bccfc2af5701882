------------------------------ MODULE LeastNatural ------------------------------
(***************************************************************************)
(* The least-number principle for sets of natural numbers, what the proofs *)
(* need of the remainder of a division, and what follows for a loop of     *)
(* finitely many rounds and for a list in the order of a key.              *)
(***************************************************************************)
EXTENDS Integers, FiniteSetTheorems, WellFoundedInduction, TLAPS

\* Every non-empty set of natural numbers has a least element: whatever the
\* model chooses as the first, the shallowest or the next of a set is there.
LEMMA LeastElement ==
  ASSUME NEW S \in SUBSET Nat, S # {}
  PROVE  \E n \in S : \A k \in S : n <= k
<1> DEFINE R == OpToRel(<, Nat)
<1>1. IsWellFoundedOn(R, Nat)
  BY NatLessThanWellFounded
<1>2. \E n \in S : \A k \in S : <<k, n>> \notin R
  <2> HIDE DEF R
  <2> QED BY <1>1, WFMin
<1>3. \A n, k \in Nat : <<k, n>> \in R <=> k < n
  BY DEF OpToRel
<1>4. \E n \in S : \A k \in S : ~(k < n)
  <2> HIDE DEF R
  <2> QED BY <1>2, <1>3
<1> QED BY <1>4

\* A remainder is below the divisor, and a number below it is its own.
LEMMA Remainder ==
  ASSUME NEW w \in Nat \ {0}, NEW x \in Nat
  PROVE  /\ x % w \in 0..(w - 1)
         /\ x < w => x % w = x /\ (x + w) % w = x
  OBVIOUS

\* A positive multiple of a number is at least that number.
LEMMA Multiple ==
  ASSUME NEW w \in Nat, NEW k \in Nat \ {0}
  PROVE  k * w \in Nat /\ k * w >= w
  OBVIOUS

-----------------------------------------------------------------------------
\* What holds at 0, and of a round if of the one before, holds of n rounds.
LEMMA EveryRound ==
  ASSUME NEW n \in Nat, NEW T, 0 \in T, \A k \in 1..n : k - 1 \in T => k \in T
  PROVE  \A k \in 0..n : k \in T
<1> DEFINE Bad == {k \in 0..n : k \notin T}
<1> SUFFICES ASSUME Bad # {} PROVE FALSE
  OBVIOUS
<1>1. PICK m \in Bad : \A k \in Bad : m <= k
  <2>1. Bad \in SUBSET Nat
    OBVIOUS
  <2> HIDE DEF Bad
  <2> QED BY <2>1, LeastElement
<1>2. m \in 1..n
  BY <1>1
<1>3. m - 1 \in T
  BY <1>1, <1>2
<1> QED BY <1>1, <1>2, <1>3

\* The states a loop of n rounds goes through, from s0 on, all of them in S.
IsRun(run, n, S, s0, Round) ==
  /\ run \in [0..n -> S]
  /\ run[0] = s0
  /\ \A k \in 1..n : run[k] = Round[k][run[k - 1]]

\* A loop of n rounds, each a function of the state it finds, has a run.
LEMMA LoopRuns ==
  ASSUME NEW n \in Nat, NEW S, NEW s0 \in S, NEW Round,
         \A k \in 1..n : \A s \in S : Round[k][s] \in S
  PROVE  \E run : IsRun(run, n, S, s0, Round)
<1> DEFINE Runs(m) == {run \in [0..m -> S] :
                         run[0] = s0 /\ \A k \in 1..m : run[k] = Round[k][run[k - 1]]}
           T == {m \in 0..n : Runs(m) # {}}
<1>1. 0 \in T
  <2>1. [k \in 0..0 |-> s0] \in Runs(0)
    OBVIOUS
  <2> QED BY <2>1
<1>2. ASSUME NEW m \in 1..n, m - 1 \in T
      PROVE  m \in T
  <2>1. PICK run \in Runs(m - 1) : TRUE
    BY <1>2
  <2>2. /\ run \in [0..m - 1 -> S] /\ run[0] = s0
        /\ \A k \in 1..m - 1 : run[k] = Round[k][run[k - 1]]
    BY <2>1
  <2> DEFINE more == [k \in 0..m |-> IF k = m THEN Round[m][run[m - 1]] ELSE run[k]]
  <2>3. Round[m][run[m - 1]] \in S
    BY <2>2
  <2>4. more \in [0..m -> S]
    BY <2>2, <2>3
  <2>5. more[0] = s0
    BY <2>2
  <2>6. \A k \in 1..m : more[k] = Round[k][more[k - 1]]
    BY <2>2
  <2>7. more \in Runs(m)
    <3> HIDE DEF more
    <3> QED BY <2>4, <2>5, <2>6
  <2>8. m \in 0..n /\ Runs(m) # {}
    <3> HIDE DEF Runs, more
    <3> QED BY <2>7
  <2> HIDE DEF Runs
  <2> QED BY <2>8
<1>3. \A k \in 0..n : k \in T
  <2> HIDE DEF T
  <2>1. \A m \in 1..n : m - 1 \in T => m \in T
    BY <1>2
  <2> QED BY <1>1, <2>1, EveryRound
<1>4. n \in T
  <2> HIDE DEF T
  <2> QED BY <1>3
<1>5. PICK run \in Runs(n) : TRUE
  BY <1>4
<1>6. IsRun(run, n, S, s0, Round)
  BY <1>5 DEF IsRun
<1> QED BY <1>6

-----------------------------------------------------------------------------
\* The numbers up to n in the order of a key, equal keys in their own order.
Sooner(n, key, i) == {j \in 1..n : \/ key[j] < key[i]
                                   \/ key[j] = key[i] /\ j < i}

\* How many come sooner tells two of them apart.
LEMMA SoonerRanks ==
  ASSUME NEW n \in Nat, NEW key \in [1..n -> Nat]
  PROVE  /\ \A i \in 1..n : Cardinality(Sooner(n, key, i)) \in 0..n - 1
         /\ \A i, j \in 1..n : i \in Sooner(n, key, j) =>
              Cardinality(Sooner(n, key, i)) < Cardinality(Sooner(n, key, j))
         /\ \A i, j \in 1..n : i # j =>
              i \in Sooner(n, key, j) \/ j \in Sooner(n, key, i)
<1>1. IsFiniteSet(1..n) /\ Cardinality(1..n) = n
  BY FS_Interval
<1>2. \A i \in 1..n : /\ IsFiniteSet(Sooner(n, key, i))
                      /\ Cardinality(Sooner(n, key, i)) \in Nat
                      /\ Sooner(n, key, i) \subseteq 1..n
  BY <1>1, FS_Subset, FS_CardinalityType DEF Sooner
<1>3. \A i \in 1..n : Cardinality(Sooner(n, key, i)) \in 0..n - 1
  <2> SUFFICES ASSUME NEW i \in 1..n PROVE Cardinality(Sooner(n, key, i)) \in 0..n - 1
    OBVIOUS
  <2>1. i \notin Sooner(n, key, i)
    BY DEF Sooner
  <2>2. /\ Cardinality(Sooner(n, key, i)) <= n
        /\ Cardinality(Sooner(n, key, i)) # n
    BY <1>1, <1>2, <2>1, FS_Subset
  <2> QED BY <1>2, <2>2
<1>4. ASSUME NEW i \in 1..n, NEW j \in 1..n, i \in Sooner(n, key, j)
      PROVE  Cardinality(Sooner(n, key, i)) < Cardinality(Sooner(n, key, j))
  <2>1. /\ Sooner(n, key, i) \subseteq Sooner(n, key, j)
        /\ Sooner(n, key, i) # Sooner(n, key, j)
    BY <1>4 DEF Sooner
  <2>2. /\ Cardinality(Sooner(n, key, i)) <= Cardinality(Sooner(n, key, j))
        /\ Cardinality(Sooner(n, key, i)) # Cardinality(Sooner(n, key, j))
    BY <1>2, <2>1, FS_Subset
  <2> QED BY <1>2, <2>2
<1>5. \A i, j \in 1..n : i # j =>
        i \in Sooner(n, key, j) \/ j \in Sooner(n, key, i)
  BY DEF Sooner
<1> QED BY <1>3, <1>4, <1>5

\* Every number of them is the one so many come sooner than.
LEMMA EachRankTaken ==
  ASSUME NEW n \in Nat, NEW key \in [1..n -> Nat], NEW k \in 1..n
  PROVE  \E i \in 1..n : Cardinality(Sooner(n, key, i)) = k - 1
<1> DEFINE rank == [i \in 1..n |-> Cardinality(Sooner(n, key, i)) + 1]
<1>1. rank \in [1..n -> 1..n]
  BY SoonerRanks
<1>2. \A i, j \in 1..n : rank[i] = rank[j] => i = j
  <2> SUFFICES ASSUME NEW i \in 1..n, NEW j \in 1..n, rank[i] = rank[j], i # j
               PROVE  FALSE
    OBVIOUS
  <2>1. /\ Cardinality(Sooner(n, key, i)) \in Int
        /\ Cardinality(Sooner(n, key, j)) \in Int
    BY SoonerRanks
  <2>2. Cardinality(Sooner(n, key, i)) + 1 = Cardinality(Sooner(n, key, j)) + 1
    OBVIOUS
  <2>3. CASE i \in Sooner(n, key, j)
    BY <2>1, <2>2, <2>3, SoonerRanks
  <2>4. CASE j \in Sooner(n, key, i)
    BY <2>1, <2>2, <2>4, SoonerRanks
  <2> QED BY <2>3, <2>4, SoonerRanks
<1>3. \E i \in 1..n : rank[i] = k
  <2> HIDE DEF rank
  <2>1. rank \in Injection(1..n, 1..n)
    BY <1>1, <1>2 DEF Injection, IsInjective
  <2>2. IsFiniteSet(1..n)
    BY FS_Interval
  <2>3. rank \in Surjection(1..n, 1..n)
    BY <2>1, <2>2, FS_Injection
  <2> QED BY <2>3 DEF Surjection
<1>4. \A i \in 1..n : Cardinality(Sooner(n, key, i)) = rank[i] - 1
  BY SoonerRanks
<1> QED
  <2> HIDE DEF rank
  <2> QED BY <1>3, <1>4

\* Put where so many come sooner, each of them has one place, and a smaller key
\* an earlier one.
LEMMA SortedByRank ==
  ASSUME NEW n \in Nat, NEW key \in [1..n -> Nat], NEW order \in [1..n -> 1..n],
         \A k \in 1..n : Cardinality(Sooner(n, key, order[k])) = k - 1
  PROVE  /\ \A i \in 1..n : \E k \in 1..n : order[k] = i
         /\ \A k, m \in 1..n : order[k] = order[m] => k = m
         /\ \A k, m \in 1..n : key[order[k]] < key[order[m]] => k < m
<1>1. \A k, m \in 1..n : order[k] = order[m] => k = m
  <2> SUFFICES ASSUME NEW k \in 1..n, NEW m \in 1..n, order[k] = order[m]
               PROVE  k = m
    OBVIOUS
  <2>1. k - 1 = m - 1
    OBVIOUS
  <2> QED BY <2>1
<1>2. \A i \in 1..n : \E k \in 1..n : order[k] = i
  <2>1. order \in Injection(1..n, 1..n)
    BY <1>1 DEF Injection, IsInjective
  <2>2. IsFiniteSet(1..n)
    BY FS_Interval
  <2>3. order \in Surjection(1..n, 1..n)
    BY <2>1, <2>2, FS_Injection
  <2> QED BY <2>3 DEF Surjection
<1>3. \A k, m \in 1..n : key[order[k]] < key[order[m]] => k < m
  <2> SUFFICES ASSUME NEW k \in 1..n, NEW m \in 1..n, key[order[k]] < key[order[m]]
               PROVE  k < m
    OBVIOUS
  <2>1. order[k] \in Sooner(n, key, order[m])
    BY DEF Sooner
  <2>2. Cardinality(Sooner(n, key, order[k])) < Cardinality(Sooner(n, key, order[m]))
    BY <2>1, SoonerRanks
  <2> QED BY <2>2
<1> QED BY <1>1, <1>2, <1>3
=============================================================================
