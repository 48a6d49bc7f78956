----------------------------- MODULE NumberSets -----------------------------
(***************************************************************************)
(* Lemmas about sets of numbers: the least, the greatest, and how many are *)
(* no greater than a given one.  The proofs about calls and about leases   *)
(* cite them.                                                              *)
(***************************************************************************)
EXTENDS FiniteSetsExt, FiniteSetTheorems, TLAPS

(* A set of numbers has a least one.                                       *)
LEMMA LeastNumber ==
  ASSUME NEW T, T \subseteq Nat, T # { }
  PROVE  \E n \in T : \A m \in T : n <= m
<1> DEFINE F == { 0..k : k \in T }
<1>1. F \subseteq FiniteSubsetsOf(Nat) /\ F # { }
  <2>1. ASSUME NEW k \in T
        PROVE  0..k \in FiniteSubsetsOf(Nat)
    <3>1. k \in Nat /\ 0 \in Int /\ k \in Int /\ 0..k \subseteq Nat
      OBVIOUS
    <3> QED
      BY <3>1, FS_Interval DEF FiniteSubsetsOf
  <2> QED
    BY <2>1
<1>2. PICK x \in F : \A y \in F : << y, x >> \notin StrictSubsetOrdering(Nat)
  BY <1>1, WFMin, FS_StrictSubsetOrderingWellFounded
<1>3. PICK n \in T : x = 0..n
  OBVIOUS
<1>4. ASSUME NEW m \in T
      PROVE  n <= m
  <2>1. 0..m \in F
    OBVIOUS
  <2>2. ~ (0..m \subseteq 0..n /\ 0..m # 0..n)
    <3>1. << 0..m, 0..n >> \in (SUBSET Nat) \X (SUBSET Nat)
      OBVIOUS
    <3>2. << 0..m, 0..n >> \notin StrictSubsetOrdering(Nat)
      BY <1>2, <1>3, <2>1
    <3> HIDE DEF F
    <3> QED
      BY <3>1, <3>2 DEF StrictSubsetOrdering
  <2>3. CASE m < n
    <3>1. 0..m \subseteq 0..n /\ n \in 0..n /\ n \notin 0..m
      BY <2>3
    <3> QED
      BY <3>1, <2>2
  <2> QED
    BY <2>3
<1> QED
  BY <1>4

(* ... and, if it is bounded, a greatest one, which is its Max.            *)
LEMMA MaxOf ==
  ASSUME NEW n \in Nat, NEW S, S \subseteq 0..n, S # { }
  PROVE  Max(S) \in S /\ \A k \in S : Max(S) >= k
<1> DEFINE T == { n - k : k \in S }
<1>1. T \subseteq Nat /\ T # { }
  <2>1. \A k \in S : n - k \in Nat
    OBVIOUS
  <2> QED
    BY <2>1
<1>2. PICK t \in T : \A u \in T : t <= u
  BY <1>1, LeastNumber
<1>3. PICK m \in S : t = n - m
  BY <1>2
<1>4. \A k \in S : m >= k
  <2>1. ASSUME NEW k \in S
        PROVE  m >= k
    <3>1. n - m <= n - k
      BY <1>2, <1>3
    <3> QED
      BY <3>1
  <2> QED
    BY <2>1
<1> QED
  BY <1>4 DEF Max

LEMMA MaxIs ==
  ASSUME NEW n \in Nat, NEW S, S \subseteq 0..n, NEW m \in S, \A k \in S : m >= k
  PROVE  Max(S) = m
<1>1. Max(S) \in S /\ Max(S) >= m
  BY MaxOf
<1>2. m >= Max(S) /\ m \in 0..n /\ Max(S) \in 0..n
  BY <1>1
<1> QED
  BY <1>1, <1>2

(* The numbers of a set that are no greater than one of them: at least one *)
(* and fewer for a smaller one.                                            *)
LEMMA UpTo ==
  ASSUME NEW n \in Nat, NEW S, S \subseteq 1..n, NEW i \in S
  PROVE  /\ IsFiniteSet(S) /\ Cardinality(S) \in Nat
         /\ Cardinality({ j \in S : j <= i }) \in 1..Cardinality(S)
         /\ \A k \in S : k < i =>
              Cardinality({ j \in S : j <= k }) < Cardinality({ j \in S : j <= i })
<1>1. IsFiniteSet(S) /\ Cardinality(S) \in Nat
  <2>1. IsFiniteSet(1..n)
    BY FS_Interval
  <2> QED
    BY <2>1, FS_Subset, FS_CardinalityType
<1> DEFINE T == { j \in S : j <= i }
<1>2. T \subseteq S /\ i \in T
  OBVIOUS
<1>3. IsFiniteSet(T) /\ Cardinality(T) <= Cardinality(S) /\ Cardinality(T) \in Nat
  <2> HIDE DEF T
  <2> QED
    BY <1>1, <1>2, FS_Subset, FS_CardinalityType
<1>4. Cardinality(T) # 0
  <2> HIDE DEF T
  <2> QED
    BY <1>2, <1>3, FS_EmptySet
<1>5. ASSUME NEW k \in S, k < i
      PROVE  Cardinality({ j \in S : j <= k }) < Cardinality(T)
  <2> DEFINE U == { j \in S : j <= k }
  <2>1. U \subseteq T /\ i \notin U
    <3>1. \A j \in S : j \in Int
      OBVIOUS
    <3>2. \A j \in S : j <= k => j <= i
      BY <1>5, <3>1
    <3>3. ~ (i <= k)
      BY <1>5, <3>1
    <3> QED
      BY <3>2, <3>3
  <2> HIDE DEF T, U
  <2>2. IsFiniteSet(U) /\ Cardinality(U) \in Nat /\ Cardinality(U) <= Cardinality(T)
    BY <1>3, <2>1, FS_Subset, FS_CardinalityType
  <2>3. Cardinality(U) # Cardinality(T)
    BY <1>2, <1>3, <2>1, FS_Subset
  <2> QED
    BY <1>3, <2>2, <2>3 DEF U
<1> QED
  BY <1>1, <1>3, <1>4, <1>5

(* Every number up to the size of the set counts some of its numbers.      *)
LEMMA RankOnto ==
  ASSUME NEW n \in Nat, NEW S, S \subseteq 1..n, NEW r \in 1..Cardinality(S)
  PROVE  \E i \in S : Cardinality({ j \in S : j <= i }) = r
<1> DEFINE T == 1..Cardinality(S)
           f == [ i \in S |-> Cardinality({ j \in S : j <= i }) ]
<1>1. IsFiniteSet(S) /\ Cardinality(S) \in Nat
  <2>1. IsFiniteSet(1..n)
    BY FS_Interval
  <2> QED
    BY <2>1, FS_Subset, FS_CardinalityType
<1>2. IsFiniteSet(T) /\ Cardinality(T) = Cardinality(S)
  <2>1. 1 \in Int /\ Cardinality(S) \in Int
    BY <1>1
  <2> QED
    BY <1>1, <2>1, FS_Interval
<1>3. \A i \in S : f[i] \in T /\ \A k \in S : k < i => f[k] < f[i]
  BY UpTo
<1>4. \A i \in S : i \in Int
  OBVIOUS
<1> HIDE DEF T
<1>5. f \in [S -> T]
  BY <1>3
<1>6. ASSUME NEW i \in S, NEW k \in S, f[i] = f[k]
      PROVE  i = k
  <2>1. i \in Int /\ k \in Int /\ f[i] \in Int
    BY <1>1, <1>3, <1>4 DEF T
  <2> HIDE DEF f
  <2>2. ~ (i < k) /\ ~ (k < i)
    BY <1>3, <1>6, <2>1
  <2> QED
    BY <2>1, <2>2
<1>7. f \in Injection(S, T)
  <2> HIDE DEF f
  <2> QED
    BY <1>5, <1>6 DEF Injection, IsInjective
<1>8. f \in Surjection(S, T)
  <2> HIDE DEF f
  <2> QED
    BY <1>1, <1>2, <1>7, FS_Injection
<1>9. PICK i \in S : f[i] = r
  BY <1>8 DEF Surjection, T
<1> QED
  BY <1>9

(* What holds of 0, and of k + 1 when it holds of k, holds up to n: the    *)
(* set of the numbers it holds of is given.                                *)
LEMMA Upward ==
  ASSUME NEW n \in Nat, NEW T, 0 \in T, \A k \in Nat : k < n /\ k \in T => k + 1 \in T
  PROVE  \A k \in 0..n : k \in T
<1> DEFINE U == { k \in 0..n : k \notin T }
<1> SUFFICES ASSUME U # { } PROVE FALSE
  OBVIOUS
<1>1. PICK k \in U : \A j \in U : k <= j
  <2>1. U \subseteq Nat
    OBVIOUS
  <2> HIDE DEF U
  <2> QED
    BY <2>1, LeastNumber
<1>2. k \in 0..n /\ k \notin T /\ k # 0
  BY <1>1
<1>3. k - 1 \in Nat /\ k - 1 < n /\ k - 1 \in 0..n /\ (k - 1) + 1 = k /\ ~ (k <= k - 1)
  BY <1>2
<1>4. k - 1 \in T
  BY <1>1, <1>3
<1> QED
  BY <1>2, <1>3, <1>4
=============================================================================
