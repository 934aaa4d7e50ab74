---------------------------- MODULE SharedLemmas ----------------------------
(***************************************************************************)
(* Facts that the proofs of several modules use: about natural numbers,    *)
(* and about what Lines!Keep returns.                                      *)
(***************************************************************************)
EXTENDS Lines, FiniteSetTheorems, WellFoundedInduction, SequenceTheorems, TLAPS

\* The natural numbers are well ordered: a set of them that is not empty has a
\* least member.
LEMMA LeastNat ==
    ASSUME NEW T \in SUBSET Nat, T # {}
    PROVE  \E m \in T : \A t \in T : m <= t
<1> DEFINE R == OpToRel(<, Nat)
<1>1. IsWellFoundedOn(R, Nat)
  BY NatLessThanWellFounded
<1>2. PICK m \in T : \A t \in T : ~(<<t, m>> \in R)
  <2> HIDE DEF R
  <2> QED BY <1>1, WFMin
<1>3. \A t \in T : ~(t < m)
  BY <1>2 DEF OpToRel
<1> QED BY <1>3

\* A sequence of numbers that starts below n and ends at n or above reaches n
\* in some step.
LEMMA FirstReached ==
    ASSUME NEW N \in Nat, NEW c \in [0..N -> Nat], NEW n \in Nat,
           c[0] < n, n <= c[N]
    PROVE  \E i \in 1..N : c[i - 1] < n /\ n <= c[i]
<1> DEFINE Big == {i \in 0..N : n <= c[i]}
<1>1. Big \in SUBSET Nat /\ N \in Big
  OBVIOUS
<1>2. PICK m \in Big : \A i \in Big : m <= i
  <2> HIDE DEF Big
  <2> QED BY <1>1, LeastNat
<1>3. m \in 1..N /\ n <= c[m]
  OBVIOUS
<1>4. m - 1 \in 0..N /\ ~(m <= m - 1)
  BY <1>3
<1>5. m - 1 \notin Big
  BY <1>2, <1>4
<1>6. c[m - 1] < n
  BY <1>4, <1>5
<1> QED BY <1>3, <1>6

\* The members of a finite set of numbers are ranked 1, 2, ... without a gap.
LEMMA Ranked ==
    ASSUME NEW N \in Nat, NEW at \in SUBSET (1..N),
           NEW n \in 1..Cardinality(at)
    PROVE  \E i \in at : Cardinality({j \in at : j <= i}) = n
<1> DEFINE Below(i) == {j \in at : j <= i}
           c == [i \in 0..N |-> Cardinality(Below(i))]
<1>0. \A j \in at : j \in Nat /\ 1 <= j /\ j <= N
  OBVIOUS
<1>1. IsFiniteSet(at)
  <2>1. IsFiniteSet(1..N)
    BY FS_Interval
  <2> QED BY <2>1, FS_Subset
<1>2. \A i \in 0..N : IsFiniteSet(Below(i)) /\ Cardinality(Below(i)) \in Nat
  BY <1>1, FS_Subset, FS_CardinalityType
<1>3. c \in [0..N -> Nat]
  BY <1>2
<1>4. Cardinality(at) \in Nat
  BY <1>1, FS_CardinalityType
<1>5. n \in Nat /\ 0 < n /\ n <= Cardinality(at)
  BY <1>4
<1>6. c[0] = 0
  <2>1. \A j \in at : ~(j <= 0)
    BY <1>0
  <2>2. Below(0) = {}
    BY <2>1
  <2> HIDE DEF Below
  <2> QED BY <2>2, FS_EmptySet
<1>7. c[N] = Cardinality(at)
  <2>1. Below(N) = at
    BY <1>0
  <2> HIDE DEF Below
  <2> QED BY <2>1
<1>8. ASSUME NEW i \in 1..N
      PROVE  (i \in at => c[i] = c[i - 1] + 1) /\ (i \notin at => c[i] = c[i - 1])
  <2>1. i - 1 \in 0..N /\ i \in 0..N
    OBVIOUS
  <2>2. CASE i \in at
    <3>0. \A j \in at : (j <= i <=> j <= i - 1 \/ j = i) /\ ~(i <= i - 1)
      BY <1>0
    <3>1. Below(i) = Below(i - 1) \cup {i} /\ i \notin Below(i - 1)
      BY <3>0, <2>2
    <3> HIDE DEF Below
    <3>2. Cardinality(Below(i)) = Cardinality(Below(i - 1)) + 1
      BY <1>2, <2>1, <3>1, FS_AddElement
    <3> QED BY <2>1, <2>2, <3>2
  <2>3. CASE i \notin at
    <3>0. \A j \in at : j <= i <=> j <= i - 1
      BY <1>0, <2>3
    <3>1. Below(i) = Below(i - 1)
      BY <3>0
    <3> HIDE DEF Below
    <3> QED BY <2>1, <2>3, <3>1
  <2> QED BY <2>2, <2>3
<1> HIDE DEF c
<1>9. PICK i \in 1..N : c[i - 1] < n /\ n <= c[i]
  BY <1>3, <1>5, <1>6, <1>7, FirstReached
<1>10. c[i - 1] \in Nat /\ c[i] \in Nat
  BY <1>3
<1>11. i \in at /\ c[i] = n
  BY <1>5, <1>8, <1>9, <1>10
<1>12. c[i] = Cardinality({j \in at : j <= i})
  BY DEF c
<1> QED BY <1>11, <1>12

-----------------------------------------------------------------------------

Injective(line) == \A i, j \in DOMAIN line : line[i] = line[j] => i = j

\* What Keep returns are the entries of some places of its argument, in their
\* order.
LEMMA KeepOrder ==
    ASSUME NEW E, NEW line \in Seq(E), NEW S
    PROVE  /\ Keep(line, S) \in Seq(E)
           /\ \E f \in [DOMAIN Keep(line, S) -> DOMAIN line] :
                 /\ \A n \in DOMAIN Keep(line, S) : Keep(line, S)[n] = line[f[n]] /\ line[f[n]] \in S
                 /\ \A m, n \in DOMAIN Keep(line, S) : m < n => f[m] < f[n]
<1> DEFINE at == {i \in DOMAIN line : line[i] \in S}
           Rank(i) == Cardinality({j \in at : j <= i})
           At(n) == CHOOSE i \in at : Rank(i) = n
           kept == Keep(line, S)
<1>1. Len(line) \in Nat /\ DOMAIN line = 1..Len(line)
  OBVIOUS
<1>2. at \in SUBSET (1..Len(line))
  BY <1>1
<1>3. IsFiniteSet(at) /\ Cardinality(at) \in Nat
  <2>1. IsFiniteSet(1..Len(line))
    BY <1>1, FS_Interval
  <2> QED BY <1>2, <2>1, FS_Subset, FS_CardinalityType
<1>4. \A n \in 1..Cardinality(at) : \E i \in at : Rank(i) = n
  <2> HIDE DEF at
  <2> QED BY <1>1, <1>2, Ranked
<1>5. \A n \in 1..Cardinality(at) : At(n) \in at /\ Rank(At(n)) = n
  <2> HIDE DEF at, Rank
  <2> QED BY <1>4
<1>6. kept = [n \in 1..Cardinality(at) |-> line[At(n)]]
  BY DEF Keep
<1>a. \A i, j \in at : i <= j => Rank(i) <= Rank(j)
  <2> SUFFICES ASSUME NEW i \in at, NEW j \in at, i <= j PROVE Rank(i) <= Rank(j)
    OBVIOUS
  <2> DEFINE Below(k) == {l \in at : l <= k}
  <2>0. \A l \in at : l \in Nat
    BY <1>1
  <2>1. Below(i) \subseteq Below(j)
    BY <2>0
  <2>2. IsFiniteSet(Below(j))
    <3>1. Below(j) \subseteq at
      OBVIOUS
    <3> HIDE DEF at, Below
    <3> QED BY <1>3, <3>1, FS_Subset
  <2>3. Rank(i) = Cardinality(Below(i)) /\ Rank(j) = Cardinality(Below(j))
    OBVIOUS
  <2> HIDE DEF at, Below, Rank
  <2> QED BY <2>1, <2>2, <2>3, FS_Subset
<1> HIDE DEF kept, Rank, At
<1>7. DOMAIN kept = 1..Cardinality(at) /\ \A n \in DOMAIN kept : kept[n] = line[At(n)] /\ At(n) \in at
  <2> HIDE DEF at
  <2> QED BY <1>5, <1>6
<1>8. kept \in Seq(E)
  <2>1. \A n \in DOMAIN kept : kept[n] \in E
    BY <1>1, <1>7
  <2> HIDE DEF at
  <2> QED BY <1>3, <1>6, <1>7, <2>1, IsASeq
<1>9. ASSUME NEW m \in DOMAIN kept, NEW n \in DOMAIN kept, m < n
      PROVE  At(m) < At(n)
  <2>1. m \in Nat /\ n \in Nat /\ Rank(At(m)) = m /\ Rank(At(n)) = n
    <3> HIDE DEF at
    <3> QED BY <1>3, <1>5, <1>7
  <2>2. At(m) \in at /\ At(n) \in at
    <3> HIDE DEF at
    <3> QED BY <1>7
  <2>3. At(m) \in Nat /\ At(n) \in Nat
    BY <1>1, <2>2
  <2>4. ~(At(n) <= At(m))
    <3> HIDE DEF at
    <3> QED BY <1>a, <1>9, <2>1, <2>2
  <2> QED BY <2>3, <2>4
<1> DEFINE f == [n \in DOMAIN kept |-> At(n)]
<1>10. f \in [DOMAIN kept -> DOMAIN line]
  BY <1>7
<1>11. \A n \in DOMAIN kept : kept[n] = line[f[n]] /\ line[f[n]] \in S
  BY <1>7
<1>12. \A m, n \in DOMAIN kept : m < n => f[m] < f[n]
  BY <1>9
<1> HIDE DEF f
<1> QED BY <1>8, <1>10, <1>11, <1>12 DEF kept

\* Keep returns elements of its argument that are in the set, and repeats none
\* that the argument does not repeat.
LEMMA KeepProperties ==
    ASSUME NEW E, NEW line \in Seq(E), NEW S
    PROVE  /\ Keep(line, S) \in Seq(E)
           /\ \A n \in DOMAIN Keep(line, S) : /\ Keep(line, S)[n] \in S
                                              /\ \E i \in DOMAIN line : line[i] = Keep(line, S)[n]
           /\ Injective(line) => Injective(Keep(line, S))
<1> DEFINE kept == Keep(line, S)
<1>1. kept \in Seq(E)
  BY KeepOrder
<1>2. PICK f \in [DOMAIN kept -> DOMAIN line] :
         /\ \A n \in DOMAIN kept : kept[n] = line[f[n]] /\ line[f[n]] \in S
         /\ \A m, n \in DOMAIN kept : m < n => f[m] < f[n]
  BY KeepOrder
<1> HIDE DEF kept
<1>3. \A n \in DOMAIN kept : kept[n] \in S /\ \E i \in DOMAIN line : line[i] = kept[n]
  BY <1>2
<1>4. ASSUME Injective(line) PROVE Injective(kept)
  <2> SUFFICES ASSUME NEW n \in DOMAIN kept, NEW m \in DOMAIN kept, kept[n] = kept[m]
               PROVE  n = m
    BY DEF Injective
  <2>1. f[n] = f[m] /\ f[n] \in Nat
    <3>1. DOMAIN line \subseteq Nat
      OBVIOUS
    <3> QED BY <1>2, <1>4, <3>1 DEF Injective
  <2>2. n \in Nat /\ m \in Nat
    BY <1>1
  <2> QED BY <1>2, <2>1, <2>2
<1> QED BY <1>1, <1>3, <1>4 DEF kept

\* Whatever of its argument is in the set is in what Keep returns.
LEMMA KeepMembers ==
    ASSUME NEW E, NEW line \in Seq(E), NEW S, NEW i \in DOMAIN line, line[i] \in S
    PROVE  \E n \in DOMAIN Keep(line, S) : Keep(line, S)[n] = line[i]
<1> DEFINE at == {k \in DOMAIN line : line[k] \in S}
           Below(k) == {j \in at : j <= k}
           Rank(k) == Cardinality(Below(k))
           n == Rank(i)
<1>1. Len(line) \in Nat /\ DOMAIN line = 1..Len(line) /\ i \in at
  OBVIOUS
<1>2. at \in SUBSET (1..Len(line)) /\ \A k \in at : k \in Nat
  BY <1>1
<1>3. IsFiniteSet(at) /\ Cardinality(at) \in Nat
  <2>1. IsFiniteSet(1..Len(line))
    BY <1>1, FS_Interval
  <2> QED BY <1>2, <2>1, FS_Subset, FS_CardinalityType
<1>4. \A k \in at : Below(k) \in SUBSET at /\ k \in Below(k)
  BY <1>2
<1>5. \A k \in at : IsFiniteSet(Below(k)) /\ Rank(k) \in Nat /\ Rank(k) <= Cardinality(at)
  <2> HIDE DEF at, Below
  <2> QED BY <1>3, <1>4, FS_Subset, FS_CardinalityType
<1>6. ASSUME NEW j \in at, NEW k \in at, j <= k, Rank(j) = Rank(k) PROVE j = k
  <2>1. Below(j) \in SUBSET Below(k)
    BY <1>2, <1>6
  <2>2. Below(j) = Below(k)
    <3> HIDE DEF at, Below
    <3> QED BY <1>5, <1>6, <2>1, FS_Subset
  <2>3. k <= j
    BY <1>4, <2>2
  <2> QED BY <1>2, <1>6, <2>3
<1>7. \A j \in at : Rank(j) = n => j = i
  <2> SUFFICES ASSUME NEW j \in at, Rank(j) = Rank(i) PROVE j = i
    OBVIOUS
  <2>1. j <= i \/ i <= j
    BY <1>1, <1>2
  <2> HIDE DEF at, Rank
  <2> QED BY <1>1, <1>6, <2>1
<1>8. n \in 1..Cardinality(at)
  <2>1. i \in Below(i)
    BY <1>1, <1>4
  <2>2. Rank(i) # 0
    <3> HIDE DEF at, Below
    <3> QED BY <1>1, <1>5, <2>1, FS_EmptySet
  <2> HIDE DEF at, Below, Rank
  <2>3. Rank(i) \in Nat /\ Rank(i) <= Cardinality(at)
    BY <1>1, <1>5
  <2> QED BY <1>3, <2>2, <2>3
<1>9. (CHOOSE k \in at : Rank(k) = n) = i
  <2> HIDE DEF at, Rank
  <2> QED BY <1>1, <1>7
<1>10. Keep(line, S) = [k \in 1..Cardinality(at) |-> line[CHOOSE j \in at : Rank(j) = k]]
  BY DEF Keep
<1> HIDE DEF at, Rank, n
<1> QED BY <1>8, <1>9, <1>10

\* Nothing is left out when everything is kept.
LEMMA KeepAll ==
    ASSUME NEW E, NEW line \in Seq(E)
    PROVE  Keep(line, E) = line
<1> DEFINE n == Len(line)
           at == {i \in DOMAIN line : line[i] \in E}
           Rank(i) == Cardinality({j \in at : j <= i})
<1>1. n \in Nat /\ DOMAIN line = 1..n /\ line = [i \in 1..n |-> line[i]]
  OBVIOUS
<1>2. at = 1..n
  OBVIOUS
<1> HIDE DEF n
<1>3. \A i \in Nat : Cardinality(1..i) = i
  <2> SUFFICES ASSUME NEW i \in Nat PROVE Cardinality(1..i) = i
    OBVIOUS
  <2>0. i \in Int /\ 1 \in Int
    OBVIOUS
  <2>1. Cardinality(1..i) = IF 1 > i THEN 0 ELSE i - 1 + 1
    BY ONLY <2>0, FS_Interval, Zenon
  <2> QED BY <2>1
<1>4. \A i \in 1..n : Rank(i) = i
  <2> SUFFICES ASSUME NEW i \in 1..n PROVE Rank(i) = i
    OBVIOUS
  <2> DEFINE below == {j \in at : j <= i}
  <2>1. below = 1..i
    BY <1>1, <1>2
  <2>2. Rank(i) = Cardinality(below)
    OBVIOUS
  <2> HIDE DEF below, Rank
  <2> QED BY <1>1, <1>3, <2>1, <2>2
<1>5. Cardinality(at) = n
  BY <1>1, <1>2, <1>3
<1> HIDE DEF Rank
<1>6. \A k \in 1..n : (CHOOSE i \in at : Rank(i) = k) = k
  BY <1>2, <1>4
<1>7. Keep(line, E) = [k \in 1..Cardinality(at) |-> line[CHOOSE i \in at : Rank(i) = k]]
  BY DEF Keep, Rank
<1>8. Keep(line, E) = [k \in 1..n |-> line[k]]
  <2> DEFINE Nth(k) == CHOOSE i \in at : Rank(i) = k
  <2>1. Keep(line, E) = [k \in 1..n |-> line[Nth(k)]]
    BY <1>5, <1>7
  <2>2. \A k \in 1..n : Nth(k) = k
    BY <1>6
  <2> HIDE DEF at, Nth
  <2> QED BY <2>1, <2>2
<1> QED BY <1>1, <1>8

=============================================================================
