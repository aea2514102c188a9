-------------------------- MODULE SubsequenceProofs --------------------------
(***************************************************************************)
(* What a filtered sequence is and what a total counts: the facts the       *)
(* proofs about the components that filter or add up rest on.              *)
(***************************************************************************)
EXTENDS Subsequence, Functions, FiniteSetsExt, FiniteSetTheorems, TLAPS

\* A position's rank is below the number of positions, and a later one's is
\* larger.
LEMMA RankFits ==
    ASSUME NEW n \in Nat, NEW K \in SUBSET (1 .. n)
    PROVE  /\ IsFiniteSet(K) /\ Cardinality(K) \in 0 .. n
           /\ \A i \in K : Rank(K, i) \in 0 .. Cardinality(K) - 1
           /\ \A i, j \in K : i < j => Rank(K, i) < Rank(K, j)
<1>1. IsFiniteSet(1 .. n) /\ Cardinality(1 .. n) = n
  BY FS_Interval
<1>p. ASSUME NEW S, IsFiniteSet(S), NEW T \in SUBSET S
      PROVE  IsFiniteSet(T) /\ Cardinality(T) \in 0 .. Cardinality(S)
             /\ (T # S => Cardinality(T) < Cardinality(S))
  <2>1. /\ IsFiniteSet(T) /\ Cardinality(T) <= Cardinality(S)
        /\ Cardinality(S) = Cardinality(T) => S = T
    BY <1>p, FS_Subset
  <2>2. Cardinality(T) \in Nat /\ Cardinality(S) \in Nat
    BY <1>p, <2>1, FS_CardinalityType
  <2> QED BY <2>1, <2>2
<1>2. IsFiniteSet(K) /\ Cardinality(K) \in 0 .. n
  BY <1>1, <1>p
<1>3. ASSUME NEW T \in SUBSET K PROVE IsFiniteSet(T) /\ Cardinality(T) \in 0 .. Cardinality(K)
                                      /\ (T # K => Cardinality(T) < Cardinality(K))
  BY <1>2, <1>3, <1>p
<1>4. \A i \in K : Rank(K, i) \in 0 .. Cardinality(K) - 1
  <2> TAKE i \in K
  <2> DEFINE T == {j \in K : j < i}
  <2>1. T \in SUBSET K /\ T # K
    OBVIOUS
  <2> HIDE DEF T
  <2>2. Cardinality(T) \in 0 .. Cardinality(K) - 1
    BY <1>2, <1>3, <2>1
  <2> QED BY <2>2 DEF T, Rank
<1>5. \A i, j \in K : i < j => Rank(K, i) < Rank(K, j)
  <2> SUFFICES ASSUME NEW i \in K, NEW j \in K, i < j PROVE Rank(K, i) < Rank(K, j)
    OBVIOUS
  <2> DEFINE T == {l \in K : l < i}
             U == {l \in K : l < j}
  <2>0. i \in Int /\ j \in Int /\ \A l \in K : l \in Int
    OBVIOUS
  <2>1. T \in SUBSET U /\ T # U /\ U \in SUBSET K
    <3>1. i \in U /\ i \notin T
      BY <2>0
    <3>2. \A l \in T : l \in U
      BY <2>0
    <3> QED BY <3>1, <3>2
  <2>4. Rank(K, i) = Cardinality(T) /\ Rank(K, j) = Cardinality(U)
    BY DEF Rank
  <2> HIDE DEF T, U
  <2>2. IsFiniteSet(U)
    BY <1>3, <2>1
  <2>3. Cardinality(T) < Cardinality(U)
    BY <1>p, <2>1, <2>2
  <2> QED BY <2>3, <2>4
<1> QED BY <1>2, <1>4, <1>5

\* Every rank is taken: Nth and Rank are inverses.
LEMMA NthFits ==
    ASSUME NEW n \in Nat, NEW K \in SUBSET (1 .. n)
    PROVE  /\ \A k \in 1 .. Cardinality(K) : Nth(K, k) \in K /\ Rank(K, Nth(K, k)) = k - 1
           /\ \A i \in K : Nth(K, Rank(K, i) + 1) = i
           /\ \A k, l \in 1 .. Cardinality(K) : k < l => Nth(K, k) < Nth(K, l)
<1> DEFINE c == Cardinality(K)
           T == 0 .. c - 1
           f == [i \in K |-> Rank(K, i)]
<1>1. IsFiniteSet(K) /\ c \in Nat /\ (\A i \in K : Rank(K, i) \in T)
      /\ \A i, j \in K : i < j => Rank(K, i) < Rank(K, j)
  BY RankFits
<1>2. \A i, j \in K : Rank(K, i) = Rank(K, j) => i = j
  <2> SUFFICES ASSUME NEW i \in K, NEW j \in K, i # j PROVE Rank(K, i) # Rank(K, j)
    OBVIOUS
  <2>1. i \in Int /\ j \in Int /\ Rank(K, i) \in Int /\ Rank(K, j) \in Int
    BY <1>1
  <2> QED BY <1>1, <2>1
<1>3. IsFiniteSet(T) /\ Cardinality(T) = c
  BY <1>1, FS_Interval
<1> HIDE DEF c, T
<1>4. f \in Injection(K, T)
  BY <1>1, <1>2 DEF Injection, IsInjective
<1>5. f \in Surjection(K, T)
  BY <1>1, <1>3, <1>4, FS_Injection DEF c
<1>6. \A k \in 1 .. c : \E i \in K : Rank(K, i) = k - 1
  <2> TAKE k \in 1 .. c
  <2>1. k - 1 \in T
    BY <1>1 DEF T
  <2> QED BY <1>5, <2>1 DEF Surjection
<1>7. \A k \in 1 .. c : Nth(K, k) \in K /\ Rank(K, Nth(K, k)) = k - 1
  BY <1>6 DEF Nth
<1>8. \A i \in K : Nth(K, Rank(K, i) + 1) = i
  <2> TAKE i \in K
  <2> DEFINE k == Rank(K, i) + 1
  <2>1. k \in 1 .. c /\ k - 1 = Rank(K, i)
    BY <1>1 DEF T
  <2> HIDE DEF k
  <2>2. Nth(K, k) \in K /\ Rank(K, Nth(K, k)) = Rank(K, i)
    BY <1>7, <2>1
  <2>3. Nth(K, k) = i
    BY <1>2, <2>2
  <2> QED BY <2>3 DEF k
<1>9. \A k, l \in 1 .. c : k < l => Nth(K, k) < Nth(K, l)
  <2> SUFFICES ASSUME NEW k \in 1 .. c, NEW l \in 1 .. c, k < l PROVE Nth(K, k) < Nth(K, l)
    OBVIOUS
  <2>1. Nth(K, k) \in 1 .. n /\ Nth(K, l) \in 1 .. n
    BY <1>7
  <2>2. Nth(K, k) \in K /\ Nth(K, l) \in K
        /\ Rank(K, Nth(K, k)) = k - 1 /\ Rank(K, Nth(K, l)) = l - 1
    BY <1>7
  <2>3. CASE Nth(K, l) < Nth(K, k)
    <3>1. Rank(K, Nth(K, l)) < Rank(K, Nth(K, k))
      BY <1>1, <2>2, <2>3
    <3> QED BY <2>2, <3>1
  <2>4. Nth(K, k) # Nth(K, l)
    BY <1>1, <2>2
  <2> QED BY <2>1, <2>3, <2>4
<1> QED BY <1>7, <1>8, <1>9 DEF c

\* Positions have a first.
LEMMA LeastOf ==
    ASSUME NEW n \in Nat, NEW K \in SUBSET (1 .. n), K # {}
    PROVE  \E x \in K : \A y \in K : x <= y
<1> DEFINE c == Cardinality(K)
           x == Nth(K, 1)
<1>1. c \in 0 .. n /\ c # 0 /\ K \in SUBSET Nat
  BY RankFits, FS_EmptySet
<1>2. 1 \in 1 .. c
  BY <1>1
<1>3. x \in K
  BY <1>2, NthFits
<1>4. ASSUME NEW y \in K PROVE x <= y
  <2>1. PICK k : k = Rank(K, y) + 1
    OBVIOUS
  <2>2. k \in 1 .. c /\ Nth(K, k) = y
    <3>1. Rank(K, y) \in 0 .. c - 1 /\ c \in Nat
      BY <1>1, RankFits
    <3>2. Nth(K, Rank(K, y) + 1) = y
      BY NthFits
    <3> QED BY <2>1, <3>1, <3>2
  <2>3. k # 1 => Nth(K, 1) < Nth(K, k)
    <3>1. k # 1 => 1 < k
      BY <1>1, <2>2
    <3> QED BY <1>2, <2>2, <3>1, NthFits
  <2>4. x \in Nat /\ y \in Nat
    BY <1>1, <1>3
  <2> HIDE DEF x
  <2>5. k = 1 => x = y
    BY <2>2 DEF x
  <2>6. k # 1 => x < y
    BY <2>2, <2>3 DEF x
  <2> QED BY <2>4, <2>5, <2>6
<1> QED BY <1>3, <1>4

\* A filter keeps members of the sequence, in their order, and all it is told to.
LEMMA KeptFits ==
    ASSUME NEW S, NEW s \in Seq(S), NEW K \in SUBSET (DOMAIN s)
    PROVE  /\ Kept(s, K) \in Seq(S) /\ Len(Kept(s, K)) = Cardinality(K)
           /\ Cardinality(K) \in 0 .. Len(s)
           /\ \A k \in 1 .. Cardinality(K) : Nth(K, k) \in K /\ Kept(s, K)[k] = s[Nth(K, k)]
           /\ \A i \in K : \E k \in 1 .. Cardinality(K) : Nth(K, k) = i
           /\ \A k, l \in 1 .. Cardinality(K) : k < l => Nth(K, k) < Nth(K, l)
<1> DEFINE c == Cardinality(K)
<1>1. Len(s) \in Nat /\ K \in SUBSET (1 .. Len(s))
  OBVIOUS
<1>2. c \in 0 .. Len(s) /\ (\A i \in K : Rank(K, i) \in 0 .. c - 1)
  BY <1>1, RankFits, Zenon
<1>3. /\ \A k \in 1 .. c : Nth(K, k) \in K
      /\ \A i \in K : Nth(K, Rank(K, i) + 1) = i
      /\ \A k, l \in 1 .. c : k < l => Nth(K, k) < Nth(K, l)
  BY <1>1, NthFits, Zenon
<1> HIDE DEF c
<1>4. \A k \in 1 .. c : s[Nth(K, k)] \in S
  BY <1>1, <1>3
<1>5. Kept(s, K) = [k \in 1 .. c |-> s[Nth(K, k)]]
  BY DEF Kept, c
<1>6. Kept(s, K) \in Seq(S) /\ Len(Kept(s, K)) = c
  BY <1>2, <1>4, <1>5
<1>7. \A k \in 1 .. c : Kept(s, K)[k] = s[Nth(K, k)]
  BY <1>5
<1>8. \A i \in K : \E k \in 1 .. c : Nth(K, k) = i
  <2> TAKE i \in K
  <2>1. Rank(K, i) + 1 \in 1 .. c
    BY <1>2
  <2> QED BY <1>3, <2>1
<1> QED BY <1>2, <1>3, <1>6, <1>7, <1>8 DEF c

\* The position that has k - 1 of the others before it is the k-th.
LEMMA NthIs ==
    ASSUME NEW n \in Nat, NEW K \in SUBSET (1 .. n), NEW i \in K,
           NEW k \in 1 .. Cardinality(K), Rank(K, i) = k - 1
    PROVE  Nth(K, k) = i
<1>1. Nth(K, Rank(K, i) + 1) = i
  BY NthFits
<1>2. Cardinality(K) \in Int /\ Rank(K, i) + 1 = k
  BY RankFits
<1> QED BY <1>1, <1>2

\* How many positions follow one.
LEMMA IntervalCount ==
    ASSUME NEW m \in Int, NEW n \in Int, m <= n
    PROVE  Cardinality(m + 1 .. n) = n - m
<1>1. Cardinality(m + 1 .. n) = IF m + 1 > n THEN 0 ELSE n - (m + 1) + 1
  BY FS_Interval
<1> QED BY <1>1

\* The size of two sets that share nothing.
LEMMA DisjointCount ==
    ASSUME NEW A, NEW B, IsFiniteSet(A), IsFiniteSet(B), A \cap B = {}
    PROVE  IsFiniteSet(A \cup B) /\ Cardinality(A \cup B) = Cardinality(A) + Cardinality(B)
<1>1. IsFiniteSet(A \cup B)
      /\ Cardinality(A \cup B) = Cardinality(A) + Cardinality(B) - Cardinality(A \cap B)
  BY FS_Union
<1>2. Cardinality(A \cap B) = 0 /\ Cardinality(A) \in Nat /\ Cardinality(B) \in Nat
  BY FS_EmptySet, FS_CardinalityType
<1> QED BY <1>1, <1>2

\* One sequence after another.
LEMMA Concatenated ==
    ASSUME NEW S, NEW s \in Seq(S), NEW t \in Seq(S)
    PROVE  s \o t \in Seq(S) /\ Len(s \o t) = Len(s) + Len(t)
           /\ \A k \in 1 .. Len(s) + Len(t) :
                 (s \o t)[k] = IF k <= Len(s) THEN s[k] ELSE t[k - Len(s)]
OBVIOUS

\* Sequences are equal when their elements are.
LEMMA SameSequence ==
    ASSUME NEW S, NEW s \in Seq(S), NEW t \in Seq(S), Len(s) = Len(t),
           \A k \in 1 .. Len(s) : s[k] = t[k]
    PROVE  s = t
<1>1. DOMAIN s = 1 .. Len(s) /\ DOMAIN t = 1 .. Len(s)
  OBVIOUS
<1>2. s = [k \in 1 .. Len(s) |-> s[k]] /\ t = [k \in 1 .. Len(s) |-> t[k]]
  BY <1>1
<1> QED BY <1>2

\* What a filter keeps between two positions is that part of the sequence.
LEMMA KeptInterval ==
    ASSUME NEW S, NEW s \in Seq(S), NEW n \in 0 .. Len(s), NEW m \in 0 .. n
    PROVE  Kept(s, m + 1 .. n) = SubSeq(s, m + 1, n)
<1> DEFINE K == m + 1 .. n
<1>1. n \in Nat /\ K \in SUBSET (1 .. n) /\ m \in Int /\ m <= n
  OBVIOUS
<1>2. Cardinality(K) = n - m
  BY <1>1, IntervalCount
<1>3. \A k \in 1 .. n - m : Nth(K, k) = m + k
  <2> TAKE k \in 1 .. n - m
  <2>1. {j \in K : j < m + k} = m + 1 .. m + k - 1 /\ m + k \in K
    OBVIOUS
  <2>2. Cardinality(m + 1 .. m + k - 1) = k - 1
    BY FS_Interval
  <2>3. Rank(K, m + k) = k - 1 /\ m + k \in K /\ k \in 1 .. Cardinality(K)
    BY <1>2, <2>1, <2>2 DEF Rank
  <2> HIDE DEF K
  <2> QED BY <1>1, <2>3, NthIs
<1>4. Kept(s, K) = [k \in 1 .. n - m |-> s[Nth(K, k)]]
  BY <1>2 DEF Kept
<1>5. SubSeq(s, m + 1, n) = [k \in 1 .. n - m |-> s[m + k]]
  OBVIOUS
<1> HIDE DEF K
<1>6. [k \in 1 .. n - m |-> s[Nth(K, k)]] = [k \in 1 .. n - m |-> s[m + k]]
  BY <1>3
<1> QED BY <1>4, <1>5, <1>6 DEF K

\* Moving positions along leaves their number.
LEMMA ShiftedCount ==
    ASSUME NEW m \in Nat, NEW T \in SUBSET Nat, IsFiniteSet(T)
    PROVE  LET U == {m + i : i \in T} IN IsFiniteSet(U) /\ Cardinality(U) = Cardinality(T)
<1> DEFINE U == {m + i : i \in T}
           f == [i \in T |-> m + i]
<1>1. f \in [T -> U] /\ (\A i, j \in T : f[i] = f[j] => i = j) /\ \A u \in U : \E i \in T : f[i] = u
  OBVIOUS
<1> HIDE DEF U
<1>2. f \in Bijection(T, U)
  BY <1>1 DEF Bijection, Injection, Surjection, IsInjective
<1>3. IsFiniteSet(U) /\ Cardinality(U) = Cardinality(T)
  BY <1>2, FS_Bijection DEF ExistsBijection
<1> QED BY <1>3 DEF U

\* A filter over a sequence is the filter over its first part, then over the rest.
LEMMA KeptJoin ==
    ASSUME NEW S, NEW s \in Seq(S), NEW m \in 0 .. Len(s), NEW K \in SUBSET (DOMAIN s)
    PROVE  Kept(s, K) = Kept(SubSeq(s, 1, m), Below(K, m))
                        \o Kept(SubSeq(s, m + 1, Len(s)), Beyond(K, m, Len(s)))
<1> DEFINE n == Len(s)
           lo == {i \in K : i <= m}
           hi == {i \in 1 .. n - m : m + i \in K}
           up == {m + i : i \in hi}
           a == Cardinality(lo)
           b == Cardinality(hi)
<1>1. n \in Nat /\ m \in Nat /\ n - m \in Nat /\ K \in SUBSET (1 .. n) /\ s \in [1 .. n -> S]
  OBVIOUS
<1>2. lo \in SUBSET (1 .. m) /\ hi \in SUBSET (1 .. n - m) /\ hi \in SUBSET Nat
      /\ K = lo \cup up /\ lo \cap up = {}
  <2>1. \A i \in K : i > m => i - m \in hi /\ m + (i - m) = i
    BY <1>1
  <2>2. \A i \in K : i \in lo \cup up
    BY <1>1, <2>1
  <2>3. \A i \in up : i \in K /\ i > m
    BY <1>1
  <2>4. lo \in SUBSET (1 .. m) /\ hi \in SUBSET (1 .. n - m) /\ hi \in SUBSET Nat
    BY <1>1
  <2>5. lo \in SUBSET K /\ \A i \in lo : ~(i > m)
    BY <1>1
  <2> HIDE DEF lo, hi, up, n
  <2> QED BY <2>2, <2>3, <2>4, <2>5
<1> HIDE DEF n, lo, hi, up
<1>3. IsFiniteSet(lo) /\ IsFiniteSet(hi) /\ a \in 0 .. m /\ b \in 0 .. n - m
  BY <1>1, <1>2, RankFits
<1>4. IsFiniteSet(up) /\ Cardinality(up) = b
  BY <1>1, <1>2, <1>3, ShiftedCount DEF up
<1> HIDE DEF a, b
<1>5. Cardinality(K) = a + b
  BY <1>2, <1>3, <1>4, DisjointCount DEF a
<1>6. \A k \in 1 .. a : Nth(K, k) = Nth(lo, k) /\ Nth(lo, k) \in 1 .. m
  <2> TAKE k \in 1 .. a
  <2> DEFINE i == Nth(lo, k)
  <2>1. i \in lo /\ Rank(lo, i) = k - 1
    BY <1>1, <1>2, NthFits, Zenon DEF a
  <2> HIDE DEF i
  <2>2. i \in K /\ i \in 1 .. m
    BY <1>2, <2>1
  <2>6. {j \in K : j < i} = {j \in lo : j < i}
    <3>1. \A j \in K : j < i => j \in lo
      BY <1>1, <2>2 DEF lo
    <3> QED BY <1>2, <3>1
  <2>3. Rank(K, i) = k - 1
    BY <2>1, <2>6 DEF Rank
  <2>4. k \in 1 .. Cardinality(K)
    BY <1>3, <1>5
  <2>5. Nth(K, k) = i
    BY <1>1, <2>2, <2>3, <2>4, NthIs
  <2> QED BY <2>2, <2>5 DEF i
<1>7. \A k \in 1 .. b : Nth(K, a + k) = m + Nth(hi, k) /\ Nth(hi, k) \in 1 .. n - m
  <2> TAKE k \in 1 .. b
  <2> DEFINE i == Nth(hi, k)
             T == {j \in hi : j < i}
             V == {m + j : j \in T}
  <2>1. i \in hi /\ Rank(hi, i) = k - 1
    BY <1>1, <1>2, NthFits, Zenon DEF b
  <2> HIDE DEF i
  <2>2. m + i \in K /\ i \in 1 .. n - m
    BY <1>2, <2>1 DEF up
  <2>3. {j \in K : j < m + i} = lo \cup V /\ lo \cap V = {}
    <3>1. \A j \in lo : j < m + i
      BY <1>1, <1>2, <2>2
    <3>2. \A j \in up : j < m + i <=> j \in V
      BY <1>1, <1>2, <2>2 DEF up
    <3>3. V \in SUBSET up
      BY DEF up
    <3> QED BY <1>2, <3>1, <3>2, <3>3
  <2>4. T \in SUBSET Nat /\ IsFiniteSet(T) /\ Cardinality(T) = k - 1
    <3>1. T \in SUBSET hi
      OBVIOUS
    <3>2. IsFiniteSet(T)
      BY <1>3, <3>1, FS_Subset
    <3> QED BY <1>2, <2>1, <3>1, <3>2 DEF Rank
  <2> HIDE DEF T
  <2>5. IsFiniteSet(V) /\ Cardinality(V) = k - 1
    BY <1>1, <2>4, ShiftedCount
  <2> HIDE DEF V
  <2>6. Cardinality(lo \cup V) = a + (k - 1)
    BY <1>3, <2>3, <2>5, DisjointCount DEF a
  <2>7. Rank(K, m + i) = a + k - 1
    BY <1>3, <2>3, <2>6 DEF Rank
  <2>8. a + k \in 1 .. Cardinality(K) /\ a + k - 1 = (a + k) - 1
    BY <1>3, <1>5
  <2>9. Nth(K, a + k) = m + i
    BY <1>1, <2>2, <2>7, <2>8, NthIs
  <2> QED BY <2>2, <2>9 DEF i
<1> DEFINE s1 == SubSeq(s, 1, m)
           s2 == SubSeq(s, m + 1, n)
           k1 == Kept(s1, lo)
           k2 == Kept(s2, hi)
<1>8. /\ s1 \in Seq(S) /\ Len(s1) = m /\ (\A i \in 1 .. m : s1[i] = s[i])
      /\ s2 \in Seq(S) /\ Len(s2) = n - m /\ (\A i \in 1 .. n - m : s2[i] = s[m + i])
  BY DEF n
<1> HIDE DEF s1, s2
<1>9. /\ k1 \in Seq(S) /\ Len(k1) = a /\ \A k \in 1 .. a : k1[k] = s[Nth(K, k)]
  <2>1. lo \in SUBSET (DOMAIN s1)
    BY <1>2, <1>8
  <2>2. k1 \in Seq(S) /\ Len(k1) = a /\ \A k \in 1 .. a : k1[k] = s1[Nth(lo, k)]
    BY <1>8, <2>1, KeptFits DEF a
  <2> HIDE DEF k1
  <2> QED BY <1>6, <1>8, <2>2
<1>10. k2 \in Seq(S) /\ Len(k2) = b /\ \A k \in 1 .. b : k2[k] = s[Nth(K, a + k)]
  <2>1. hi \in SUBSET (DOMAIN s2)
    BY <1>2, <1>8
  <2>2. k2 \in Seq(S) /\ Len(k2) = b /\ \A k \in 1 .. b : k2[k] = s2[Nth(hi, k)]
    BY <1>8, <2>1, KeptFits DEF b
  <2> HIDE DEF k2
  <2> QED BY <1>7, <1>8, <2>2
<1> HIDE DEF k1, k2
<1>11. Kept(s, K) \in Seq(S) /\ Len(Kept(s, K)) = a + b
       /\ \A k \in 1 .. a + b : Kept(s, K)[k] = s[Nth(K, k)]
  BY <1>5, KeptFits
<1>12. k1 \o k2 \in Seq(S) /\ Len(k1 \o k2) = a + b
       /\ \A k \in 1 .. a + b : (k1 \o k2)[k] = IF k <= a THEN k1[k] ELSE k2[k - a]
  <2>1. Len(k1) = a /\ Len(k2) = b
    BY <1>9, <1>10
  <2>2. k1 \o k2 \in Seq(S) /\ Len(k1 \o k2) = Len(k1) + Len(k2)
        /\ \A k \in 1 .. Len(k1) + Len(k2) :
              (k1 \o k2)[k] = IF k <= Len(k1) THEN k1[k] ELSE k2[k - Len(k1)]
    BY <1>9, <1>10, Concatenated, Zenon
  <2> QED BY <2>1, <2>2, Zenon
<1>13. \A k \in 1 .. a + b : s[Nth(K, k)] = IF k <= a THEN k1[k] ELSE k2[k - a]
  <2> TAKE k \in 1 .. a + b
  <2>1. CASE k <= a
    BY <1>3, <1>9, <2>1
  <2>2. CASE ~(k <= a)
    <3>1. k - a \in 1 .. b /\ a + (k - a) = k
      BY <1>3, <2>2
    <3> QED BY <1>10, <2>2, <3>1
  <2> QED BY <2>1, <2>2
<1>14. Kept(s, K) = k1 \o k2
  BY <1>11, <1>12, <1>13, SameSequence
<1> QED BY <1>14 DEF k1, k2, s1, s2, n, lo, hi, Below, Beyond

\* A map that is one-to-one and onto relates sets of one size.
LEMMA Matched ==
    ASSUME NEW S, NEW T, IsFiniteSet(S), NEW f \in [S -> T],
           \A x, y \in S : f[x] = f[y] => x = y, \A t \in T : \E x \in S : f[x] = t
    PROVE  IsFiniteSet(T) /\ Cardinality(T) = Cardinality(S)
<1>1. f \in Bijection(S, T)
  BY DEF Bijection, Injection, Surjection, IsInjective
<1> QED BY <1>1, FS_Bijection DEF ExistsBijection

-----------------------------------------------------------------------------
(* A filter by value.                                                       *)

Differ(s) == \A i, j \in DOMAIN s : i # j => s[i] # s[j]

\* The elements kept of a sequence of different ones are different.
LEMMA KeptDiffer ==
    ASSUME NEW S, NEW s \in Seq(S), NEW K \in SUBSET (DOMAIN s), Differ(s)
    PROVE  Differ(Kept(s, K))
<1> DEFINE t == Kept(s, K)
<1>1. /\ t \in Seq(S) /\ Len(t) = Cardinality(K) /\ Cardinality(K) \in Nat
      /\ \A k \in 1 .. Cardinality(K) : Nth(K, k) \in K /\ t[k] = s[Nth(K, k)]
      /\ \A k, l \in 1 .. Cardinality(K) : k < l => Nth(K, k) < Nth(K, l)
  BY KeptFits
<1>2. DOMAIN t = 1 .. Cardinality(K)
  BY <1>1
<1> HIDE DEF t
<1>3. ASSUME NEW k \in DOMAIN t, NEW l \in DOMAIN t, k < l PROVE t[k] # t[l]
  <2>1. Nth(K, k) < Nth(K, l) /\ Nth(K, k) \in K /\ Nth(K, l) \in K
    BY <1>1, <1>2, <1>3
  <2>2. Nth(K, k) \in Int /\ Nth(K, l) \in Int /\ Nth(K, k) \in DOMAIN s /\ Nth(K, l) \in DOMAIN s
    BY <2>1
  <2>3. s[Nth(K, k)] # s[Nth(K, l)]
    BY <2>1, <2>2 DEF Differ
  <2> QED BY <1>1, <1>2, <2>3
<1>4. ASSUME NEW k \in DOMAIN t, NEW l \in DOMAIN t, k # l PROVE t[k] # t[l]
  <2>1. k \in Int /\ l \in Int
    BY <1>1, <1>2
  <2>2. k < l \/ l < k
    BY <1>4, <2>1
  <2> QED BY <1>3, <2>2
<1> QED BY <1>4 DEF t, Differ

\* What a filter by value is.
LEMMA SiftFits ==
    ASSUME NEW S, NEW s \in Seq(S), NEW T
    PROVE  /\ Sift(s, T) \in Seq(S) /\ Len(Sift(s, T)) \in 0 .. Len(s)
           /\ \A k \in DOMAIN Sift(s, T) : Sift(s, T)[k] \in T /\ \E i \in DOMAIN s : s[i] = Sift(s, T)[k]
           /\ \A i \in DOMAIN s : s[i] \in T => \E k \in DOMAIN Sift(s, T) : Sift(s, T)[k] = s[i]
           /\ Differ(s) => Differ(Sift(s, T))
<1> DEFINE K == {i \in DOMAIN s : s[i] \in T}
           t == Kept(s, K)
<1>1. K \in SUBSET (DOMAIN s) /\ \A i \in DOMAIN s : i \in K <=> s[i] \in T
  OBVIOUS
<1>2. Sift(s, T) = t
  BY DEF Sift
<1> HIDE DEF K
<1>3. /\ t \in Seq(S) /\ Len(t) = Cardinality(K) /\ Cardinality(K) \in 0 .. Len(s)
      /\ \A k \in 1 .. Cardinality(K) : Nth(K, k) \in K /\ t[k] = s[Nth(K, k)]
      /\ \A i \in K : \E k \in 1 .. Cardinality(K) : Nth(K, k) = i
  BY <1>1, KeptFits
<1>4. Differ(s) => Differ(t)
  BY <1>1, KeptDiffer
<1>5. DOMAIN t = 1 .. Cardinality(K)
  BY <1>3
<1> HIDE DEF t
<1> QED BY <1>1, <1>2, <1>3, <1>4, <1>5

\* A sequence without one value.
LEMMA WithoutFits ==
    ASSUME NEW S, NEW s \in Seq(S), NEW e
    PROVE  /\ Without(s, e) \in Seq(S) /\ Len(Without(s, e)) \in 0 .. Len(s)
           /\ \A k \in DOMAIN Without(s, e) :
                 Without(s, e)[k] # e /\ \E i \in DOMAIN s : s[i] = Without(s, e)[k]
           /\ \A i \in DOMAIN s : s[i] # e => \E k \in DOMAIN Without(s, e) : Without(s, e)[k] = s[i]
           /\ Differ(s) => Differ(Without(s, e))
<1> DEFINE T == S \ {e}
<1>1. \A i \in DOMAIN s : s[i] # e <=> s[i] \in T
  OBVIOUS
<1>2. Without(s, e) = Sift(s, T)
  <2>1. {i \in DOMAIN s : s[i] # e} = {i \in DOMAIN s : s[i] \in T}
    BY <1>1
  <2> QED BY <2>1 DEF Without, Sift
<1>3. \A x \in T : x # e
  OBVIOUS
<1> HIDE DEF T
<1> QED BY <1>1, <1>2, <1>3, SiftFits

\* Two filters that part a sequence part its length.
LEMMA SiftParts ==
    ASSUME NEW S, NEW s \in Seq(S), NEW T, NEW U, \A x \in S : x \in T <=> x \notin U
    PROVE  Len(Sift(s, T)) + Len(Sift(s, U)) = Len(s)
<1> DEFINE A == {i \in DOMAIN s : s[i] \in T}
           B == {i \in DOMAIN s : s[i] \in U}
           n == Len(s)
<1>1. n \in Nat /\ DOMAIN s = 1 .. n /\ A \in SUBSET (DOMAIN s) /\ B \in SUBSET (DOMAIN s)
      /\ A \cap B = {} /\ A \cup B = 1 .. n
  OBVIOUS
<1>2. Len(Sift(s, T)) = Cardinality(A) /\ Len(Sift(s, U)) = Cardinality(B)
  BY <1>1, KeptFits DEF Sift
<1> HIDE DEF A, B, n
<1>3. IsFiniteSet(A) /\ IsFiniteSet(B)
  BY <1>1, RankFits
<1>4. Cardinality(1 .. n) = n
  BY <1>1, FS_Interval
<1>5. Cardinality(A \cup B) = Cardinality(A) + Cardinality(B)
  BY <1>1, <1>3, DisjointCount
<1> QED BY <1>1, <1>2, <1>4, <1>5 DEF n

-----------------------------------------------------------------------------
(* Pairs in the order of nested loops.                                      *)

Earlier(P, p) == {q \in P : Before(q, p)}

\* The rank of a pair, as RankFits has it for positions.
LEMMA PairRank ==
    ASSUME NEW P \in SUBSET (Int \X Int), IsFiniteSet(P)
    PROVE  /\ Cardinality(P) \in Nat
           /\ \A p \in P : Cardinality(Earlier(P, p)) \in 0 .. Cardinality(P) - 1
           /\ \A p, q \in P : Before(p, q) => Cardinality(Earlier(P, p)) < Cardinality(Earlier(P, q))
           /\ \A p, q \in P : p # q => Before(p, q) \/ Before(q, p)
<1>1. ASSUME NEW S, IsFiniteSet(S), NEW T \in SUBSET S, T # S
      PROVE  IsFiniteSet(T) /\ Cardinality(T) \in 0 .. Cardinality(S) - 1
  <2>1. /\ IsFiniteSet(T) /\ Cardinality(T) <= Cardinality(S)
        /\ Cardinality(S) = Cardinality(T) => S = T
    BY <1>1, FS_Subset
  <2>2. Cardinality(T) \in Nat /\ Cardinality(S) \in Nat
    BY <1>1, <2>1, FS_CardinalityType
  <2> QED BY <1>1, <2>1, <2>2
<1>0. \A p \in P : p[1] \in Int /\ p[2] \in Int /\ p = <<p[1], p[2]>>
  OBVIOUS
<1>2. \A p \in P : ~Before(p, p)
  BY <1>0 DEF Before
<1>3. \A p, q \in P : p # q => Before(p, q) \/ Before(q, p)
  <2> SUFFICES ASSUME NEW p \in P, NEW q \in P, ~Before(p, q), ~Before(q, p) PROVE p = q
    OBVIOUS
  <2>1. p[1] = q[1] /\ p[2] = q[2]
    BY <1>0 DEF Before
  <2> QED BY <1>0, <2>1
<1>4. \A p \in P : Earlier(P, p) \in SUBSET P /\ Earlier(P, p) # P
  BY <1>2 DEF Earlier
<1>5. \A p \in P : Cardinality(Earlier(P, p)) \in 0 .. Cardinality(P) - 1
  BY <1>1, <1>4
<1>6. ASSUME NEW p \in P, NEW q \in P, Before(p, q)
      PROVE  Cardinality(Earlier(P, p)) < Cardinality(Earlier(P, q))
  <2>1. \A x \in P : Before(x, p) => Before(x, q)
    BY <1>0, <1>6 DEF Before
  <2>2. p \in Earlier(P, q) /\ p \notin Earlier(P, p) /\ Earlier(P, p) \in SUBSET Earlier(P, q)
    BY <1>2, <1>6, <2>1 DEF Earlier
  <2>3. IsFiniteSet(Earlier(P, q))
    BY <1>4, FS_Subset
  <2>4. Cardinality(Earlier(P, p)) \in 0 .. Cardinality(Earlier(P, q)) - 1
    BY <1>1, <2>2, <2>3
  <2>5. Cardinality(Earlier(P, q)) \in Nat
    BY <2>3, FS_CardinalityType
  <2> QED BY <2>4, <2>5
<1> QED BY <1>3, <1>5, <1>6, FS_CardinalityType

\* InOrder lists every pair once, the earlier ones first.
LEMMA InOrderFits ==
    ASSUME NEW P \in SUBSET (Int \X Int), IsFiniteSet(P)
    PROVE  /\ InOrder(P) \in Seq(P) /\ Len(InOrder(P)) = Cardinality(P) /\ Cardinality(P) \in Nat
           /\ DOMAIN InOrder(P) = 1 .. Cardinality(P)
           /\ \A p \in P : \E k \in DOMAIN InOrder(P) : InOrder(P)[k] = p
           /\ \A k, l \in DOMAIN InOrder(P) : k < l => Before(InOrder(P)[k], InOrder(P)[l])
           /\ \A k \in DOMAIN InOrder(P) : Cardinality(Earlier(P, InOrder(P)[k])) = k - 1
           /\ Differ(InOrder(P))
<1> DEFINE c == Cardinality(P)
           T == 0 .. c - 1
           f == [p \in P |-> Cardinality(Earlier(P, p))]
           t == InOrder(P)
<1>1. /\ c \in Nat /\ (\A p \in P : Cardinality(Earlier(P, p)) \in T)
      /\ \A p, q \in P : Before(p, q) => Cardinality(Earlier(P, p)) < Cardinality(Earlier(P, q))
      /\ \A p, q \in P : p # q => Before(p, q) \/ Before(q, p)
  BY PairRank
<1>2. \A p, q \in P : Cardinality(Earlier(P, p)) = Cardinality(Earlier(P, q)) => p = q
  <2> SUFFICES ASSUME NEW p \in P, NEW q \in P, p # q
               PROVE Cardinality(Earlier(P, p)) # Cardinality(Earlier(P, q))
    OBVIOUS
  <2>1. Cardinality(Earlier(P, p)) \in Int /\ Cardinality(Earlier(P, q)) \in Int
    BY <1>1
  <2> QED BY <1>1, <2>1
<1>3. IsFiniteSet(T) /\ Cardinality(T) = c
  <2>1. PICK n \in Nat : n = c
    BY <1>1
  <2>2. IsFiniteSet(0 .. n - 1) /\ Cardinality(0 .. n - 1) = n
    BY FS_Interval
  <2> QED BY <2>1, <2>2
<1>t. t = [k \in 1 .. c |-> CHOOSE p \in P : Cardinality(Earlier(P, p)) = k - 1]
  BY DEF InOrder, Earlier
<1> HIDE DEF c, T, t
<1>4. f \in Injection(P, T)
  BY <1>1, <1>2 DEF Injection, IsInjective
<1>5. f \in Surjection(P, T)
  BY <1>1, <1>3, <1>4, FS_Injection DEF c
<1>6. \A k \in 1 .. c : \E p \in P : Cardinality(Earlier(P, p)) = k - 1
  <2> TAKE k \in 1 .. c
  <2>1. k - 1 \in T
    BY <1>1 DEF T
  <2> QED BY <1>5, <2>1 DEF Surjection
<1>7. \A k \in 1 .. c : t[k] \in P /\ Cardinality(Earlier(P, t[k])) = k - 1
  BY <1>6, <1>t
<1>8. t \in Seq(P) /\ Len(t) = c /\ DOMAIN t = 1 .. c
  <2>1. t \in [1 .. c -> P]
    BY <1>7, <1>t
  <2> QED BY <1>1, <2>1
<1>9. \A p \in P : \E k \in 1 .. c : t[k] = p
  <2> TAKE p \in P
  <2>1. PICK k \in Int : k = Cardinality(Earlier(P, p)) + 1
    BY <1>1 DEF T
  <2>2. k \in 1 .. c /\ k - 1 = Cardinality(Earlier(P, p))
    BY <1>1, <2>1 DEF T
  <2>3. t[k] = p
    BY <1>2, <1>7, <2>2
  <2> QED BY <2>2, <2>3
<1>10. \A k, l \in 1 .. c : k < l => Before(t[k], t[l])
  <2> SUFFICES ASSUME NEW k \in 1 .. c, NEW l \in 1 .. c, k < l PROVE Before(t[k], t[l])
    OBVIOUS
  <2>1. k - 1 < l - 1 /\ ~(l - 1 < k - 1) /\ k - 1 # l - 1
    BY <1>1
  <2> HIDE DEF f
  <2>2. t[k] # t[l]
    BY <1>7, <2>1
  <2>3. k - 1 \in Int /\ l - 1 \in Int /\ ~(Cardinality(Earlier(P, t[l])) < Cardinality(Earlier(P, t[k])))
    BY <1>7, <2>1
  <2>4. ~Before(t[l], t[k])
    BY <1>1, <1>7, <2>3, Zenon
  <2> QED BY <1>1, <1>7, <2>2, <2>4, Zenon
<1>11. Differ(t)
  <2> SUFFICES ASSUME NEW k \in 1 .. c, NEW l \in 1 .. c, k # l PROVE t[k] # t[l]
    BY <1>8 DEF Differ
  <2>1. k - 1 # l - 1
    BY <1>1
  <2> QED BY <1>7, <2>1
<1> QED BY <1>1, <1>7, <1>8, <1>9, <1>10, <1>11 DEF c, t

-----------------------------------------------------------------------------
(* The least of finitely many, by a number each has.                        *)

Under(S, key, x) == {y \in S : key[y] < key[x]}

\* One of them has the least number.
LEMMA LeastByKey ==
    ASSUME NEW S, IsFiniteSet(S), S # {}, NEW key \in [S -> Int]
    PROVE  \E x \in S : \A y \in S : key[x] <= key[y]
<1> DEFINE n == Cardinality(S)
           Ranks == {Cardinality(Under(S, key, x)) + 1 : x \in S}
<1>1. \A x \in S : key[x] \in Int
  OBVIOUS
<1>2. ASSUME NEW x \in S
      PROVE  IsFiniteSet(Under(S, key, x)) /\ Cardinality(Under(S, key, x)) + 1 \in 1 .. n
             /\ Cardinality(Under(S, key, x)) \in Int
  <2>1. Under(S, key, x) \in SUBSET S /\ x \notin Under(S, key, x)
    BY <1>1 DEF Under
  <2>2. IsFiniteSet(Under(S, key, x)) /\ Cardinality(Under(S, key, x)) <= n
        /\ Cardinality(Under(S, key, x)) # n
    BY <2>1, FS_Subset
  <2>3. Cardinality(Under(S, key, x)) \in Nat /\ n \in Nat
    BY <2>2, FS_CardinalityType
  <2> QED BY <2>2, <2>3
<1>3. n \in Nat
  BY FS_CardinalityType
<1>4. Ranks \in SUBSET (1 .. n) /\ Ranks # {}
  BY <1>2
<1> HIDE DEF n
<1>5. PICK least \in Ranks : \A y \in Ranks : least <= y
  <2> HIDE DEF Ranks
  <2> QED BY <1>3, <1>4, LeastOf
<1>6. PICK x \in S : least = Cardinality(Under(S, key, x)) + 1
  BY <1>5
<1>7. ASSUME NEW y \in S, key[y] < key[x] PROVE FALSE
  <2>1. Under(S, key, y) \in SUBSET Under(S, key, x) /\ y \in Under(S, key, x) /\ y \notin Under(S, key, y)
    BY <1>1, <1>7 DEF Under
  <2>2. Cardinality(Under(S, key, y)) <= Cardinality(Under(S, key, x))
        /\ Cardinality(Under(S, key, y)) # Cardinality(Under(S, key, x))
    <3>1. IsFiniteSet(Under(S, key, x))
      BY <1>2
    <3> QED BY <2>1, <3>1, FS_Subset
  <2>3. Cardinality(Under(S, key, y)) + 1 \in Ranks
    OBVIOUS
  <2>4. least <= Cardinality(Under(S, key, y)) + 1
    BY <1>5, <2>3
  <2>5. PICK a \in Int : a = Cardinality(Under(S, key, y))
    BY <1>2
  <2>6. PICK b \in Int : b = Cardinality(Under(S, key, x))
    BY <1>2
  <2>7. a <= b /\ a # b /\ b + 1 <= a + 1
    BY <1>6, <2>2, <2>4, <2>5, <2>6
  <2> QED BY <2>7
<1> QED BY <1>1, <1>7

-----------------------------------------------------------------------------
(* Numbers, finite sets, and what is left of a sequence.                    *)

\* The largest and the smallest of finitely many numbers.
LEMMA MinFits ==
    ASSUME NEW S \in SUBSET Int, IsFiniteSet(S), S # {}
    PROVE  Min(S) \in S /\ \A y \in S : Min(S) <= y
<1> DEFINE value == [x \in S |-> x]
<1>1. value \in [S -> Int]
  OBVIOUS
<1>2. PICK x \in S : \A y \in S : value[x] <= value[y]
  <2> HIDE DEF value
  <2> QED BY <1>1, LeastByKey
<1>3. \A y \in S : x <= y
  BY <1>2
<1> QED BY <1>3 DEF Min

\* The greatest of a finite set of numbers.
LEMMA MaxFits ==
    ASSUME NEW S \in SUBSET Int, IsFiniteSet(S), S # {}
    PROVE  Max(S) \in S /\ \A y \in S : y <= Max(S)
<1> DEFINE value == [x \in S |-> 0 - x]
<1>1. value \in [S -> Int]
  OBVIOUS
<1>2. PICK x \in S : \A y \in S : value[x] <= value[y]
  <2> HIDE DEF value
  <2> QED BY <1>1, LeastByKey
<1>3. \A y \in S : x >= y
  BY <1>2
<1>4. Max(S) \in S /\ \A y \in S : Max(S) >= y
  BY <1>3 DEF Max
<1> QED BY <1>4

\* The smaller of two numbers.
LEMMA MinOfTwo ==
    ASSUME NEW a \in Int, NEW b \in Int
    PROVE  Min({a, b}) = IF a <= b THEN a ELSE b
<1>1. IsFiniteSet({a, b})
  <2>1. IsFiniteSet({a}) /\ IsFiniteSet({b})
    BY FS_Singleton
  <2>2. IsFiniteSet({a} \cup {b})
    BY <2>1, FS_Union
  <2> QED BY <2>2
<1>2. Min({a, b}) \in {a, b} /\ \A y \in {a, b} : Min({a, b}) <= y
  BY <1>1, MinFits
<1>3. PICK m : m = Min({a, b})
  OBVIOUS
<1>4. m <= a /\ m <= b /\ (m = a \/ m = b)
  BY <1>2, <1>3
<1>5. m = IF a <= b THEN a ELSE b
  BY <1>4
<1> QED BY <1>3, <1>5

\* A set of numbers up to n is finite.
LEMMA BoundedFinite ==
    ASSUME NEW n \in Nat, NEW K \in SUBSET (0 .. n)
    PROVE  IsFiniteSet(K) /\ K \in SUBSET Int
<1>1. IsFiniteSet(0 .. n)
  BY FS_Interval
<1>2. IsFiniteSet(K)
  BY <1>1, FS_Subset, Zenon
<1> QED BY <1>2

\* The first n numbers.
LEMMA UpTo == ASSUME NEW n \in Nat PROVE IsFiniteSet(1 .. n) /\ Cardinality(1 .. n) = n
BY FS_Interval

\* What a sequence holds is finitely many.
LEMMA RangeFinite ==
    ASSUME NEW S, NEW s \in Seq(S)
    PROVE  IsFiniteSet(Range(s)) /\ Range(s) \in SUBSET S
<1>1. IsFiniteSet(1 .. Len(s))
  BY FS_Interval
<1>2. s \in Surjection(1 .. Len(s), Range(s))
  BY DEF Surjection, Range
<1>3. IsFiniteSet(Range(s))
  BY <1>1, <1>2, FS_Surjection
<1>4. \A i \in DOMAIN s : s[i] \in S
  OBVIOUS
<1> QED BY <1>3, <1>4 DEF Range

\* What is left of a sequence, as a set.
LEMMA SiftRange ==
    ASSUME NEW S, NEW s \in Seq(S), NEW T
    PROVE  /\ Sift(s, T) \in Seq(S) /\ Len(Sift(s, T)) \in 0 .. Len(s)
           /\ Range(Sift(s, T)) = Range(s) \cap T
           /\ Differ(s) => Differ(Sift(s, T))
<1> DEFINE t == Sift(s, T)
<1>1. /\ t \in Seq(S) /\ Len(t) \in 0 .. Len(s)
      /\ \A k \in DOMAIN t : t[k] \in T /\ \E i \in DOMAIN s : s[i] = t[k]
      /\ \A i \in DOMAIN s : s[i] \in T => \E k \in DOMAIN t : t[k] = s[i]
      /\ Differ(s) => Differ(t)
  BY SiftFits, Zenon
<1> HIDE DEF t
<1>2. Range(t) = Range(s) \cap T
  BY <1>1 DEF Range
<1> QED BY <1>1, <1>2 DEF t

\* The same, when one element is left out.
LEMMA WithoutRange ==
    ASSUME NEW S, NEW s \in Seq(S), NEW e
    PROVE  /\ Without(s, e) \in Seq(S) /\ Len(Without(s, e)) \in 0 .. Len(s)
           /\ Range(Without(s, e)) = Range(s) \ {e}
           /\ Differ(s) => Differ(Without(s, e))
<1> DEFINE t == Without(s, e)
<1>1. /\ t \in Seq(S) /\ Len(t) \in 0 .. Len(s)
      /\ \A k \in DOMAIN t : t[k] # e /\ \E i \in DOMAIN s : s[i] = t[k]
      /\ \A i \in DOMAIN s : s[i] # e => \E k \in DOMAIN t : t[k] = s[i]
      /\ Differ(s) => Differ(t)
  BY WithoutFits, Zenon
<1> HIDE DEF t
<1>2. Range(t) = Range(s) \ {e}
  BY <1>1 DEF Range
<1> QED BY <1>1, <1>2 DEF t

\* One sequence after another, as sets.
LEMMA JoinRange ==
    ASSUME NEW S, NEW a \in Seq(S), NEW b \in Seq(S), Differ(a), Differ(b), Range(a) \cap Range(b) = {}
    PROVE  /\ a \o b \in Seq(S) /\ Len(a \o b) = Len(a) + Len(b)
           /\ Range(a \o b) = Range(a) \cup Range(b) /\ Differ(a \o b)
<1> DEFINE t == a \o b
<1>1. /\ t \in Seq(S) /\ Len(t) = Len(a) + Len(b)
      /\ \A k \in 1 .. Len(a) + Len(b) : t[k] = IF k <= Len(a) THEN a[k] ELSE b[k - Len(a)]
  BY Concatenated
<1> HIDE DEF t
<1>2. /\ Len(a) \in Nat /\ Len(b) \in Nat /\ DOMAIN a = 1 .. Len(a) /\ DOMAIN b = 1 .. Len(b)
      /\ DOMAIN t = 1 .. Len(a) + Len(b)
  BY <1>1
<1>3. \A k \in DOMAIN t : \/ k \in DOMAIN a /\ t[k] = a[k]
                          \/ k - Len(a) \in DOMAIN b /\ t[k] = b[k - Len(a)]
  BY <1>1, <1>2
<1>4. /\ \A k \in DOMAIN a : k \in DOMAIN t /\ t[k] = a[k]
      /\ \A k \in DOMAIN b : k + Len(a) \in DOMAIN t /\ t[k + Len(a)] = b[k]
  <2>1. \A k \in DOMAIN a : k \in DOMAIN t /\ t[k] = a[k]
    BY <1>1, <1>2
  <2>2. ASSUME NEW k \in DOMAIN b PROVE k + Len(a) \in DOMAIN t /\ t[k + Len(a)] = b[k]
    <3>1. k \in Nat /\ k > 0 /\ k <= Len(b)
      BY <1>2
    <3>2. k + Len(a) \in 1 .. Len(a) + Len(b) /\ ~(k + Len(a) <= Len(a)) /\ (k + Len(a)) - Len(a) = k
      BY <1>2, <3>1
    <3> QED BY <1>1, <1>2, <3>2
  <2> QED BY <2>1, <2>2
<1>5. Range(t) = Range(a) \cup Range(b)
  BY <1>3, <1>4 DEF Range
<1>6. Differ(t)
  <2> SUFFICES ASSUME NEW i \in DOMAIN t, NEW j \in DOMAIN t, i # j PROVE t[i] # t[j]
    BY DEF Differ
  <2>1. i \in Nat /\ j \in Nat
    BY <1>2
  <2>2. CASE i \in DOMAIN a /\ j \in DOMAIN a /\ t[i] = a[i] /\ t[j] = a[j]
    BY <2>2 DEF Differ
  <2>3. CASE i - Len(a) \in DOMAIN b /\ j - Len(a) \in DOMAIN b /\ t[i] = b[i - Len(a)] /\ t[j] = b[j - Len(a)]
    <3>1. i - Len(a) # j - Len(a)
      BY <1>2, <2>1
    <3> QED BY <2>3, <3>1 DEF Differ
  <2>4. /\ \A k \in DOMAIN a : a[k] \in Range(a)
        /\ \A k \in DOMAIN b : b[k] \in Range(b)
    BY DEF Range
  <2> QED BY <1>3, <2>2, <2>3, <2>4
<1> QED BY <1>1, <1>5, <1>6 DEF t

\* What a filter keeps of a sequence, when what it keeps is of a type.
LEMMA KeptIn ==
    ASSUME NEW S, NEW n \in Nat, NEW s, NEW K \in SUBSET (1 .. n), \A i \in K : s[i] \in S
    PROVE  Kept(s, K) \in Seq(S)
<1>1. Cardinality(K) \in Nat /\ \A k \in 1 .. Cardinality(K) : Nth(K, k) \in K
  <2>1. Cardinality(K) \in 0 .. n
    BY RankFits, Zenon
  <2>2. \A k \in 1 .. Cardinality(K) : Nth(K, k) \in K
    BY NthFits, Zenon
  <2> QED BY <2>1, <2>2
<1>2. \A k \in 1 .. Cardinality(K) : s[Nth(K, k)] \in S
  BY <1>1
<1>3. Kept(s, K) \in [1 .. Cardinality(K) -> S]
  BY <1>2 DEF Kept
<1> QED BY <1>1, <1>3

-----------------------------------------------------------------------------
(* Totals.                                                                  *)

\* What maps into a finite set, each element to one of its own, is no larger.
LEMMA NoLarger ==
    ASSUME NEW S, NEW T, IsFiniteSet(T), NEW f \in [S -> T], \A x, y \in S : f[x] = f[y] => x = y
    PROVE  IsFiniteSet(S) /\ Cardinality(S) \in Nat /\ Cardinality(T) \in Nat /\ Cardinality(S) <= Cardinality(T)
<1>1. f \in Injection(S, T)
  BY DEF Injection, IsInjective
<1>2. IsFiniteSet(S) /\ Cardinality(S) <= Cardinality(T)
  BY <1>1, FS_Injection, Zenon
<1> QED BY <1>2, FS_CardinalityType

\* The units of a function.
Units(f) == UNION {{x} \X (1 .. f[x]) : x \in DOMAIN f}
\* A total counts them, and there is a place for the elements of every set that
\* is no larger than its number.
LEMMA UnitsFit ==
    ASSUME NEW f, IsFiniteSet(DOMAIN f), \A x \in DOMAIN f : f[x] \in Int
    PROVE  /\ IsFiniteSet(Units(f)) /\ Total(f) = Cardinality(Units(f)) /\ Total(f) \in Nat
           /\ \A u : u \in Units(f) <=> \E x \in DOMAIN f : \E n \in 1 .. f[x] : u = <<x, n>>
<1> DEFINE row == [x \in DOMAIN f |-> {x} \X (1 .. f[x])]
           T == {{x} \X (1 .. f[x]) : x \in DOMAIN f}
<1>1. Units(f) = UNION T
  BY DEF Units
<1>2. IsFiniteSet(T)
  <2>1. row \in Surjection(DOMAIN f, T)
    BY DEF Surjection
  <2> QED BY <2>1, FS_Surjection, Zenon
<1>3. \A x \in DOMAIN f : IsFiniteSet({x} \X (1 .. f[x]))
  <2> TAKE x \in DOMAIN f
  <2>1. f[x] \in Int
    OBVIOUS
  <2>2. IsFiniteSet(1 .. f[x])
    BY <2>1, FS_Interval
  <2>3. IsFiniteSet({x})
    BY FS_Singleton
  <2> QED BY <2>2, <2>3, FS_Product
<1>4. \A U \in T : IsFiniteSet(U)
  BY <1>3
<1>5. IsFiniteSet(Units(f))
  <2> HIDE DEF T
  <2> QED BY <1>1, <1>2, <1>4, FS_UNION, Zenon
<1>6. \A u : u \in Units(f) <=> \E x \in DOMAIN f : \E n \in 1 .. f[x] : u = <<x, n>>
  <2>1. \A u : u \in Units(f) <=> \E x \in DOMAIN f : u \in {x} \X (1 .. f[x])
    BY <1>1
  <2> QED BY <2>1
<1>7. Total(f) = Cardinality(Units(f))
  BY DEF Total, Units
<1> QED BY <1>5, <1>6, <1>7, FS_CardinalityType

\* The same of a function over D.
Counted(f, D) ==
    /\ IsFiniteSet(Units(f)) /\ Total(f) = Cardinality(Units(f)) /\ Total(f) \in Nat
    /\ \A u : u \in Units(f) <=> \E x \in D : \E n \in 1 .. f[x] : u = <<x, n>>
\* A finite function counts its units.
LEMMA UnitsOver ==
    ASSUME NEW D, IsFiniteSet(D), NEW f, DOMAIN f = D, \A x \in D : f[x] \in Int
    PROVE  Counted(f, D)
<1>1. IsFiniteSet(DOMAIN f) /\ \A x \in DOMAIN f : f[x] \in Int
  OBVIOUS
<1>2. /\ IsFiniteSet(Units(f)) /\ Total(f) = Cardinality(Units(f)) /\ Total(f) \in Nat
      /\ \A u : u \in Units(f) <=> \E x \in DOMAIN f : \E n \in 1 .. f[x] : u = <<x, n>>
  BY <1>1, UnitsFit, Zenon
<1> QED BY <1>2 DEF Counted

\* A set that is no larger than n has a number of its own for each element.
LEMMA HasNumbers ==
    ASSUME NEW S, IsFiniteSet(S), NEW n \in Int, Cardinality(S) <= n
    PROVE  \E e \in [S -> 1 .. n] : \A x, y \in S : e[x] = e[y] => x = y
<1>1. PICK c \in Nat : c = Cardinality(S) /\ ExistsBijection(1 .. c, S)
  BY FS_CardinalityType
<1>2. IsFiniteSet(1 .. c) /\ Cardinality(1 .. c) = c
  BY <1>1, UpTo
<1>3. ExistsBijection(S, 1 .. c)
  BY <1>1, <1>2, FS_SameCardinalityBij
<1>4. PICK e \in Bijection(S, 1 .. c) : TRUE
  BY <1>3 DEF ExistsBijection
<1>5. e \in [S -> 1 .. c] /\ \A x, y \in S : e[x] = e[y] => x = y
  BY <1>4 DEF Bijection, Injection, IsInjective
<1>6. \A x \in S : e[x] \in 1 .. n
  BY <1>1, <1>5
<1>7. e \in [S -> 1 .. n]
  BY <1>5, <1>6
<1> QED BY <1>5, <1>7

\* One more number adds itself to the total.
LEMMA TotalOfOneMore ==
    ASSUME NEW S, NEW s \in Seq(S), NEW e \in S, NEW f \in [DOMAIN s -> Int], NEW n \in Nat,
           NEW h \in [DOMAIN Append(s, e) -> Int], \A i \in DOMAIN s : h[i] = f[i], h[Len(s) + 1] = n
    PROVE  Total(h) = Total(f) + n
<1>1. PICK l \in Nat : l = Len(s) /\ DOMAIN s = 1 .. l /\ DOMAIN Append(s, e) = 1 .. l + 1
  <2>1. PICK l \in Nat : l = Len(s)
    OBVIOUS
  <2>2. Append(s, e) \in Seq(S) /\ Len(Append(s, e)) = Len(s) + 1
    OBVIOUS
  <2> QED BY <2>1, <2>2
<1>2. h \in [1 .. l + 1 -> Int] /\ f \in [1 .. l -> Int]
      /\ (\A i \in 1 .. l : h[i] = f[i]) /\ h[l + 1] = n
  BY <1>1
<1>3. IsFiniteSet(1 .. l) /\ IsFiniteSet(1 .. l + 1)
  <2>1. l + 1 \in Nat
    OBVIOUS
  <2> QED BY <2>1, UpTo
<1>4. /\ Total(f) = Cardinality(Units(f)) /\ IsFiniteSet(Units(f))
      /\ \A u : u \in Units(f) <=> \E x \in 1 .. l : \E k \in 1 .. f[x] : u = <<x, k>>
  <2>1. DOMAIN f = 1 .. l /\ \A x \in DOMAIN f : f[x] \in Int
    BY <1>2
  <2>2. IsFiniteSet(DOMAIN f)
    BY <1>3, <2>1
  <2>3. /\ Total(f) = Cardinality(Units(f)) /\ IsFiniteSet(Units(f))
        /\ \A u : u \in Units(f) <=> \E x \in DOMAIN f : \E k \in 1 .. f[x] : u = <<x, k>>
    BY <2>1, <2>2, UnitsFit, Zenon
  <2> QED BY <2>1, <2>3
<1>5. /\ Total(h) = Cardinality(Units(h)) /\ IsFiniteSet(Units(h))
      /\ \A u : u \in Units(h) <=> \E x \in 1 .. l + 1 : \E k \in 1 .. h[x] : u = <<x, k>>
  <2>1. DOMAIN h = 1 .. l + 1 /\ \A x \in DOMAIN h : h[x] \in Int
    BY <1>2
  <2>2. IsFiniteSet(DOMAIN h)
    BY <1>3, <2>1
  <2>3. /\ Total(h) = Cardinality(Units(h)) /\ IsFiniteSet(Units(h))
        /\ \A u : u \in Units(h) <=> \E x \in DOMAIN h : \E k \in 1 .. h[x] : u = <<x, k>>
    BY <2>1, <2>2, UnitsFit, Zenon
  <2> QED BY <2>1, <2>3
<1> DEFINE last == {l + 1} \X (1 .. n)
<1>6. IsFiniteSet(last) /\ Cardinality(last) = n
  <2>1. IsFiniteSet({l + 1}) /\ Cardinality({l + 1}) = 1
    BY FS_Singleton
  <2>2. IsFiniteSet(1 .. n) /\ Cardinality(1 .. n) = n
    BY UpTo
  <2>3. IsFiniteSet(last) /\ Cardinality(last) = 1 * n
    BY <2>1, <2>2, FS_Product
  <2> QED BY <2>3
<1>7. Units(f) \cap last = {} /\ Units(h) = Units(f) \cup last
  <2>1. ASSUME NEW u \in Units(f) PROVE u \notin last /\ u \in Units(h)
    <3>1. PICK x \in 1 .. l : \E k \in 1 .. f[x] : u = <<x, k>>
      BY <1>4
    <3>2. x \in 1 .. l + 1 /\ x # l + 1 /\ h[x] = f[x]
      BY <1>2
    <3>3. u \in Units(h)
      BY <1>5, <3>1, <3>2
    <3> QED BY <3>1, <3>2, <3>3
  <2>2. ASSUME NEW u \in last PROVE u \in Units(h)
    <3>1. PICK k \in 1 .. h[l + 1] : u = <<l + 1, k>>
      BY <1>2
    <3>2. l + 1 \in 1 .. l + 1
      OBVIOUS
    <3> QED BY <1>5, <3>1, <3>2
  <2>3. ASSUME NEW u \in Units(h), u \notin last PROVE u \in Units(f)
    <3>1. PICK x \in 1 .. l + 1 : \E k \in 1 .. h[x] : u = <<x, k>>
      BY <1>5
    <3>2. x # l + 1
      BY <1>2, <2>3, <3>1
    <3>3. x \in 1 .. l /\ h[x] = f[x]
      BY <1>2, <3>2
    <3> QED BY <1>4, <3>1, <3>3
  <2> HIDE DEF last
  <2> QED BY <2>1, <2>2, <2>3
<1> HIDE DEF last
<1> QED BY <1>4, <1>5, <1>6, <1>7, DisjointCount

\* A total is no larger where each number has a larger one of its own.
LEMMA SmallerTotal ==
    ASSUME NEW f, IsFiniteSet(DOMAIN f), \A x \in DOMAIN f : f[x] \in Int,
           NEW h, IsFiniteSet(DOMAIN h), \A x \in DOMAIN h : h[x] \in Int,
           NEW m \in [DOMAIN h -> DOMAIN f], \A x, y \in DOMAIN h : m[x] = m[y] => x = y,
           \A x \in DOMAIN h : h[x] <= f[m[x]]
    PROVE  Total(h) <= Total(f) /\ Total(h) \in Nat /\ Total(f) \in Nat
<1>1. /\ Total(f) = Cardinality(Units(f)) /\ IsFiniteSet(Units(f)) /\ Total(f) \in Nat
      /\ \A u : u \in Units(f) <=> \E x \in DOMAIN f : \E k \in 1 .. f[x] : u = <<x, k>>
  BY UnitsFit, Zenon
<1>2. /\ Total(h) = Cardinality(Units(h)) /\ Total(h) \in Nat
      /\ \A u : u \in Units(h) <=> \E x \in DOMAIN h : \E k \in 1 .. h[x] : u = <<x, k>>
  BY UnitsFit, Zenon
<1> DEFINE move == [u \in Units(h) |-> <<m[u[1]], u[2]>>]
<1>3. ASSUME NEW u \in Units(h) PROVE move[u] \in Units(f) /\ u = <<u[1], u[2]>> /\ u[1] \in DOMAIN h
  <2>1. PICK x \in DOMAIN h : \E k \in 1 .. h[x] : u = <<x, k>>
    BY <1>2
  <2>2. PICK k \in 1 .. h[x] : u = <<x, k>>
    BY <2>1
  <2>3. m[x] \in DOMAIN f /\ k \in 1 .. f[m[x]]
    <3>1. h[x] \in Int /\ f[m[x]] \in Int /\ h[x] <= f[m[x]]
      OBVIOUS
    <3> QED BY <3>1
  <2>4. <<m[x], k>> \in Units(f)
    BY <1>1, <2>3
  <2> QED BY <2>2, <2>4
<1>4. move \in [Units(h) -> Units(f)]
  BY <1>3
<1>5. \A u, v \in Units(h) : move[u] = move[v] => u = v
  <2> SUFFICES ASSUME NEW u \in Units(h), NEW v \in Units(h), move[u] = move[v] PROVE u = v
    OBVIOUS
  <2>1. m[u[1]] = m[v[1]] /\ u[2] = v[2]
    OBVIOUS
  <2>2. u[1] = v[1]
    BY <1>3, <2>1
  <2> QED BY <1>3, <2>1, <2>2
<1> HIDE DEF move
<1> QED BY <1>1, <1>2, <1>4, <1>5, NoLarger

\* Two totals are no larger than one that has room for both.
LEMMA SplitTotal ==
    ASSUME NEW D, IsFiniteSet(D), NEW f \in [D -> Int], NEW a \in [D -> Nat], NEW b \in [D -> Nat],
           \A x \in D : a[x] + b[x] <= f[x]
    PROVE  Total(a) + Total(b) <= Total(f) /\ Total(a) \in Nat /\ Total(b) \in Nat /\ Total(f) \in Nat
<1>1. DOMAIN f = D /\ DOMAIN a = D /\ DOMAIN b = D
      /\ \A x \in D : f[x] \in Int /\ a[x] \in Int /\ b[x] \in Int
  OBVIOUS
<1>2. /\ Total(f) = Cardinality(Units(f)) /\ IsFiniteSet(Units(f)) /\ Total(f) \in Nat
      /\ \A u : u \in Units(f) <=> \E x \in D : \E k \in 1 .. f[x] : u = <<x, k>>
  <2>1. Counted(f, D)
    BY <1>1, UnitsOver
  <2> QED BY <2>1 DEF Counted
<1>3. /\ Total(a) = Cardinality(Units(a)) /\ IsFiniteSet(Units(a)) /\ Total(a) \in Nat
      /\ \A u : u \in Units(a) <=> \E x \in D : \E k \in 1 .. a[x] : u = <<x, k>>
  <2>1. Counted(a, D)
    BY <1>1, UnitsOver
  <2> QED BY <2>1 DEF Counted
<1>4. /\ Total(b) = Cardinality(Units(b)) /\ IsFiniteSet(Units(b)) /\ Total(b) \in Nat
      /\ \A u : u \in Units(b) <=> \E x \in D : \E k \in 1 .. b[x] : u = <<x, k>>
  <2>1. Counted(b, D)
    BY <1>1, UnitsOver
  <2> QED BY <2>1 DEF Counted
<1> DEFINE over == {u \in Units(f) : u[2] > a[u[1]]}
           up == [u \in Units(b) |-> <<u[1], a[u[1]] + u[2]>>]
<1>5. IsFiniteSet(over)
  BY <1>2, FS_Subset, Zenon
<1>6. ASSUME NEW u \in Units(b)
      PROVE  up[u] \in over /\ u = <<u[1], u[2]>> /\ u[1] \in D /\ u[2] \in Int /\ a[u[1]] \in Int
             /\ up[u] = <<u[1], a[u[1]] + u[2]>>
  <2>1. PICK x \in D : \E k \in 1 .. b[x] : u = <<x, k>>
    BY <1>4
  <2>2. PICK k \in 1 .. b[x] : u = <<x, k>>
    BY <2>1
  <2>3. a[x] \in Nat /\ a[x] + k \in 1 .. f[x] /\ a[x] + k > a[x] /\ k \in Int
    <3>1. a[x] \in Nat /\ b[x] \in Nat /\ f[x] \in Int /\ a[x] + b[x] <= f[x]
      OBVIOUS
    <3> QED BY <3>1
  <2>4. <<x, a[x] + k>> \in Units(f)
    BY <1>2, <2>3
  <2> QED BY <2>2, <2>3, <2>4
<1>7. up \in [Units(b) -> over]
  BY <1>6
<1>8. \A u, v \in Units(b) : up[u] = up[v] => u = v
  <2> SUFFICES ASSUME NEW u \in Units(b), NEW v \in Units(b), up[u] = up[v] PROVE u = v
    OBVIOUS
  <2> HIDE DEF up
  <2>1. <<u[1], a[u[1]] + u[2]>> = <<v[1], a[v[1]] + v[2]>>
    BY <1>6
  <2>2. u[1] = v[1] /\ a[u[1]] + u[2] = a[u[1]] + v[2]
    BY <2>1
  <2>3. u[2] = v[2]
    <3>1. a[u[1]] \in Int /\ u[2] \in Int /\ v[2] \in Int
      BY <1>6
    <3>2. \A i, j, k \in Int : i + j = i + k => j = k
      OBVIOUS
    <3> QED BY <2>2, <3>1, <3>2, Zenon
  <2> QED BY <1>6, <2>2, <2>3
<1>9. Units(a) \cap over = {} /\ Units(a) \cup over \in SUBSET Units(f)
  <2>1. ASSUME NEW u \in Units(a) PROVE u \in Units(f) /\ ~(u[2] > a[u[1]])
    <3>1. PICK x \in D : \E k \in 1 .. a[x] : u = <<x, k>>
      BY <1>3
    <3>2. PICK k \in 1 .. a[x] : u = <<x, k>>
      BY <3>1
    <3>3. k \in 1 .. f[x] /\ ~(k > a[x])
      <4>1. a[x] \in Nat /\ b[x] \in Nat /\ f[x] \in Int /\ a[x] + b[x] <= f[x]
        OBVIOUS
      <4> QED BY <4>1
    <3>4. u \in Units(f)
      BY <1>2, <3>2, <3>3
    <3> QED BY <3>2, <3>3, <3>4
  <2> QED BY <2>1
<1> HIDE DEF over, up
<1>10. Cardinality(Units(b)) <= Cardinality(over) /\ Cardinality(over) \in Nat
  BY <1>5, <1>7, <1>8, NoLarger
<1>11. Cardinality(Units(a) \cup over) = Cardinality(Units(a)) + Cardinality(over)
  BY <1>3, <1>5, <1>9, DisjointCount
<1>12. Cardinality(Units(a) \cup over) <= Cardinality(Units(f))
  BY <1>2, <1>9, FS_Subset, Zenon
<1> QED BY <1>2, <1>3, <1>4, <1>10, <1>11, <1>12

\* Nothing counts for nothing.
LEMMA NoTotal == ASSUME NEW f, DOMAIN f = {} PROVE Total(f) = 0
<1>1. Units(f) = {}
  BY DEF Units
<1>2. Total(f) = Cardinality(Units(f))
  BY DEF Total, Units
<1> QED BY <1>1, <1>2, FS_EmptySet

\* The parts of a sequence of numbers add up to no more than the whole.
LEMMA TotalOfParts ==
    ASSUME NEW n \in Nat, NEW f \in [1 .. n -> Nat], NEW K \in SUBSET (1 .. n)
    PROVE  LET rest == (1 .. n) \ K
           IN  /\ Total(Kept(f, K)) + Total(Kept(f, rest)) <= Total(f)
               /\ Total(Kept(f, K)) \in Nat /\ Total(Kept(f, rest)) \in Nat /\ Total(f) \in Nat
<1> DEFINE D == 1 .. n
           part(S) == [i \in D |-> IF i \in S THEN f[i] ELSE 0]
<1>1. IsFiniteSet(D) /\ f \in [D -> Int]
  BY UpTo
<1>2. ASSUME NEW S \in SUBSET D
      PROVE  part(S) \in [D -> Nat] /\ Total(Kept(f, S)) <= Total(part(S)) /\ Total(Kept(f, S)) \in Nat
  <2> DEFINE t == Kept(f, S)
             g == part(S)
             m == [k \in DOMAIN t |-> Nth(S, k)]
  <2>1. PICK c \in Nat : c = Cardinality(S)
    BY RankFits
  <2>2. DOMAIN t = 1 .. c /\ \A k \in 1 .. c : t[k] = f[Nth(S, k)] /\ Nth(S, k) \in S /\ Rank(S, Nth(S, k)) = k - 1
    <3>1. \A k \in 1 .. Cardinality(S) : Nth(S, k) \in S /\ Rank(S, Nth(S, k)) = k - 1
      BY NthFits, Zenon
    <3> QED BY <2>1, <3>1 DEF Kept
  <2> HIDE DEF t
  <2>3. g \in [D -> Nat] /\ DOMAIN g = D /\ \A x \in D : g[x] \in Int
    OBVIOUS
  <2>4. m \in [DOMAIN t -> D]
    BY <2>2
  <2>5. \A k, l \in DOMAIN t : m[k] = m[l] => k = l
    <3> SUFFICES ASSUME NEW k \in DOMAIN t, NEW l \in DOMAIN t, Nth(S, k) = Nth(S, l) PROVE k = l
      OBVIOUS
    <3>1. k - 1 = l - 1 /\ k \in Int /\ l \in Int
      BY <2>2
    <3> QED BY <3>1
  <2>6. \A k \in DOMAIN t : t[k] \in Int /\ t[k] <= g[m[k]]
    <3> TAKE k \in DOMAIN t
    <3>1. t[k] = f[Nth(S, k)] /\ g[m[k]] = f[Nth(S, k)] /\ f[Nth(S, k)] \in Nat
      BY <2>2
    <3> HIDE DEF g, m
    <3> QED BY <3>1
  <2>7. IsFiniteSet(DOMAIN t)
    BY <2>1, <2>2, UpTo
  <2>8. Counted(t, DOMAIN t)
    BY <2>6, <2>7, UnitsOver
  <2> HIDE DEF g, m, D
  <2>9. Total(t) <= Total(g)
    BY <1>1, <2>3, <2>4, <2>5, <2>6, <2>7, SmallerTotal
  <2> QED BY <2>3, <2>8, <2>9 DEF t, g, Counted
<1>3. \A x \in D : part(K)[x] + part(D \ K)[x] <= f[x]
  OBVIOUS
<1>4. K \in SUBSET D /\ D \ K \in SUBSET D
  OBVIOUS
<1> HIDE DEF D, part
<1>5. Total(part(K)) + Total(part(D \ K)) <= Total(f)
      /\ Total(part(K)) \in Nat /\ Total(part(D \ K)) \in Nat /\ Total(f) \in Nat
  BY <1>1, <1>2, <1>3, <1>4, SplitTotal
<1>6. /\ Total(Kept(f, K)) <= Total(part(K)) /\ Total(Kept(f, K)) \in Nat
      /\ Total(Kept(f, D \ K)) <= Total(part(D \ K)) /\ Total(Kept(f, D \ K)) \in Nat
  BY <1>2, <1>4
<1> QED BY <1>5, <1>6 DEF D

\* A total is that of a part and that of the rest.
LEMMA TotalOfTwo ==
    ASSUME NEW F, IsFiniteSet(F), NEW h, DOMAIN h = F, \A x \in F : h[x] \in Int, NEW A \in SUBSET F
    PROVE  LET a == [x \in A |-> h[x]]
               b == [x \in F \ A |-> h[x]]
           IN  Total(h) = Total(a) + Total(b) /\ Total(h) \in Nat /\ Total(a) \in Nat /\ Total(b) \in Nat
<1> DEFINE a == [x \in A |-> h[x]]
           b == [x \in F \ A |-> h[x]]
<1>1. IsFiniteSet(A) /\ IsFiniteSet(F \ A)
  BY FS_Subset
<1>2. Counted(h, F)
  BY UnitsOver
<1>3. DOMAIN a = A /\ DOMAIN b = F \ A /\ (\A x \in A : a[x] = h[x]) /\ \A x \in F \ A : b[x] = h[x]
  OBVIOUS
<1> HIDE DEF a, b
<1>4. Counted(a, A) /\ Counted(b, F \ A)
  BY <1>1, <1>3, UnitsOver
<1>5. Units(a) \cap Units(b) = {}
  <2> SUFFICES ASSUME NEW u \in Units(a), u \in Units(b) PROVE FALSE
    OBVIOUS
  <2>1. PICK x \in A : \E n \in 1 .. a[x] : u = <<x, n>>
    BY <1>4 DEF Counted
  <2>2. PICK y \in F \ A : \E n \in 1 .. b[y] : u = <<y, n>>
    BY <1>4 DEF Counted
  <2> QED BY <2>1, <2>2
<1>6. \A u : u \in Units(h) <=> u \in Units(a) \cup Units(b)
  <2>1. \A u : u \in Units(h) <=> \E x \in F : \E n \in 1 .. h[x] : u = <<x, n>>
    BY <1>2 DEF Counted
  <2>2. \A u : u \in Units(a) <=> \E x \in A : \E n \in 1 .. h[x] : u = <<x, n>>
    BY <1>3, <1>4 DEF Counted
  <2>3. \A u : u \in Units(b) <=> \E x \in F \ A : \E n \in 1 .. h[x] : u = <<x, n>>
    BY <1>3, <1>4 DEF Counted
  <2> QED BY <2>1, <2>2, <2>3
<1>7. Units(h) = Units(a) \cup Units(b)
  BY <1>6
<1>8. Cardinality(Units(h)) = Cardinality(Units(a)) + Cardinality(Units(b))
  BY <1>4, <1>5, <1>7, DisjointCount DEF Counted
<1> QED BY <1>2, <1>4, <1>8 DEF Counted, a, b

\* The members of several sets, each with the place of its set.
Piles(D, B) == UNION {{i} \X B[i] : i \in D}
\* Sets that are no larger than the numbers of a function are, together, no larger
\* than its total.
LEMMA TotalHolds ==
    ASSUME NEW D, IsFiniteSet(D), NEW f, DOMAIN f = D, \A i \in D : f[i] \in Int,
           NEW B, \A i \in D : IsFiniteSet(B[i]) /\ Cardinality(B[i]) <= f[i]
    PROVE  /\ IsFiniteSet(Piles(D, B)) /\ Cardinality(Piles(D, B)) \in Nat
           /\ Cardinality(Piles(D, B)) <= Total(f)
<1> DEFINE U == Piles(D, B)
           fits(i, e) == e \in [B[i] -> 1 .. f[i]] /\ \A x, y \in B[i] : e[x] = e[y] => x = y
           number(i) == CHOOSE e : fits(i, e)
           to == [u \in U |-> <<u[1], number(u[1])[u[2]]>>]
<1>1. \A i \in D : fits(i, number(i))
  <2> TAKE i \in D
  <2>1. \E e : fits(i, e)
    BY HasNumbers
  <2> HIDE DEF fits
  <2> QED BY <2>1
<1>2. \A u \in U : \E i \in D : \E x \in B[i] : u = <<i, x>>
  BY DEF Piles
<1> HIDE DEF number, U
<1>3. /\ \A i \in D : \A x \in B[i] : number(i)[x] \in 1 .. f[i]
      /\ \A i \in D : \A x, y \in B[i] : number(i)[x] = number(i)[y] => x = y
  BY <1>1
<1> HIDE DEF fits
<1>4. Counted(f, D)
  BY UnitsOver
<1>5. to \in [U -> Units(f)]
  <2> SUFFICES ASSUME NEW u \in U PROVE <<u[1], number(u[1])[u[2]]>> \in Units(f)
    OBVIOUS
  <2>1. PICK i, x : i \in D /\ x \in B[i] /\ u = <<i, x>>
    BY <1>2
  <2> QED BY <1>3, <1>4, <2>1 DEF Counted
<1>6. \A u, v \in U : to[u] = to[v] => u = v
  <2> SUFFICES ASSUME NEW u \in U, NEW v \in U, <<u[1], number(u[1])[u[2]]>> = <<v[1], number(v[1])[v[2]]>> PROVE u = v
    OBVIOUS
  <2>1. PICK i, x : i \in D /\ x \in B[i] /\ u = <<i, x>>
    BY <1>2
  <2>2. PICK j, y : j \in D /\ y \in B[j] /\ v = <<j, y>>
    BY <1>2
  <2>3. i = j /\ number(i)[x] = number(j)[y]
    BY <2>1, <2>2
  <2> QED BY <1>3, <2>1, <2>2, <2>3
<1> HIDE DEF to
<1>7. IsFiniteSet(Units(f)) /\ Total(f) = Cardinality(Units(f))
  BY <1>4 DEF Counted
<1> QED BY <1>5, <1>6, <1>7, NoLarger DEF U
=============================================================================
