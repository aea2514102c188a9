----------------------------- MODULE Subsequence -----------------------------
(***************************************************************************)
(* The elements of a sequence that a filter keeps, in their order: what    *)
(* iter().filter(..), retain and the like return.  The filter is given as  *)
(* the set of positions it keeps, so that it can be reasoned about.  And   *)
(* what iter().map(..).sum() adds up.                                      *)
(***************************************************************************)
EXTENDS Integers, Sequences, FiniteSets

\* How many of the positions K come before i.
Rank(K, i) == Cardinality({j \in K : j < i})

\* The k-th of the positions K.
Nth(K, k) == CHOOSE i \in K : Rank(K, i) = k - 1

\* What s has at the positions K.
Kept(s, K) == [k \in 1 .. Cardinality(K) |-> s[Nth(K, k)]]

\* The elements of s that are in S, and those that are not e.
Sift(s, S) == Kept(s, {i \in DOMAIN s : s[i] \in S})
Without(s, e) == Kept(s, {i \in DOMAIN s : s[i] # e})

\* Pairs of numbers, in the order of nested loops over them.
Before(p, q) == p[1] < q[1] \/ (p[1] = q[1] /\ p[2] < q[2])
InOrder(P) == [k \in 1 .. Cardinality(P) |->
    CHOOSE p \in P : Cardinality({q \in P : Before(q, p)}) = k - 1]

\* The positions of K in the first m, and in the rest of n, counted from there.
Below(K, m) == {i \in K : i <= m}
Beyond(K, m, n) == {i \in 1 .. n - m : m + i \in K}

\* The sum of the numbers of a function, as the count of its units.
Total(f) == Cardinality(UNION {{x} \X (1 .. f[x]) : x \in DOMAIN f})
=============================================================================
