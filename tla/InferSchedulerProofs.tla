------------------------ MODULE InferSchedulerProofs ------------------------
(***************************************************************************)
(* Proofs about InferScheduler.  First what the operators on groups and on *)
(* the pool do; then the types, for every step; then the account of each   *)
(* request's completions; what the slots hold, where no flag is set while  *)
(* remove_cancelled runs; last that a step always has something to feed    *)
(* and, in lockstep, finds cells for what it writes.                       *)
(***************************************************************************)
EXTENDS InferScheduler, SubsequenceProofs, FiniteSetTheorems, TLAPS

(* Constants and numbers.                                                   *)

\* The assumptions on the constants, one by one.
LEMMA Constants ==
    /\ Slots \in Nat /\ Slots > 0 /\ Cells \in Nat /\ QueueCap \in Nat /\ MinPrefix \in Nat
    /\ MinPrefix > 0 /\ Batch \in Nat /\ Batch > 0 /\ Updates \in Nat /\ Word \in Int
    /\ \A r \in Requests :
        /\ Prompt[r] \in Seq(Int) /\ Len(Prompt[r]) \in Nat /\ Len(Prompt[r]) > 0
        /\ Copies[r] \in Nat /\ Copies[r] > 0 /\ Budget[r] \in Nat /\ Budget[r] > 0
    /\ Leavers \subseteq Requests
<1>1. \A r \in Requests : Prompt[r] \in Seq(Int) => Len(Prompt[r]) \in Nat /\ (Prompt[r] # <<>> => Len(Prompt[r]) > 0)
  OBVIOUS
<1> QED BY <1>1, InferAssumption DEF InferAssumption

-----------------------------------------------------------------------------
(* The types.                                                               *)

Places == {"idle", "remove", "admit", "place", "wave", "step"}
Phases == {"prefill", "terminal", "decode"}
Adapters == {None} \cup {Adapter[r] : r \in Requests}
MemberSet == [req : Requests, slot : Pool, gen : Nat, on : BOOLEAN]
GroupSet == [ms : Seq(MemberSet), leader : Nat, phase : Phases, hit : Nat, pos : Nat]
CellSet == [cell : 1 .. Cells, tok : (Adapters \X (0 .. Updates)) \X Int]
WaveSet == [req : Requests, need : Int]
NodeSet == [path : Seq(Int), slot : Pool]
PoolFn == [Pool -> Seq(CellSet)]

\* How far a group may have come, in its phase.
PosFits(g) ==
    /\ g.pos <= Len(PromptOf(g)) + Slots
    /\ g.phase = "prefill" => g.pos <= PrefixEnd(g)
GroupFits(g) ==
    /\ g.ms # <<>> /\ Len(g.ms) <= Slots /\ g.leader \in DOMAIN g.ms
    /\ g.hit < Len(PromptOf(g)) /\ PosFits(g)
    /\ \A i \in DOMAIN g.ms : g.ms[i].gen <= Budget[g.ms[i].req]
Groups == {g \in GroupSet : GroupFits(g)}
\* Somebody is left, and none that is left has spent its budget.
Alive(g) == On(g) # {} /\ \A i \in On(g) : g.ms[i].gen < Budget[g.ms[i].req]

GroupTypes == groups \in Seq(Groups) /\ \A g \in DOMAIN groups : Alive(groups[g])
QueueTypes ==
    /\ queue \in Seq(Requests) /\ Differ(queue) /\ Len(queue) <= QueueCap
    /\ wave \in Seq(WaveSet)
    /\ \A i, j \in DOMAIN wave : i # j => wave[i].req # wave[j].req
    /\ \A r \in InWave : Copies[r] <= Slots /\ r \notin Range(queue)
    /\ Range(queue) \cup InWave \subseteq sent
    /\ sent \subseteq Requests /\ cancelled \subseteq sent \cap Leavers
TreeTypes ==
    /\ kv \in PoolFn /\ dormant \in Seq(NodeSet)
    /\ adapter \in Adapters /\ weights \in 0 .. Updates
    /\ pins \subseteq {d.path : d \in Range(dormant)}
\* A wave is about to be placed, and there is a free slot for each completion.
WaveTypes ==
    /\ wave # <<>> => at \in {"place", "wave"} /\ mode = "Lockstep"
    /\ pins # {} => wave # <<>>
    /\ Cardinality(Seats(InWave)) <= Cardinality(FreeSlots)
Types ==
    /\ mode \in Modes /\ at \in Places
    /\ told \in [Requests -> Nat]
    /\ GroupTypes /\ QueueTypes /\ TreeTypes /\ WaveTypes

\* The longest prefix two sequences share.
LEMMA CommonFits ==
    ASSUME NEW p \in Seq(Int), NEW q \in Seq(Int)
    PROVE  /\ Common(p, q) \in Nat /\ Common(p, q) <= Len(p) /\ Common(p, q) <= Len(q)
           /\ \A i \in 1 .. Common(p, q) : p[i] = q[i]
<1> DEFINE K == {n \in 0 .. Min({Len(p), Len(q)}) : SubSeq(p, 1, n) = SubSeq(q, 1, n)}
<1>1. PICK m \in Nat : m = Min({Len(p), Len(q)}) /\ m <= Len(p) /\ m <= Len(q)
  <2>1. PICK a \in Nat : a = Len(p) OBVIOUS
  <2>2. PICK b \in Nat : b = Len(q) OBVIOUS
  <2>3. PICK n \in Nat : n = Min({a, b}) /\ n <= a /\ n <= b BY MinOfTwo
  <2> QED BY <2>1, <2>2, <2>3
<1>2. K \in SUBSET (0 .. m) /\ 0 \in K
  <2>1. SubSeq(p, 1, 0) = <<>> /\ SubSeq(q, 1, 0) = <<>> OBVIOUS
  <2> QED BY <1>1, <2>1
<1>3. \A n \in K : n \in 0 .. m /\ SubSeq(p, 1, n) = SubSeq(q, 1, n) BY <1>1
<1>4. Common(p, q) = Max(K) BY DEF Common
<1> HIDE DEF K
<1>5. IsFiniteSet(K) /\ K \in SUBSET Int BY <1>2, BoundedFinite
<1>6. Max(K) \in K BY <1>2, <1>5, MaxFits
<1>7. PICK n \in 0 .. m : n = Common(p, q) /\ SubSeq(p, 1, n) = SubSeq(q, 1, n) BY <1>3, <1>4, <1>6
<1>8. \A i \in 1 .. n : SubSeq(p, 1, n)[i] = p[i] /\ SubSeq(q, 1, n)[i] = q[i] BY <1>1
<1> QED BY <1>1, <1>7, <1>8

\* The tree is asked for a prefix: nothing, or a node that shares as much of the
\* prompt as is taken, never its last token.
HitsNode(p) ==
    /\ Hit(p).len \in 1 .. Len(p) - 1 /\ Hit(p).node \in Range(dormant)
    /\ Hit(p).len <= Len(Hit(p).node.path)
    /\ \A i \in 1 .. Hit(p).len : Hit(p).node.path[i] = p[i]
\* A lookup finds nothing, or such a node.
LEMMA HitFits ==
    ASSUME dormant \in Seq(NodeSet), NEW p \in Seq(Int), Len(p) > 0
    PROVE  /\ Hit(p) = Cold \/ HitsNode(p)
           /\ Hit(p).len \in 0 .. Len(p) - 1
<1> DEFINE R == Range(dormant)
           S == {0} \cup {Common(d.path, p) : d \in R}
           best == Max(S)
           near == {d \in R : Common(d.path, p) = best}
           ends == {d \in near : Len(d.path) = best}
           next(d) == d.path[best + 1]
           first == {d \in near : \A e \in near : next(d) <= next(e)}
           deepest == CHOOSE d \in first : \A e \in first : Len(d.path) >= Len(e.path)
           node == IF ends # {} THEN CHOOSE d \in ends : TRUE ELSE deepest
<1>1. IsFiniteSet(R) /\ \A d \in R : d.path \in Seq(Int)
  <2>1. IsFiniteSet(R) /\ R \in SUBSET NodeSet BY RangeFinite
  <2> QED BY <2>1 DEF NodeSet
<1>2. \A d \in R : /\ Common(d.path, p) \in 0 .. Len(p) /\ Common(d.path, p) <= Len(d.path)
                   /\ \A i \in 1 .. Common(d.path, p) : d.path[i] = p[i]
  <2> TAKE d \in R
  <2>1. PICK q \in Seq(Int) : q = d.path BY <1>1
  <2>2. /\ Common(q, p) \in Nat /\ Common(q, p) <= Len(q) /\ Common(q, p) <= Len(p)
        /\ \A i \in 1 .. Common(q, p) : q[i] = p[i] BY CommonFits
  <2> QED BY <2>1, <2>2
<1>3. PICK n \in Nat : n = Len(p) /\ n > 0 OBVIOUS
<1>4. S \in SUBSET (0 .. n) /\ S # {} BY <1>2, <1>3
<1>5. best \in S /\ best \in 0 .. n
  <2> HIDE DEF S
  <2>1. IsFiniteSet(S) /\ S \in SUBSET Int BY <1>4, BoundedFinite
  <2> QED BY <1>4, <2>1, MaxFits
<1>6. Hit(p) = IF Min({best, Len(p) - 1}) = 0 THEN Cold
               ELSE [len |-> Min({best, Len(p) - 1}), node |-> node] BY DEF Hit
<1>7. CASE best = 0
  <2>1. Min({best, Len(p) - 1}) = 0
    <3>1. Min({0, n - 1}) = 0 BY <1>3, MinOfTwo
    <3> QED BY <1>3, <1>7, <3>1
  <2> HIDE DEF best, node
  <2>2. Hit(p) = Cold BY <1>6, <2>1
  <2> QED BY <1>3, <2>2 DEF Cold
<1>8. CASE best # 0
  <2>0. best \in Nat BY <1>5
  <2>1. near # {} /\ near \in SUBSET R /\ IsFiniteSet(near)
    <3>1. \E d \in R : Common(d.path, p) = best
      <4> HIDE DEF best
      <4> QED BY <1>5, <1>8
    <3>2. near # {} /\ near \in SUBSET R BY <3>1
    <3> HIDE DEF near, R
    <3> QED BY <1>1, <3>2, FS_Subset
  <2>2. \A d \in near : d \in R /\ Common(d.path, p) = best OBVIOUS
  <2>3. node \in near
    <3>1. CASE ends # {} BY <3>1
    <3>2. CASE ends = {}
      <4>0. \A d \in near : d.path \in Seq(Int) /\ best <= Len(d.path) /\ Len(d.path) # best
        BY <1>1, <1>2, <2>2, <3>2
      <4> HIDE DEF best, R
      <4>1. \A d \in near : next(d) \in Int
        <5> TAKE d \in near
        <5>1. PICK q \in Seq(Int) : q = d.path /\ best <= Len(q) /\ Len(q) # best BY <4>0
        <5>2. best + 1 \in 1 .. Len(q) BY <2>0, <5>1
        <5>3. q[best + 1] \in Int BY <5>2
        <5> QED BY <5>1, <5>3
      <4> DEFINE value == [d \in near |-> next(d)]
      <4>2. value \in [near -> Int] BY <4>1
      <4>3. \E d \in near : \A e \in near : value[d] <= value[e]
        <5> HIDE DEF value, near, next
        <5> QED BY <2>1, <4>2, LeastByKey
      <4>4. first # {} /\ first \in SUBSET near BY <4>3
      <4> DEFINE deep == [d \in first |-> 0 - Len(d.path)]
      <4>5. \A d \in first : Len(d.path) \in Int BY <4>0
      <4> HIDE DEF first, near
      <4>6. deep \in [first -> Int] BY <4>5
      <4>7. \E d \in first : \A e \in first : deep[d] <= deep[e]
        <5>1. IsFiniteSet(first) BY <2>1, <4>4, FS_Subset
        <5> HIDE DEF deep
        <5> QED BY <4>4, <4>6, <5>1, LeastByKey
      <4>8. \E d \in first : \A e \in first : Len(d.path) >= Len(e.path) BY <4>5, <4>7
      <4>9. deepest \in first BY <4>8
      <4>10. node = deepest BY <3>2
      <4> QED BY <4>4, <4>9, <4>10
    <3> QED BY <3>1, <3>2
  <2>4. node \in R /\ Common(node.path, p) = best BY <2>2, <2>3
  <2> HIDE DEF node, near, S, ends, first, next, deepest
  <2>5. PICK m \in Int : m = Min({best, Len(p) - 1}) /\ m = IF best <= n - 1 THEN best ELSE n - 1
    <3> HIDE DEF best
    <3> QED BY <1>3, <2>0, MinOfTwo
  <2>6. CASE m = 0
    <3>1. Hit(p) = Cold BY <1>6, <2>5, <2>6
    <3> QED BY <1>3, <3>1 DEF Cold
  <2>7. CASE m # 0
    <3>1. Hit(p).len = m /\ Hit(p).node = node BY <1>6, <2>5, <2>7
    <3>2. m \in 1 .. n - 1 /\ m <= best BY <1>3, <1>5, <1>8, <2>5, <2>7
    <3>3. best <= Len(node.path) /\ (\A i \in 1 .. best : node.path[i] = p[i]) /\ Len(node.path) \in Nat
      BY <1>1, <1>2, <2>4
    <3> HIDE DEF best
    <3>4. m <= Len(node.path) /\ \A i \in 1 .. m : node.path[i] = p[i] BY <2>0, <3>2, <3>3
    <3> QED BY <1>3, <2>4, <3>1, <3>2, <3>4 DEF HitsNode
  <2> QED BY <2>6, <2>7
<1> QED BY <1>7, <1>8

-----------------------------------------------------------------------------
(* What the operators on groups do.                                         *)

InGroups(gs) == {p \in (DOMAIN gs) \X Pool : p[2] \in On(gs[p[1]])}
Of(gs, r) == {p \in (DOMAIN gs) \X Pool : p[2] \in On(gs[p[1]]) /\ Member(gs, p).req = r}

\* What a group is made of.
LEMMA GroupParts ==
    ASSUME NEW g \in Groups
    PROVE  /\ g \in GroupSet /\ GroupFits(g)
           /\ g.ms \in Seq(MemberSet) /\ Len(g.ms) \in 1 .. Slots /\ DOMAIN g.ms = 1 .. Len(g.ms)
           /\ DOMAIN g.ms \subseteq Pool /\ On(g) \subseteq DOMAIN g.ms
           /\ \A i \in DOMAIN g.ms :
                /\ g.ms[i] \in MemberSet /\ g.ms[i].req \in Requests /\ g.ms[i].slot \in Pool
                /\ g.ms[i].gen \in Nat /\ g.ms[i].on \in BOOLEAN
           /\ PromptOf(g) \in Seq(Int) /\ Len(PromptOf(g)) \in Nat /\ Len(PromptOf(g)) > 0
           /\ PrefixEnd(g) \in Nat /\ PrefixEnd(g) <= Len(PromptOf(g))
           /\ PrefixEnd(g) = Len(PromptOf(g)) <=> Len(g.ms) = 1
           /\ Len(g.ms) > 1 => PrefixEnd(g) = Len(PromptOf(g)) - 1
           /\ g.leader \in DOMAIN g.ms /\ g.phase \in Phases /\ g.hit \in Nat /\ g.pos \in Nat
<1>1. g \in GroupSet /\ GroupFits(g) BY DEF Groups
<1>2. g.ms \in Seq(MemberSet) /\ g.phase \in Phases /\ g.hit \in Nat /\ g.pos \in Nat
  BY <1>1 DEF GroupSet
<1>3. g.ms # <<>> /\ Len(g.ms) <= Slots /\ g.leader \in DOMAIN g.ms BY <1>1 DEF GroupFits
<1>4. Len(g.ms) \in 1 .. Slots /\ DOMAIN g.ms = 1 .. Len(g.ms) /\ DOMAIN g.ms \subseteq Pool
  <2>1. Len(g.ms) \in Nat /\ Len(g.ms) # 0 /\ DOMAIN g.ms = 1 .. Len(g.ms) BY <1>2, <1>3
  <2>2. Len(g.ms) \in 1 .. Slots BY <1>3, <2>1, Constants
  <2> QED BY <2>1, <2>2, Constants DEF Pool
<1>5. \A i \in DOMAIN g.ms : g.ms[i] \in MemberSet BY <1>2
<1>6. \A i \in DOMAIN g.ms :
         /\ g.ms[i].req \in Requests /\ g.ms[i].slot \in Pool
         /\ g.ms[i].gen \in Nat /\ g.ms[i].on \in BOOLEAN BY <1>5 DEF MemberSet
<1>7. 1 \in DOMAIN g.ms BY <1>4
<1>8. PromptOf(g) \in Seq(Int) /\ Len(PromptOf(g)) \in Nat /\ Len(PromptOf(g)) > 0
  BY <1>6, <1>7, Constants DEF PromptOf
<1>9. /\ PrefixEnd(g) \in Nat /\ PrefixEnd(g) <= Len(PromptOf(g))
      /\ PrefixEnd(g) = Len(PromptOf(g)) <=> Len(g.ms) = 1
      /\ Len(g.ms) > 1 => PrefixEnd(g) = Len(PromptOf(g)) - 1
  <2>1. PICK n \in Nat : n = Len(PromptOf(g)) /\ n > 0 BY <1>8
  <2>2. PICK m \in 1 .. Slots : m = Len(g.ms) BY <1>4
  <2>3. PrefixEnd(g) = n - (IF m > 1 THEN 1 ELSE 0) BY <2>1, <2>2 DEF PrefixEnd
  <2>4. m \in Nat /\ m > 0 BY <2>2, Constants
  <2>5. PICK e : e = PrefixEnd(g) OBVIOUS
  <2>6. e \in Nat /\ e <= n /\ (e = n <=> m = 1) /\ (m > 1 => e = n - 1) BY <2>1, <2>3, <2>4, <2>5
  <2> QED BY <2>1, <2>2, <2>5, <2>6
<1>10. On(g) \subseteq DOMAIN g.ms BY DEF On
<1> QED BY <1>1, <1>2, <1>3, <1>4, <1>5, <1>6, <1>8, <1>9, <1>10

\* Pairs of a group and a member are finitely many.
LEMMA PairsFinite ==
    ASSUME NEW gs \in Seq(Groups), NEW P \in SUBSET ((DOMAIN gs) \X Pool)
    PROVE  IsFiniteSet(P) /\ Cardinality(P) \in Nat /\ P \in SUBSET (Int \X Int)
<1>1. DOMAIN gs = 1 .. Len(gs) /\ Len(gs) \in Nat /\ Slots \in Nat BY Constants
<1>2. IsFiniteSet(1 .. Len(gs)) /\ IsFiniteSet(1 .. Slots) BY <1>1, FS_Interval
<1>3. IsFiniteSet((DOMAIN gs) \X Pool) BY <1>1, <1>2, FS_Product DEF Pool
<1>4. IsFiniteSet(P) BY <1>3, FS_Subset, Zenon
<1>5. P \in SUBSET (Int \X Int)
  <2>1. DOMAIN gs \subseteq Int /\ Pool \subseteq Int BY <1>1 DEF Pool
  <2>2. (DOMAIN gs) \X Pool \subseteq Int \X Int BY <2>1
  <2> HIDE DEF Pool
  <2>3. SUBSET ((DOMAIN gs) \X Pool) \subseteq SUBSET (Int \X Int) BY <2>2, Zenon
  <2> QED BY <2>3, Zenon
<1> QED BY <1>4, <1>5, FS_CardinalityType

\* Groups that differ in nothing a count of completions looks at.
SameSeats(gs, hs) ==
    /\ DOMAIN hs = DOMAIN gs
    /\ \A g \in DOMAIN gs :
        /\ On(hs[g]) = On(gs[g])
        /\ \A i \in On(gs[g]) : hs[g].ms[i].req = gs[g].ms[i].req /\ hs[g].ms[i].slot = gs[g].ms[i].slot

\* Such groups count the same completions of every request.
LEMMA SameOf ==
    ASSUME NEW gs, NEW hs, SameSeats(gs, hs)
    PROVE  InGroups(hs) = InGroups(gs) /\ \A r : Of(hs, r) = Of(gs, r)
BY DEF SameSeats, InGroups, Of, Member

\* Twice nothing that counts is nothing that counts.
LEMMA SameSeatsTransitive ==
    ASSUME NEW fs, NEW gs, NEW hs, SameSeats(fs, gs), SameSeats(gs, hs) PROVE SameSeats(fs, hs)
BY DEF SameSeats

LiveAt(gs) == {g \in DOMAIN gs : On(gs[g]) # {}}

\* Dropping the groups nobody is left in keeps every completion.
LEMMA StillLiveFits ==
    ASSUME NEW gs \in Seq(Groups)
    PROVE  /\ StillLive(gs) \in Seq(Groups)
           /\ DOMAIN StillLive(gs) = 1 .. Cardinality(LiveAt(gs))
           /\ \A k \in DOMAIN StillLive(gs) :
                Nth(LiveAt(gs), k) \in LiveAt(gs) /\ StillLive(gs)[k] = gs[Nth(LiveAt(gs), k)]
           /\ \A g \in LiveAt(gs) : \E k \in DOMAIN StillLive(gs) : Nth(LiveAt(gs), k) = g
           /\ \A k, l \in DOMAIN StillLive(gs) : k # l => Nth(LiveAt(gs), k) # Nth(LiveAt(gs), l)
<1> DEFINE K == LiveAt(gs)
           t == Kept(gs, K)
<1>1. K \in SUBSET (DOMAIN gs) /\ StillLive(gs) = t BY DEF LiveAt, StillLive
<1>2. /\ t \in Seq(Groups) /\ Len(t) = Cardinality(K) /\ Cardinality(K) \in 0 .. Len(gs)
      /\ \A k \in 1 .. Cardinality(K) : Nth(K, k) \in K /\ t[k] = gs[Nth(K, k)]
      /\ \A i \in K : \E k \in 1 .. Cardinality(K) : Nth(K, k) = i
      /\ \A k, l \in 1 .. Cardinality(K) : k < l => Nth(K, k) < Nth(K, l) BY <1>1, KeptFits
<1>3. DOMAIN t = 1 .. Cardinality(K) BY <1>2
<1>4. \A k, l \in 1 .. Cardinality(K) : k # l => Nth(K, k) # Nth(K, l)
  <2>1. \A k \in K : k \in Int BY <1>1
  <2> HIDE DEF K, t
  <2> SUFFICES ASSUME NEW k \in 1 .. Cardinality(K), NEW l \in 1 .. Cardinality(K), k # l
               PROVE  Nth(K, k) # Nth(K, l) OBVIOUS
  <2>2. k < l \/ l < k OBVIOUS
  <2>3. Nth(K, k) \in Int /\ Nth(K, l) \in Int BY <1>2, <2>1
  <2> QED BY <1>2, <2>2, <2>3
<1> HIDE DEF K, t
<1>5. Cardinality(LiveAt(gs)) = Cardinality(K) /\ LiveAt(gs) = K BY DEF K
<1> QED BY <1>1, <1>2, <1>3, <1>4, <1>5

\* A request has as many completions in the groups that are left.
LEMMA StillLiveCount ==
    ASSUME NEW gs \in Seq(Groups), NEW r
    PROVE  Cardinality(Of(StillLive(gs), r)) = Cardinality(Of(gs, r))
<1> DEFINE K == LiveAt(gs)
           hs == StillLive(gs)
           A == Of(hs, r)
           B == Of(gs, r)
           f == [p \in A |-> <<Nth(K, p[1]), p[2]>>]
<1>1. /\ hs \in Seq(Groups)
      /\ \A k \in DOMAIN hs : Nth(K, k) \in K /\ hs[k] = gs[Nth(K, k)]
      /\ \A g \in K : \E k \in DOMAIN hs : Nth(K, k) = g
      /\ \A k, l \in DOMAIN hs : k # l => Nth(K, k) # Nth(K, l)
      /\ \A g \in DOMAIN gs : On(gs[g]) # {} => g \in K
      /\ K \in SUBSET (DOMAIN gs)
  <2>1. \A g \in DOMAIN gs : On(gs[g]) # {} => g \in K BY DEF LiveAt
  <2>2. K \in SUBSET (DOMAIN gs) BY DEF LiveAt
  <2> QED BY <2>1, <2>2, StillLiveFits
<1>a. /\ A = {p \in (DOMAIN hs) \X Pool : p[2] \in On(hs[p[1]]) /\ hs[p[1]].ms[p[2]].req = r}
      /\ B = {p \in (DOMAIN gs) \X Pool : p[2] \in On(gs[p[1]]) /\ gs[p[1]].ms[p[2]].req = r}
  BY DEF Of, Member
<1>2. IsFiniteSet(A)
  <2>1. A \in SUBSET ((DOMAIN hs) \X Pool) BY <1>a
  <2> HIDE DEF A, hs
  <2> QED BY <1>1, <2>1, PairsFinite
<1> HIDE DEF hs, K, A, B
<1>b. \A p \in A : /\ p[1] \in DOMAIN hs /\ p[2] \in Pool /\ p = <<p[1], p[2]>>
                   /\ p[2] \in On(hs[p[1]]) /\ hs[p[1]].ms[p[2]].req = r BY <1>a
<1>3. f \in [A -> B]
  <2> SUFFICES ASSUME NEW p \in A PROVE <<Nth(K, p[1]), p[2]>> \in B OBVIOUS
  <2>1. Nth(K, p[1]) \in DOMAIN gs /\ gs[Nth(K, p[1])] = hs[p[1]] BY <1>1, <1>b
  <2> QED BY <1>a, <1>b, <2>1
<1>4. \A p, q \in A : f[p] = f[q] => p = q
  <2> SUFFICES ASSUME NEW p \in A, NEW q \in A, <<Nth(K, p[1]), p[2]>> = <<Nth(K, q[1]), q[2]>> PROVE p = q
    OBVIOUS
  <2>1. Nth(K, p[1]) = Nth(K, q[1]) /\ p[2] = q[2] OBVIOUS
  <2>2. p[1] = q[1] BY <1>1, <1>b, <2>1
  <2> QED BY <1>b, <2>1, <2>2
<1>5. \A q \in B : \E p \in A : f[p] = q
  <2> TAKE q \in B
  <2>1. /\ q[1] \in DOMAIN gs /\ q[2] \in Pool /\ q = <<q[1], q[2]>>
        /\ q[2] \in On(gs[q[1]]) /\ gs[q[1]].ms[q[2]].req = r BY <1>a
  <2>2. PICK k \in DOMAIN hs : Nth(K, k) = q[1] BY <1>1, <2>1
  <2>3. hs[k] = gs[q[1]] BY <1>1, <2>2
  <2>4. <<k, q[2]>> \in A BY <1>a, <2>1, <2>3
  <2>5. f[<<k, q[2]>>] = <<Nth(K, k), q[2]>> BY <2>4
  <2> QED BY <2>1, <2>2, <2>4, <2>5
<1> HIDE DEF f
<1>6. Cardinality(B) = Cardinality(A) BY <1>2, <1>3, <1>4, <1>5, Matched
<1> QED BY <1>6 DEF A, B, hs

\* A group with the same prompt and as many members is one if what changed fits.
LEMMA Edited ==
    ASSUME NEW g \in Groups, NEW h \in GroupSet, Len(h.ms) = Len(g.ms),
           \A i \in DOMAIN g.ms : h.ms[i].req = g.ms[i].req /\ h.ms[i].gen <= Budget[g.ms[i].req],
           h.leader \in DOMAIN g.ms, h.hit = g.hit,
           h.pos <= Len(PromptOf(g)) + Slots, h.phase = "prefill" => h.pos <= PrefixEnd(g)
    PROVE  h \in Groups /\ PromptOf(h) = PromptOf(g) /\ PrefixEnd(h) = PrefixEnd(g)
<1>1. /\ Len(g.ms) \in 1 .. Slots /\ DOMAIN g.ms = 1 .. Len(g.ms) /\ GroupFits(g)
      /\ \A i \in DOMAIN g.ms : g.ms[i].req \in Requests BY GroupParts
<1>2. h.ms \in Seq(MemberSet) BY DEF GroupSet
<1>3. DOMAIN h.ms = 1 .. Len(h.ms) BY <1>2
<1>4. DOMAIN h.ms = DOMAIN g.ms /\ 1 \in DOMAIN g.ms BY <1>1, <1>3
<1>5. PromptOf(h) = PromptOf(g) BY <1>4 DEF PromptOf
<1>6. PrefixEnd(h) = PrefixEnd(g) BY <1>5 DEF PrefixEnd
<1>7. h.ms # <<>>
  <2>1. h.ms = <<>> => DOMAIN h.ms = {} OBVIOUS
  <2> QED BY <1>4, <2>1
<1>8. Len(h.ms) <= Slots /\ h.leader \in DOMAIN h.ms /\ h.hit < Len(PromptOf(h))
  BY <1>1, <1>4, <1>5 DEF GroupFits
<1>9. PosFits(h) BY <1>5, <1>6 DEF PosFits
<1>10. \A i \in DOMAIN h.ms : h.ms[i].gen <= Budget[h.ms[i].req] BY <1>4
<1>11. GroupFits(h) BY <1>7, <1>8, <1>9, <1>10 DEF GroupFits
<1> QED BY <1>5, <1>6, <1>11 DEF Groups

\* Ending members changes who is on, and nothing else.
EndedMember(gs, ps, g, i) ==
    IF <<g, i>> \in Range(ps) THEN Ended(gs[g].ms[i]) ELSE gs[g].ms[i]
\* The groups keep their types, and only the members that end leave.
LEMMA EndInFits ==
    ASSUME NEW gs \in Seq(Groups), NEW ps
    PROVE  /\ EndIn(gs, ps) \in Seq(Groups) /\ DOMAIN EndIn(gs, ps) = DOMAIN gs
           /\ \A g \in DOMAIN gs :
                /\ PromptOf(EndIn(gs, ps)[g]) = PromptOf(gs[g])
                /\ PrefixEnd(EndIn(gs, ps)[g]) = PrefixEnd(gs[g])
                /\ EndIn(gs, ps)[g].phase = gs[g].phase /\ EndIn(gs, ps)[g].pos = gs[g].pos
                /\ EndIn(gs, ps)[g].leader = gs[g].leader /\ EndIn(gs, ps)[g].hit = gs[g].hit
                /\ DOMAIN EndIn(gs, ps)[g].ms = DOMAIN gs[g].ms
                /\ On(EndIn(gs, ps)[g]) = {i \in On(gs[g]) : <<g, i>> \notin Range(ps)}
                /\ \A i \in DOMAIN gs[g].ms :
                     /\ EndIn(gs, ps)[g].ms[i].req = gs[g].ms[i].req
                     /\ EndIn(gs, ps)[g].ms[i].slot = gs[g].ms[i].slot
                     /\ EndIn(gs, ps)[g].ms[i].gen = gs[g].ms[i].gen
<1> DEFINE hs == EndIn(gs, ps)
           ended(g) == [i \in DOMAIN gs[g].ms |-> EndedMember(gs, ps, g, i)]
<1>1. hs = [g \in DOMAIN gs |-> [gs[g] EXCEPT !.ms = ended(g)]] BY DEF EndIn, EndedMember
<1>2. gs \in [1 .. Len(gs) -> Groups] /\ DOMAIN gs = 1 .. Len(gs) /\ Len(gs) \in Nat OBVIOUS
<1>3. ASSUME NEW g \in DOMAIN gs
      PROVE  /\ hs[g] \in Groups
             /\ PromptOf(hs[g]) = PromptOf(gs[g]) /\ PrefixEnd(hs[g]) = PrefixEnd(gs[g])
             /\ hs[g].phase = gs[g].phase /\ hs[g].pos = gs[g].pos
             /\ hs[g].leader = gs[g].leader /\ hs[g].hit = gs[g].hit
             /\ DOMAIN hs[g].ms = DOMAIN gs[g].ms
             /\ On(hs[g]) = {i \in On(gs[g]) : <<g, i>> \notin Range(ps)}
             /\ \A i \in DOMAIN gs[g].ms :
                  hs[g].ms[i].req = gs[g].ms[i].req /\ hs[g].ms[i].slot = gs[g].ms[i].slot
                  /\ hs[g].ms[i].gen = gs[g].ms[i].gen
  <2> DEFINE x == gs[g]
             h == [x EXCEPT !.ms = ended(g)]
  <2>1. x \in Groups /\ hs[g] = h BY <1>1, <1>2
  <2>2. /\ x \in GroupSet /\ GroupFits(x) /\ x.ms \in Seq(MemberSet) /\ DOMAIN x.ms = 1 .. Len(x.ms)
        /\ x.leader \in DOMAIN x.ms /\ Len(x.ms) \in 1 .. Slots
        /\ \A i \in DOMAIN x.ms : x.ms[i] \in MemberSet /\ x.ms[i].on \in BOOLEAN
    BY <2>1, GroupParts
  <2>3. \A i \in DOMAIN x.ms :
          /\ EndedMember(gs, ps, g, i) \in MemberSet
          /\ EndedMember(gs, ps, g, i).req = x.ms[i].req /\ EndedMember(gs, ps, g, i).slot = x.ms[i].slot
          /\ EndedMember(gs, ps, g, i).gen = x.ms[i].gen
          /\ EndedMember(gs, ps, g, i).on <=> (x.ms[i].on /\ <<g, i>> \notin Range(ps))
    <3> TAKE i \in DOMAIN x.ms
    <3>1. x.ms[i] \in MemberSet BY <2>2
    <3> QED BY <3>1 DEF EndedMember, Ended, MemberSet
  <2>4. ended(g) \in Seq(MemberSet) /\ Len(ended(g)) = Len(x.ms) /\ DOMAIN ended(g) = DOMAIN x.ms
        /\ \A i \in DOMAIN x.ms : ended(g)[i] = EndedMember(gs, ps, g, i)
    <3>0. \A i \in DOMAIN x.ms : EndedMember(gs, ps, g, i) \in MemberSet BY <2>3, Zenon
    <3>1. ended(g) \in [DOMAIN x.ms -> MemberSet] /\ Len(x.ms) \in Nat
      <4>1. ended(g) \in [DOMAIN x.ms -> MemberSet] BY <3>0, Zenon
      <4> QED BY <2>2, <4>1
    <3> QED BY <2>2, <3>1
  <2> HIDE DEF ended
  <2>5. h \in GroupSet /\ h.ms = ended(g) /\ h.leader = x.leader /\ h.hit = x.hit /\ h.pos = x.pos
        /\ h.phase = x.phase BY <2>2, <2>4 DEF GroupSet
  <2> HIDE DEF h, x
  <2>6. x.pos <= Len(PromptOf(x)) + Slots /\ (x.phase = "prefill" => x.pos <= PrefixEnd(x))
        /\ \A i \in DOMAIN x.ms : x.ms[i].gen <= Budget[x.ms[i].req] BY <2>2 DEF GroupFits, PosFits
  <2>7. \A i \in DOMAIN x.ms : h.ms[i].req = x.ms[i].req /\ h.ms[i].gen <= Budget[x.ms[i].req]
    BY <2>3, <2>4, <2>5, <2>6
  <2>8. h \in Groups /\ PromptOf(h) = PromptOf(x) /\ PrefixEnd(h) = PrefixEnd(x)
    BY <2>1, <2>2, <2>4, <2>5, <2>6, <2>7, Edited
  <2>9. On(h) = {i \in On(x) : <<g, i>> \notin Range(ps)}
    <3>1. \A i \in DOMAIN x.ms : h.ms[i].on <=> x.ms[i].on /\ <<g, i>> \notin Range(ps)
      BY <2>3, <2>4, <2>5
    <3> QED BY <2>4, <2>5, <3>1 DEF On
  <2> QED BY <2>1, <2>3, <2>4, <2>5, <2>8, <2>9 DEF x
<1>4. hs \in Seq(Groups) /\ DOMAIN hs = DOMAIN gs
  <2>1. DOMAIN hs = DOMAIN gs BY <1>1
  <2> HIDE DEF hs
  <2>2. hs \in [1 .. Len(gs) -> Groups]
    <3>1. hs = [g \in 1 .. Len(gs) |-> [gs[g] EXCEPT !.ms = ended(g)]] BY <1>1, <1>2
    <3>2. \A g \in 1 .. Len(gs) : hs[g] \in Groups BY <1>2, <1>3
    <3>3. \A g \in 1 .. Len(gs) : hs[g] = [gs[g] EXCEPT !.ms = ended(g)] BY <3>1
    <3> HIDE DEF ended
    <3> QED BY <3>1, <3>2, <3>3
  <2> QED BY <1>2, <2>1, <2>2
<1> HIDE DEF hs
<1> QED BY <1>3, <1>4 DEF hs

\* The groups that are left when members end.
LEMMA RetireGroups ==
    ASSUME NEW gs \in Seq(Groups), NEW ps, groups' = StillLive(EndIn(gs, ps)),
           \A g \in DOMAIN gs : \A i \in On(gs[g]) :
               <<g, i>> \notin Range(ps) => gs[g].ms[i].gen < Budget[gs[g].ms[i].req]
    PROVE  /\ GroupTypes'
           /\ \A r : Cardinality(Decoding(r)') = Cardinality(Of(gs, r) \ Range(ps))
<1> DEFINE hs == EndIn(gs, ps)
<1>1. /\ hs \in Seq(Groups) /\ DOMAIN hs = DOMAIN gs
      /\ \A g \in DOMAIN gs :
           /\ On(hs[g]) = {i \in On(gs[g]) : <<g, i>> \notin Range(ps)}
           /\ \A i \in DOMAIN gs[g].ms : hs[g].ms[i].req = gs[g].ms[i].req /\ hs[g].ms[i].gen = gs[g].ms[i].gen
  BY EndInFits
<1>2. \A g \in DOMAIN gs : On(gs[g]) \subseteq DOMAIN gs[g].ms BY DEF On
<1>3. \A r : Of(hs, r) = Of(gs, r) \ Range(ps)
  <2> TAKE r
  <2>1. \A p \in (DOMAIN gs) \X Pool : p[1] \in DOMAIN gs /\ p = <<p[1], p[2]>> OBVIOUS
  <2> HIDE DEF hs
  <2>2. \A p \in (DOMAIN gs) \X Pool :
          (p[2] \in On(hs[p[1]]) /\ hs[p[1]].ms[p[2]].req = r)
          <=> (p[2] \in On(gs[p[1]]) /\ gs[p[1]].ms[p[2]].req = r /\ p \notin Range(ps))
    <3> TAKE p \in (DOMAIN gs) \X Pool
    <3>1. p[1] \in DOMAIN gs /\ p = <<p[1], p[2]>> BY <2>1
    <3> DEFINE g == p[1]
               i == p[2]
    <3>a. On(hs[g]) = {j \in On(gs[g]) : <<g, j>> \notin Range(ps)} BY <1>1, <3>1
    <3>b. i \in On(hs[g]) <=> i \in On(gs[g]) /\ <<g, i>> \notin Range(ps)
      <4> HIDE DEF g, i
      <4> QED BY <3>a
    <3>2. p[2] \in On(hs[p[1]]) <=> p[2] \in On(gs[p[1]]) /\ p \notin Range(ps) BY <3>1, <3>b
    <3>3. p[2] \in On(gs[p[1]]) => hs[p[1]].ms[p[2]].req = gs[p[1]].ms[p[2]].req
      BY <1>1, <1>2, <3>1
    <3> QED BY <3>2, <3>3
  <2> QED BY <1>1, <2>2 DEF Of, Member
<1> HIDE DEF hs
<1>4. groups' = StillLive(hs) BY DEF hs
<1>5. /\ StillLive(hs) \in Seq(Groups)
      /\ \A k \in DOMAIN StillLive(hs) :
           Nth(LiveAt(hs), k) \in LiveAt(hs) /\ StillLive(hs)[k] = hs[Nth(LiveAt(hs), k)]
  BY <1>1, StillLiveFits
<1>6. \A g \in LiveAt(hs) : Alive(hs[g])
  <2> TAKE g \in LiveAt(hs)
  <2>1. g \in DOMAIN gs /\ On(hs[g]) # {} BY <1>1 DEF LiveAt
  <2>2. \A i \in On(hs[g]) : i \in On(gs[g]) /\ i \in DOMAIN gs[g].ms /\ <<g, i>> \notin Range(ps)
    BY <1>1, <1>2, <2>1
  <2>3. \A i \in On(hs[g]) : hs[g].ms[i].gen < Budget[hs[g].ms[i].req] BY <1>1, <2>1, <2>2
  <2> QED BY <2>1, <2>3 DEF Alive
<1>7. \A g \in DOMAIN StillLive(hs) : Alive(StillLive(hs)[g]) BY <1>5, <1>6
<1>8. \A r : Decoding(r)' = Of(StillLive(hs), r) BY <1>4 DEF Decoding, Of, Member
<1>9. \A r : Cardinality(Decoding(r)') = Cardinality(Of(gs, r) \ Range(ps))
  BY <1>1, <1>3, <1>8, StillLiveCount
<1> QED BY <1>4, <1>5, <1>7, <1>9 DEF GroupTypes

\* The nodes of the tree, when one of them is renewed.
Apart(ds) == \A i, j \in DOMAIN ds : i # j => ds[i].slot # ds[j].slot
\* Renewing a node of the tree keeps the nodes.
LEMMA RenewedFits ==
    ASSUME dormant \in Seq(NodeSet), NEW node, node = None \/ node \in Range(dormant)
    PROVE  /\ Renewed(node) \in Seq(NodeSet) /\ Range(Renewed(node)) = Range(dormant)
           /\ Apart(dormant) => Apart(Renewed(node))
<1>1. CASE node = None BY <1>1 DEF Renewed
<1>2. CASE node # None
  <2> DEFINE t == Without(dormant, node)
             m == Len(t)
  <2>1. node \in Range(dormant) /\ node \in NodeSet BY <1>2, RangeFinite
  <2>2. /\ t \in Seq(NodeSet) /\ (\A k \in DOMAIN t : t[k] # node /\ \E i \in DOMAIN dormant : dormant[i] = t[k])
        /\ \A i \in DOMAIN dormant : dormant[i] # node => \E k \in DOMAIN t : t[k] = dormant[i]
        /\ Differ(dormant) => Differ(t) BY WithoutFits
  <2>3. Renewed(node) = Append(t, node) BY <1>2 DEF Renewed
  <2> HIDE DEF t
  <2>4. m \in Nat /\ DOMAIN t = 1 .. m /\ Append(t, node) \in Seq(NodeSet)
        /\ DOMAIN Append(t, node) = 1 .. m + 1
        /\ (\A k \in 1 .. m : Append(t, node)[k] = t[k]) /\ Append(t, node)[m + 1] = node
    BY <2>1, <2>2
  <2> HIDE DEF m
  <2> DEFINE u == Append(t, node)
  <2>5. u \in Seq(NodeSet) /\ DOMAIN u = 1 .. m + 1 /\ (\A k \in 1 .. m : u[k] = t[k]) /\ u[m + 1] = node
    BY <2>4
  <2> HIDE DEF u
  <2>6. \A k \in 1 .. m + 1 : k \in 1 .. m \/ k = m + 1 BY <2>4
  <2>7. Range(u) = Range(dormant)
    <3>1. \A k \in DOMAIN u : u[k] \in Range(dormant) BY <2>1, <2>2, <2>4, <2>5, <2>6 DEF Range
    <3>2. \A i \in DOMAIN dormant : \E k \in DOMAIN u : u[k] = dormant[i]
      <4> TAKE i \in DOMAIN dormant
      <4>1. CASE dormant[i] = node BY <2>4, <2>5, <4>1
      <4>2. CASE dormant[i] # node
        <5>1. PICK k \in DOMAIN t : t[k] = dormant[i] BY <2>2, <4>2
        <5>2. k \in DOMAIN u /\ u[k] = t[k] BY <2>4, <2>5
        <5> QED BY <5>1, <5>2
      <4> QED BY <4>1, <4>2
    <3> QED BY <3>1, <3>2 DEF Range
  <2>8. ASSUME Apart(dormant) PROVE Apart(u)
    <3>1. Differ(dormant) BY <2>8 DEF Apart, Differ
    <3>2. Differ(t) BY <2>2, <3>1
    <3>3. \A i, j \in DOMAIN dormant : dormant[i] # dormant[j] => dormant[i].slot # dormant[j].slot
      BY <2>8 DEF Apart
    <3>4. \A x, y \in Range(dormant) : x # y => x.slot # y.slot BY <3>3 DEF Range
    <3>5. \A k \in DOMAIN u : u[k] \in Range(dormant) BY <2>7 DEF Range
    <3>6. \A k, l \in DOMAIN u : k # l => u[k] # u[l]
      <4> SUFFICES ASSUME NEW k \in DOMAIN u, NEW l \in DOMAIN u, k # l PROVE u[k] # u[l] OBVIOUS
      <4>1. CASE k \in 1 .. m /\ l \in 1 .. m BY <2>4, <2>5, <3>2, <4>1 DEF Differ
      <4>2. CASE k = m + 1 /\ l \in 1 .. m BY <2>2, <2>4, <2>5, <4>2
      <4>3. CASE l = m + 1 /\ k \in 1 .. m BY <2>2, <2>4, <2>5, <4>3
      <4> QED BY <2>5, <2>6, <4>1, <4>2, <4>3
    <3> QED BY <3>4, <3>5, <3>6 DEF Apart
  <2> QED BY <2>3, <2>5, <2>7, <2>8 DEF u
<1> QED BY <1>1, <1>2

-----------------------------------------------------------------------------
(* Placing a group.                                                         *)

SeatsOf(rs) == {s \in (DOMAIN rs) \X Pool : s[2] <= Copies[rs[s[1]]]}
MembersFor(g, r) == {i \in On(g) : g.ms[i].req = r}
Asking(ms, r) == {i \in DOMAIN ms : ms[i].req = r}

\* The slots of the pool that are free are finitely many.
LEMMA FreeSlotsFinite ==
    /\ IsFiniteSet(FreeSlots) /\ Cardinality(FreeSlots) \in 0 .. Slots
    /\ \A k \in 1 .. Cardinality(FreeSlots) : Nth(FreeSlots, k) \in FreeSlots
    /\ \A k, l \in 1 .. Cardinality(FreeSlots) : k < l => Nth(FreeSlots, k) < Nth(FreeSlots, l)
    /\ FreeSlots \subseteq Pool /\ IsFiniteSet(Pool) /\ Cardinality(Pool) = Slots
<1>1. FreeSlots \in SUBSET (1 .. Slots) /\ Pool = 1 .. Slots /\ Slots \in Nat
  BY Constants DEF FreeSlots, Pool
<1>2. IsFiniteSet(Pool) /\ Cardinality(Pool) = Slots BY <1>1, FS_Interval
<1> QED BY <1>1, <1>2, RankFits, NthFits

\* As many seats as a request asks for completions.
LEMMA SeatsOfOne ==
    ASSUME NEW r \in Requests, Copies[r] <= Slots
    PROVE  IsFiniteSet(Seats({r})) /\ Cardinality(Seats({r})) = Copies[r]
<1> DEFINE S == 1 .. Copies[r]
           f == [c \in S |-> <<r, c>>]
<1>1. Copies[r] \in Nat /\ Slots \in Nat BY Constants
<1>2. IsFiniteSet(S) /\ Cardinality(S) = Copies[r]
  <2>1. PICK n \in Nat : n = Copies[r] BY <1>1
  <2>2. IsFiniteSet(1 .. n) /\ Cardinality(1 .. n) = n BY FS_Interval
  <2> QED BY <2>1, <2>2
<1>3. \A c \in S : c \in Pool /\ c <= Copies[r] BY <1>1 DEF Pool
<1>4. \A c \in Pool : c <= Copies[r] => c \in S BY <1>1 DEF Pool
<1> HIDE DEF S
<1>5. f \in [S -> Seats({r})] BY <1>3 DEF Seats
<1>6. \A x, y \in S : f[x] = f[y] => x = y OBVIOUS
<1>7. \A t \in Seats({r}) : \E x \in S : f[x] = t
  <2> TAKE t \in Seats({r})
  <2>1. t[2] \in Pool /\ t[2] <= Copies[r] /\ t = <<r, t[2]>> BY DEF Seats
  <2> QED BY <1>4, <2>1
<1> HIDE DEF f
<1>8. IsFiniteSet(Seats({r})) /\ Cardinality(Seats({r})) = Cardinality(S)
  BY <1>2, <1>5, <1>6, <1>7, Matched
<1> QED BY <1>2, <1>8

\* Finitely many requests have finitely many seats.
LEMMA SeatsFinite ==
    ASSUME NEW R, IsFiniteSet(R)
    PROVE  IsFiniteSet(Seats(R)) /\ Cardinality(Seats(R)) \in Nat
<1>1. IsFiniteSet(R \X Pool) BY FreeSlotsFinite, FS_Product
<1>2. Seats(R) \in SUBSET (R \X Pool) BY DEF Seats
<1>3. IsFiniteSet(Seats(R)) BY <1>1, <1>2, FS_Subset, Zenon
<1> QED BY <1>3, FS_CardinalityType

\* The seats of a sequence of different requests are those of its requests.
LEMMA SeatsOfFits ==
    ASSUME NEW rs \in Seq(Requests), Differ(rs)
    PROVE  /\ IsFiniteSet(SeatsOf(rs)) /\ SeatsOf(rs) \in SUBSET (Int \X Int)
           /\ Cardinality(SeatsOf(rs)) = Cardinality(Seats(Range(rs)))
<1> DEFINE P == SeatsOf(rs)
           f == [s \in P |-> <<rs[s[1]], s[2]>>]
<1>1. DOMAIN rs = 1 .. Len(rs) /\ Len(rs) \in Nat /\ DOMAIN rs \subseteq Int /\ Pool \subseteq Int
  BY DEF Pool
<1>2. P \in SUBSET ((DOMAIN rs) \X Pool) /\ P \in SUBSET (Int \X Int) BY <1>1 DEF SeatsOf
<1>3. IsFiniteSet((DOMAIN rs) \X Pool)
  <2>1. IsFiniteSet(DOMAIN rs) BY <1>1, FS_Interval
  <2> QED BY <2>1, FreeSlotsFinite, FS_Product
<1>4. IsFiniteSet(P)
  <2> HIDE DEF P
  <2> QED BY <1>2, <1>3, FS_Subset, Zenon
<1>5. \A s \in P : s = <<s[1], s[2]>> /\ s[1] \in DOMAIN rs /\ s[2] \in Pool /\ s[2] <= Copies[rs[s[1]]]
  BY DEF SeatsOf
<1>6. f \in [P -> Seats(Range(rs))] BY <1>5 DEF Seats, Range
<1>7. \A x, y \in P : f[x] = f[y] => x = y
  <2> SUFFICES ASSUME NEW x \in P, NEW y \in P, <<rs[x[1]], x[2]>> = <<rs[y[1]], y[2]>> PROVE x = y
    OBVIOUS
  <2>1. rs[x[1]] = rs[y[1]] /\ x[2] = y[2] OBVIOUS
  <2>2. x[1] = y[1] BY <1>5, <2>1 DEF Differ
  <2> QED BY <1>5, <2>1, <2>2
<1>8. \A t \in Seats(Range(rs)) : \E x \in P : f[x] = t
  <2> TAKE t \in Seats(Range(rs))
  <2>1. t[1] \in Range(rs) /\ t[2] \in Pool /\ t[2] <= Copies[t[1]] /\ t = <<t[1], t[2]>>
    BY DEF Seats
  <2>2. PICK k \in DOMAIN rs : rs[k] = t[1] BY <2>1 DEF Range
  <2>3. <<k, t[2]>> \in P BY <2>1, <2>2 DEF SeatsOf
  <2>4. f[<<k, t[2]>>] = <<rs[k], t[2]>> BY <2>3
  <2> QED BY <2>1, <2>2, <2>3, <2>4
<1> HIDE DEF f
<1>9. Cardinality(Seats(Range(rs))) = Cardinality(P)
  <2> HIDE DEF P
  <2> QED BY <1>4, <1>6, <1>7, <1>8, Matched
<1> QED BY <1>2, <1>4, <1>9

\* What can be placed: different requests, with a free slot for each completion.
Placeable(rs) ==
    /\ rs \in Seq(Requests) /\ rs # <<>> /\ Differ(rs)
    /\ \A k \in DOMAIN rs : Copies[rs[k]] <= Slots
    /\ Cardinality(SeatsOf(rs)) <= Cardinality(FreeSlots)
PlacedMs(rs) == [i \in DOMAIN InOrder(SeatsOf(rs)) |->
    [req |-> rs[InOrder(SeatsOf(rs))[i][1]], slot |-> Nth(FreeSlots, i), gen |-> 0, on |-> TRUE]]
Placed(rs) == [ms |-> PlacedMs(rs), leader |-> 1, phase |-> "prefill",
               hit |-> Hit(Prompt[rs[1]]).len, pos |-> Hit(Prompt[rs[1]]).len]

\* Its members take free slots in turn, as many for a request as it asked for.
LEMMA PlacedMembers ==
    ASSUME NEW rs, Placeable(rs)
    PROVE  /\ PlacedMs(rs) \in Seq(MemberSet) /\ Len(PlacedMs(rs)) = Cardinality(SeatsOf(rs))
           /\ Len(PlacedMs(rs)) \in 1 .. Cardinality(FreeSlots)
           /\ PlacedMs(rs)[1].req = rs[1]
           /\ \A i \in DOMAIN PlacedMs(rs) :
                /\ PlacedMs(rs)[i].req \in Range(rs) /\ PlacedMs(rs)[i].slot = Nth(FreeSlots, i)
                /\ PlacedMs(rs)[i].gen = 0 /\ PlacedMs(rs)[i].on = TRUE
           /\ \A r : Cardinality(Asking(PlacedMs(rs), r)) = IF r \in Range(rs) THEN Copies[r] ELSE 0
<1> DEFINE P == SeatsOf(rs)
           t == InOrder(P)
           c == Cardinality(P)
           ms == PlacedMs(rs)
<1>0. /\ rs \in Seq(Requests) /\ rs # <<>> /\ Differ(rs) /\ (\A k \in DOMAIN rs : Copies[rs[k]] <= Slots)
      /\ c <= Cardinality(FreeSlots) BY DEF Placeable
<1>1. IsFiniteSet(P) /\ P \in SUBSET (Int \X Int) BY <1>0, SeatsOfFits
<1>2. \A s \in P : s = <<s[1], s[2]>> /\ s[1] \in DOMAIN rs /\ s[2] \in Pool /\ s[2] <= Copies[rs[s[1]]]
  BY DEF SeatsOf
<1>3. \A k \in DOMAIN rs : \A n \in Pool : n <= Copies[rs[k]] => <<k, n>> \in P BY DEF SeatsOf
<1>4. 1 \in DOMAIN rs /\ DOMAIN rs \subseteq Nat \ {0} /\ \A k \in DOMAIN rs : rs[k] \in Requests
  BY <1>0
<1>5. Pool \subseteq Nat \ {0} /\ 1 \in Pool BY Constants DEF Pool
<1>6. <<1, 1>> \in P
  <2>1. 1 <= Copies[rs[1]] BY <1>4, Constants
  <2> HIDE DEF P
  <2> QED BY <1>3, <1>4, <1>5, <2>1
<1> HIDE DEF P
<1>7. /\ t \in Seq(P) /\ Len(t) = c /\ c \in Nat /\ DOMAIN t = 1 .. c
      /\ \A p \in P : \E k \in DOMAIN t : t[k] = p
      /\ \A k \in DOMAIN t : Cardinality(Earlier(P, t[k])) = k - 1
      /\ Differ(t) BY <1>1, InOrderFits
<1>8. \A i \in 1 .. c : t[i] \in P BY <1>7
<1>9. c # 0 BY <1>1, <1>6, FS_EmptySet
<1>10. c \in 1 .. Cardinality(FreeSlots) BY <1>0, <1>7, <1>9, FreeSlotsFinite
<1>11. ms = [i \in 1 .. c |-> [req |-> rs[t[i][1]], slot |-> Nth(FreeSlots, i), gen |-> 0, on |-> TRUE]]
  BY <1>7 DEF PlacedMs, P
<1> HIDE DEF t, c, ms
<1>12. \A i \in 1 .. c : Nth(FreeSlots, i) \in Pool BY <1>10, FreeSlotsFinite
<1>13. \A i \in 1 .. c : t[i][1] \in DOMAIN rs /\ rs[t[i][1]] \in Requests /\ rs[t[i][1]] \in Range(rs)
  BY <1>2, <1>4, <1>8 DEF Range
<1>14. \A i \in 1 .. c : /\ ms[i] \in MemberSet /\ ms[i].req = rs[t[i][1]]
                         /\ ms[i].slot = Nth(FreeSlots, i) /\ ms[i].gen = 0 /\ ms[i].on = TRUE
  BY <1>11, <1>12, <1>13 DEF MemberSet
<1>15. ms \in Seq(MemberSet) /\ Len(ms) = c /\ DOMAIN ms = 1 .. c
  <2>1. DOMAIN ms = 1 .. c BY <1>11
  <2>2. ms \in [1 .. c -> MemberSet] BY <1>11, <1>14
  <2> QED BY <1>7, <2>1, <2>2
<1>16. t[1][1] = 1
  <2>1. 1 \in 1 .. c /\ t[1] \in P BY <1>7, <1>8, <1>9
  <2>2. Cardinality(Earlier(P, t[1])) = 0 BY <1>7, <2>1
  <2>3. Earlier(P, t[1]) \in SUBSET P BY DEF Earlier
  <2>4. IsFiniteSet(Earlier(P, t[1])) BY <1>1, <2>3, FS_Subset
  <2>5. Earlier(P, t[1]) = {} BY <2>2, <2>4, FS_EmptySet
  <2>6. ~Before(<<1, 1>>, t[1]) BY <1>6, <2>5 DEF Earlier
  <2>7. t[1][1] \in Nat \ {0} BY <1>2, <1>4, <2>1
  <2> QED BY <2>6, <2>7 DEF Before
<1>17. \A r : Cardinality(Asking(ms, r)) = IF r \in Range(rs) THEN Copies[r] ELSE 0
  <2> TAKE r
  <2> DEFINE A == Asking(ms, r)
  <2>a. A = {i \in DOMAIN ms : ms[i].req = r} BY DEF Asking
  <2>1. CASE r \notin Range(rs)
    <3>1. A = {} BY <1>13, <1>14, <1>15, <2>1, <2>a
    <3> QED BY <2>1, <3>1, FS_EmptySet
  <2>2. CASE r \in Range(rs)
    <3>1. PICK k \in DOMAIN rs : rs[k] = r BY <2>2 DEF Range
    <3>2. \A i \in A : i \in 1 .. c /\ t[i][1] = k /\ t[i][2] \in 1 .. Copies[r] /\ t[i] = <<k, t[i][2]>>
      <4> TAKE i \in A
      <4>1. i \in 1 .. c /\ rs[t[i][1]] = r /\ t[i] \in P BY <1>8, <1>14, <1>15, <2>a
      <4>2. t[i] = <<t[i][1], t[i][2]>> /\ t[i][1] \in DOMAIN rs /\ t[i][2] \in Pool /\ t[i][2] <= Copies[rs[t[i][1]]]
        BY <1>2, <4>1
      <4>3. t[i][1] = k BY <1>0, <3>1, <4>1, <4>2 DEF Differ
      <4>4. t[i][2] \in 1 .. Copies[r] BY <1>5, <4>1, <4>2, <2>2, <1>4, Constants, <3>1 DEF Pool
      <4> QED BY <4>1, <4>2, <4>3, <4>4
    <3> DEFINE f == [i \in A |-> t[i][2]]
               S == 1 .. Copies[r]
    <3>3. f \in [A -> S] BY <3>2
    <3>4. \A x, y \in A : f[x] = f[y] => x = y
      <4> SUFFICES ASSUME NEW x \in A, NEW y \in A, t[x][2] = t[y][2] PROVE x = y OBVIOUS
      <4>1. t[x] = t[y] BY <3>2
      <4>2. x \in DOMAIN t /\ y \in DOMAIN t BY <1>7, <3>2
      <4> QED BY <1>7, <4>1, <4>2 DEF Differ
    <3>5. \A n \in S : \E i \in A : f[i] = n
      <4> TAKE n \in S
      <4>1. n \in Pool /\ n <= Copies[rs[k]]
        <5>1. Copies[r] \in Nat /\ Copies[r] <= Slots /\ Slots \in Nat
          BY <1>0, <1>4, <3>1, Constants
        <5> QED BY <3>1, <5>1 DEF Pool
      <4>2. <<k, n>> \in P BY <1>3, <4>1
      <4>3. PICK i \in 1 .. c : t[i] = <<k, n>> BY <1>7, <4>2
      <4>4. i \in A /\ t[i][2] = n BY <1>14, <1>15, <2>a, <3>1, <4>3
      <4> QED BY <4>4
    <3>6. IsFiniteSet(A)
      <4>1. A \in SUBSET (1 .. c) BY <1>15, <2>a
      <4> HIDE DEF A
      <4> QED BY <1>7, <4>1, RankFits
    <3>7. PICK n \in Nat : n = Copies[r] BY <1>4, <3>1, Constants
    <3>8. Cardinality(1 .. n) = n BY FS_Interval
    <3> HIDE DEF A, f, S
    <3>9. Cardinality(S) = Cardinality(A) BY <3>3, <3>4, <3>5, <3>6, Matched
    <3> QED BY <2>2, <3>7, <3>8, <3>9 DEF A, S
  <2> QED BY <2>1, <2>2
<1>18. \A i \in DOMAIN ms : /\ ms[i].req \in Range(rs) /\ ms[i].slot = Nth(FreeSlots, i)
                            /\ ms[i].gen = 0 /\ ms[i].on = TRUE BY <1>13, <1>14, <1>15
<1>19. ms[1].req = rs[1] BY <1>7, <1>9, <1>14, <1>16
<1> QED BY <1>10, <1>15, <1>17, <1>18, <1>19 DEF ms, c, P

\* The group that is placed is one, and holds its requests' completions.
LEMMA PlacedFits ==
    ASSUME NEW rs, Placeable(rs), dormant \in Seq(NodeSet)
    PROVE  /\ Placed(rs) \in Groups /\ Alive(Placed(rs)) /\ On(Placed(rs)) = DOMAIN PlacedMs(rs)
           /\ PromptOf(Placed(rs)) = Prompt[rs[1]]
           /\ \A r : Cardinality(MembersFor(Placed(rs), r)) = IF r \in Range(rs) THEN Copies[r] ELSE 0
           /\ Min({Hit(Prompt[rs[1]]).len, PrefixEnd(Placed(rs))}) = Hit(Prompt[rs[1]]).len
           /\ Hit(Prompt[rs[1]]).len \in Nat
<1> DEFINE g == Placed(rs)
           ms == PlacedMs(rs)
           h == Hit(Prompt[rs[1]]).len
           p == Prompt[rs[1]]
<1>1. rs \in Seq(Requests) /\ rs # <<>> BY DEF Placeable
<1>2. rs[1] \in Requests /\ \A r \in Range(rs) : r \in Requests BY <1>1 DEF Range
<1>3. p \in Seq(Int) /\ Len(p) \in Nat /\ Len(p) > 0 BY <1>2, Constants
<1>4. h \in 0 .. Len(p) - 1 BY <1>3, HitFits
<1>5. /\ ms \in Seq(MemberSet) /\ Len(ms) \in 1 .. Cardinality(FreeSlots) /\ ms[1].req = rs[1]
      /\ \A i \in DOMAIN ms : ms[i].req \in Range(rs) /\ ms[i].gen = 0 /\ ms[i].on = TRUE
      /\ \A r : Cardinality(Asking(ms, r)) = IF r \in Range(rs) THEN Copies[r] ELSE 0
  BY PlacedMembers
<1>6. g.ms = ms /\ g.leader = 1 /\ g.phase = "prefill" /\ g.hit = h /\ g.pos = h BY DEF Placed
<1>7. g = [ms |-> ms, leader |-> 1, phase |-> "prefill", hit |-> h, pos |-> h] BY DEF Placed
<1> HIDE DEF g, ms, h, p
<1>8. Len(ms) \in Nat /\ Len(ms) > 0 /\ Len(ms) <= Slots /\ DOMAIN ms = 1 .. Len(ms) /\ ms # <<>> /\ 1 \in DOMAIN ms
  <2>1. Len(ms) \in 1 .. Slots BY <1>5, FreeSlotsFinite, Constants
  <2>2. Len(ms) \in Nat /\ Len(ms) > 0 /\ Len(ms) <= Slots /\ DOMAIN ms = 1 .. Len(ms)
    BY <1>5, <2>1, Constants
  <2>3. 1 \in DOMAIN ms BY <2>2
  <2>4. ms # <<>> BY <2>2
  <2> QED BY <2>2, <2>3, <2>4
<1>9. g \in GroupSet
  <2>1. h \in Nat BY <1>3, <1>4
  <2> QED BY <1>5, <1>7, <2>1 DEF GroupSet, Phases
<1>10. PromptOf(g) = p BY <1>5, <1>6 DEF PromptOf, p
<1>11. h <= PrefixEnd(g) /\ PrefixEnd(g) \in Int
  <2>1. PICK n \in Nat : n = Len(p) /\ n > 0 /\ h \in 0 .. n - 1 BY <1>3, <1>4
  <2>2. PrefixEnd(g) = n - (IF Len(g.ms) > 1 THEN 1 ELSE 0) BY <1>10, <2>1 DEF PrefixEnd
  <2>3. PrefixEnd(g) = n \/ PrefixEnd(g) = n - 1 BY <2>1, <2>2
  <2> QED BY <2>1, <2>3
<1>12. g \in Groups
  <2>1. g.hit < Len(PromptOf(g)) /\ g.pos <= Len(PromptOf(g)) + Slots
    BY <1>3, <1>4, <1>6, <1>10, Constants
  <2>2. PosFits(g) BY <1>6, <1>11, <2>1 DEF PosFits
  <2>3. \A i \in DOMAIN g.ms : g.ms[i].gen <= Budget[g.ms[i].req] BY <1>2, <1>5, <1>6, Constants
  <2>4. GroupFits(g) BY <1>6, <1>8, <2>1, <2>2, <2>3 DEF GroupFits
  <2> QED BY <1>9, <2>4 DEF Groups
<1>13. On(g) = DOMAIN ms BY <1>5, <1>6 DEF On
<1>14. Alive(g)
  <2>1. On(g) # {} BY <1>8, <1>13
  <2>2. \A i \in On(g) : g.ms[i].gen < Budget[g.ms[i].req] BY <1>2, <1>5, <1>6, <1>13, Constants
  <2> QED BY <2>1, <2>2 DEF Alive
<1>15. \A r : MembersFor(g, r) = Asking(ms, r) BY <1>6, <1>13 DEF MembersFor, Asking
<1>16. \A r : Cardinality(MembersFor(g, r)) = IF r \in Range(rs) THEN Copies[r] ELSE 0
  <2> TAKE r
  <2>1. MembersFor(g, r) = Asking(ms, r) BY <1>15
  <2>2. Cardinality(Asking(ms, r)) = IF r \in Range(rs) THEN Copies[r] ELSE 0 BY <1>5
  <2> QED BY <2>1, <2>2
<1>17. Min({h, PrefixEnd(g)}) = h
  <2>1. PICK n \in Int : n = PrefixEnd(g) BY <1>11
  <2>2. PICK m \in Int : m = h /\ m <= n BY <1>3, <1>4, <1>11, <2>1
  <2>3. Min({m, n}) = m BY <2>2, MinOfTwo
  <2> QED BY <2>1, <2>2, <2>3
<1>18. h \in Nat BY <1>3, <1>4
<1> QED BY <1>10, <1>12, <1>13, <1>14, <1>16, <1>17, <1>18 DEF g, ms, h, p

\* One more group.
LEMMA AppendedCount ==
    ASSUME NEW gs \in Seq(Groups), NEW g \in Groups, NEW r
    PROVE  /\ IsFiniteSet(Of(gs, r)) /\ Cardinality(Of(gs, r)) \in Nat
           /\ Cardinality(Of(Append(gs, g), r)) = Cardinality(Of(gs, r)) + Cardinality(MembersFor(g, r))
           /\ Cardinality(MembersFor(g, r)) \in Nat
<1> DEFINE hs == Append(gs, g)
           n == Len(gs) + 1
           A == Of(gs, r)
           M == MembersFor(g, r)
           f == [i \in M |-> <<n, i>>]
           B == {<<n, i>> : i \in M}
<1>1. /\ hs \in Seq(Groups) /\ n \in Nat /\ n > 0 /\ DOMAIN gs = 1 .. n - 1 /\ DOMAIN hs = 1 .. n /\ hs[n] = g
      /\ \A k \in DOMAIN gs : hs[k] = gs[k] /\ k # n OBVIOUS
<1>2. A \in SUBSET ((DOMAIN gs) \X Pool) BY DEF Of
<1>3. IsFiniteSet(A) /\ Cardinality(A) \in Nat
  <2> HIDE DEF A
  <2> QED BY <1>2, PairsFinite
<1>4. M \in SUBSET Pool BY GroupParts DEF MembersFor
<1> HIDE DEF n, hs
<1>5. Of(hs, r) = A \cup B /\ A \cap B = {}
  <2>1. \A p \in A : p \in Of(hs, r) /\ p[1] # n BY <1>1 DEF Of, Member
  <2>2. \A p \in B : p \in Of(hs, r) /\ p[1] = n
    <3> TAKE p \in B
    <3>1. PICK i \in M : p = <<n, i>> OBVIOUS
    <3>a. i \in Pool
      <4> HIDE DEF M
      <4> QED BY <1>4
    <3>b. n \in DOMAIN hs BY <1>1
    <3>2. i \in On(g) /\ g.ms[i].req = r /\ i \in Pool /\ n \in DOMAIN hs
      BY <3>a, <3>b DEF MembersFor
    <3> QED BY <1>1, <3>1, <3>2 DEF Of, Member
  <2>3. \A p \in Of(hs, r) : p \in A \cup B
    <3> TAKE p \in Of(hs, r)
    <3>1. p = <<p[1], p[2]>> /\ p[1] \in DOMAIN hs /\ p[2] \in Pool /\ p[2] \in On(hs[p[1]]) /\ hs[p[1]].ms[p[2]].req = r
      BY DEF Of, Member
    <3>2. CASE p[1] = n
      <4>1. p[2] \in M BY <1>1, <3>1, <3>2 DEF MembersFor
      <4> QED BY <3>1, <3>2, <4>1
    <3>3. CASE p[1] # n
      <4>1. p[1] \in DOMAIN gs BY <1>1, <3>1, <3>3
      <4>2. p \in A BY <1>1, <3>1, <4>1 DEF Of, Member
      <4> QED BY <4>2
    <3> QED BY <3>2, <3>3
  <2> HIDE DEF A, B
  <2> QED BY <2>1, <2>2, <2>3
<1>6. IsFiniteSet(M) BY <1>4, FreeSlotsFinite, FS_Subset
<1>7. IsFiniteSet(B) /\ Cardinality(B) = Cardinality(M)
  <2>1. f \in [M -> B] /\ (\A x, y \in M : f[x] = f[y] => x = y) /\ \A b \in B : \E x \in M : f[x] = b
    <3> HIDE DEF M
    <3> QED OBVIOUS
  <2> HIDE DEF f, M, B
  <2> QED BY <1>6, <2>1, Matched
<1> HIDE DEF A, B, M
<1>8. Cardinality(Of(hs, r)) = Cardinality(A) + Cardinality(M) BY <1>3, <1>5, <1>7, DisjointCount
<1>9. Cardinality(M) \in Nat BY <1>6, FS_CardinalityType
<1> QED BY <1>3, <1>8, <1>9 DEF A, M, hs

\* A copy between two slots, and of whole slots, of a pool.
LEMMA CopyFits ==
    ASSUME NEW pool \in PoolFn, NEW src \in Pool, NEW dst \in Pool, NEW n \in Nat
    PROVE  /\ Copy(pool, src, dst, n) \in PoolFn
           /\ \A s \in Pool \ {dst} : Copy(pool, src, dst, n)[s] = pool[s]
           /\ n <= Len(pool[src]) => Copy(pool, src, dst, n)[dst] = SubSeq(pool[src], 1, n)
<1>1. PICK q \in Seq(CellSet) : q = pool[src] BY DEF PoolFn
<1>2. PICK m \in Nat : m = Min({n, Len(q)}) /\ m <= Len(q) /\ (n <= Len(q) => m = n)
  <2>1. PICK k \in Nat : k = Len(q) OBVIOUS
  <2> QED BY <2>1, MinOfTwo
<1>3. SubSeq(q, 1, m) \in Seq(CellSet)
  <2>1. m \in 0 .. Len(q) BY <1>2
  <2> QED BY <2>1
<1>4. Copy(pool, src, dst, n) = [pool EXCEPT ![dst] = SubSeq(q, 1, m)] BY <1>1, <1>2 DEF Copy
<1> QED BY <1>1, <1>2, <1>3, <1>4 DEF PoolFn

\* Copies of whole slots give a pool.
LEMMA CopyAllFits ==
    ASSUME NEW pool \in PoolFn, NEW pairs, \A c \in pairs : c[1] \in Pool
    PROVE  CopyAll(pool, pairs) \in PoolFn
<1>1. \A s \in Pool : (\E c \in pairs : c[2] = s) => (CHOOSE c \in pairs : c[2] = s) \in pairs
  OBVIOUS
<1>2. \A s \in Pool : pool[s] \in Seq(CellSet) BY DEF PoolFn
<1>3. \A s \in Pool : (IF \E c \in pairs : c[2] = s
                       THEN pool[(CHOOSE c \in pairs : c[2] = s)[1]] ELSE pool[s]) \in Seq(CellSet)
  BY <1>1, <1>2
<1> QED BY <1>3 DEF CopyAll, PoolFn

\* Slots that are cleared give a pool.
LEMMA ClearFits ==
    ASSUME NEW pool \in PoolFn, NEW ss PROVE Clear(pool, ss) \in PoolFn
<1>1. <<>> \in Seq(CellSet) OBVIOUS
<1> QED BY <1>1 DEF Clear, PoolFn

-----------------------------------------------------------------------------
(* Handing over and making ready.                                           *)

\* The groups after the hand-over have the same members.
LEMMA HandedOverFits ==
    ASSUME GroupTypes
    PROVE  /\ HandedOver \in Seq(Groups) /\ DOMAIN HandedOver = DOMAIN groups
           /\ \A g \in DOMAIN groups : HandedOver[g].ms = groups[g].ms
           /\ SameSeats(groups, HandedOver)
<1> DEFINE hs == HandedOver
           to(g) == Min(Staying(groups[g], cancelled))
<1>1. groups \in Seq(Groups) /\ DOMAIN groups = 1 .. Len(groups) /\ Len(groups) \in Nat
  BY DEF GroupTypes
<1>2. hs = [g \in DOMAIN groups |->
              IF Inherits(groups[g]) THEN [groups[g] EXCEPT !.leader = to(g)] ELSE groups[g]]
  BY DEF HandedOver
<1>3. ASSUME NEW g \in DOMAIN groups PROVE hs[g] \in Groups /\ hs[g].ms = groups[g].ms
  <2> DEFINE x == groups[g]
  <2>1. x \in Groups BY <1>1
  <2>2. CASE ~Inherits(x) BY <1>2, <2>1, <2>2
  <2>3. CASE Inherits(x)
    <3> DEFINE S == Staying(x, cancelled)
               h == [x EXCEPT !.leader = to(g)]
    <3>1. /\ x \in GroupSet /\ GroupFits(x) /\ DOMAIN x.ms = 1 .. Len(x.ms) /\ Len(x.ms) \in 1 .. Slots
          /\ On(x) \subseteq DOMAIN x.ms BY <2>1, GroupParts
    <3>2. S \in SUBSET (0 .. Len(x.ms)) /\ S # {} /\ S \subseteq DOMAIN x.ms
      BY <2>3, <3>1 DEF Inherits, Staying
    <3>3. Min(S) \in S
      <4> HIDE DEF S
      <4>1. Len(x.ms) \in Nat BY <3>1, Constants
      <4>2. IsFiniteSet(S) /\ S \in SUBSET Int BY <3>2, <4>1, BoundedFinite
      <4> QED BY <3>2, <4>2, MinFits
    <3>4. to(g) \in DOMAIN x.ms /\ to(g) \in Nat BY <3>1, <3>2, <3>3
    <3> HIDE DEF to
    <3>5. h \in GroupSet /\ h.ms = x.ms /\ h.leader = to(g) /\ h.hit = x.hit /\ h.pos = x.pos /\ h.phase = x.phase
      BY <3>1, <3>4 DEF GroupSet
    <3>6. x.pos <= Len(PromptOf(x)) + Slots /\ (x.phase = "prefill" => x.pos <= PrefixEnd(x))
          /\ \A i \in DOMAIN x.ms : x.ms[i].gen <= Budget[x.ms[i].req]
      BY <3>1 DEF GroupFits, PosFits
    <3> HIDE DEF h, x
    <3>7. h \in Groups BY <2>1, <3>4, <3>5, <3>6, Edited
    <3>8. hs[g] = h BY <1>2, <2>3 DEF h, x
    <3> QED BY <3>5, <3>7, <3>8 DEF x
  <2> QED BY <2>2, <2>3
<1>4. hs \in Seq(Groups) /\ DOMAIN hs = DOMAIN groups
  <2>1. DOMAIN hs = DOMAIN groups BY <1>2
  <2>2. hs = [g \in 1 .. Len(groups) |-> hs[g]] BY <1>1, <1>2
  <2> HIDE DEF hs
  <2>3. \A g \in 1 .. Len(groups) : hs[g] \in Groups BY <1>1, <1>3
  <2> QED BY <1>1, <2>1, <2>2, <2>3
<1>5. SameSeats(groups, hs)
  <2> HIDE DEF hs
  <2> QED BY <1>3, <1>4 DEF SameSeats, On
<1> QED BY <1>3, <1>4, <1>5

\* The pool after the hand-over is one.
LEMMA HandOverFits ==
    ASSUME GroupTypes, kv \in PoolFn
    PROVE  HandOver \in PoolFn
<1> DEFINE copied(g) == <<groups[g].ms[groups[g].leader].slot, HandedOver[g].ms[HandedOver[g].leader].slot>>
           pairs == {copied(g) : g \in {g \in DOMAIN groups : Inherits(groups[g]) /\ groups[g].pos > 0}}
<1>1. \A g \in DOMAIN groups : groups[g] \in Groups BY DEF GroupTypes
<1>2. \A g \in DOMAIN groups : groups[g].ms[groups[g].leader].slot \in Pool BY <1>1, GroupParts
<1>3. \A c \in pairs : c[1] \in Pool BY <1>2
<1>4. HandOver = CopyAll(kv, pairs) BY DEF HandOver
<1> HIDE DEF pairs
<1> QED BY <1>3, <1>4, CopyAllFits

\* A group that is moved on to its next phase.
LEMMA AdvancedFits ==
    ASSUME NEW x \in Groups
    PROVE  Advanced(x) \in Groups /\ Advanced(x).ms = x.ms /\ PromptOf(Advanced(x)) = PromptOf(x)
           /\ PrefixEnd(Advanced(x)) = PrefixEnd(x) /\ Advanced(x).leader = x.leader
           /\ Advanced(x).hit = x.hit
<1> DEFINE h == Advanced(x)
<1>1. /\ x \in GroupSet /\ GroupFits(x) /\ x.leader \in DOMAIN x.ms /\ x.pos \in Nat
      /\ Len(PromptOf(x)) \in Nat /\ Len(PromptOf(x)) > 0 BY GroupParts
<1>2. x.pos <= Len(PromptOf(x)) + Slots /\ (x.phase = "prefill" => x.pos <= PrefixEnd(x))
      /\ \A i \in DOMAIN x.ms : x.ms[i].gen <= Budget[x.ms[i].req] BY <1>1 DEF GroupFits, PosFits
<1>3. h = [x EXCEPT !.phase = "terminal", !.pos = 1] \/ h = [x EXCEPT !.phase = "decode"] \/ h = x
  BY DEF Advanced
<1>4. h \in GroupSet /\ h.ms = x.ms /\ h.leader = x.leader /\ h.hit = x.hit
      /\ (h.pos = x.pos \/ h.pos = 1) /\ (h.phase = "prefill" => h.pos = x.pos /\ x.phase = "prefill")
  <2>1. CASE h = [x EXCEPT !.phase = "terminal", !.pos = 1]
    <3>1. "terminal" \in Phases /\ 1 \in Nat BY DEF Phases
    <3>2. h \in GroupSet
      <4> HIDE DEF h
      <4> QED BY <1>1, <2>1, <3>1 DEF GroupSet
    <3>3. h.phase = "terminal" /\ h.pos = 1 /\ h.ms = x.ms /\ h.leader = x.leader /\ h.hit = x.hit
      <4> HIDE DEF h
      <4> QED BY <1>1, <2>1 DEF GroupSet
    <3> QED BY <3>2, <3>3
  <2>2. CASE h = [x EXCEPT !.phase = "decode"] BY <1>1, <2>2 DEF GroupSet, Phases
  <2>3. CASE h = x BY <1>1, <2>3
  <2> QED BY <1>3, <2>1, <2>2, <2>3
<1> HIDE DEF h
<1>5. h.pos <= Len(PromptOf(x)) + Slots
  <2>1. CASE h.pos = x.pos BY <1>2, <2>1
  <2>2. CASE h.pos = 1 BY <1>1, <2>2, Constants
  <2> QED BY <1>4, <2>1, <2>2
<1>6. h.phase = "prefill" => h.pos <= PrefixEnd(x) BY <1>2, <1>4
<1>7. h \in Groups /\ PromptOf(h) = PromptOf(x) /\ PrefixEnd(h) = PrefixEnd(x)
  BY <1>1, <1>2, <1>4, <1>5, <1>6, Edited
<1> QED BY <1>4, <1>7 DEF h

\* The groups made ready for a step have the same members.
LEMMA ReadyFits ==
    ASSUME GroupTypes
    PROVE  /\ Ready \in Seq(Groups) /\ DOMAIN Ready = DOMAIN groups
           /\ \A g \in DOMAIN groups : /\ Ready[g] = Advanced(groups[g]) /\ Ready[g].ms = groups[g].ms
                                       /\ On(Ready[g]) = On(groups[g]) /\ On(Ready[g]) # {}
                                       /\ PromptOf(Ready[g]) = PromptOf(groups[g])
           /\ SameSeats(groups, Ready)
<1>1. groups \in Seq(Groups) /\ DOMAIN groups = 1 .. Len(groups) /\ Len(groups) \in Nat
      /\ \A g \in DOMAIN groups : groups[g] \in Groups /\ On(groups[g]) # {}
  BY DEF GroupTypes, Alive
<1>2. Ready = [g \in DOMAIN groups |-> Advanced(groups[g])] BY DEF Ready
<1>3. \A g \in DOMAIN groups : /\ Ready[g] = Advanced(groups[g]) /\ Ready[g] \in Groups
                               /\ Ready[g].ms = groups[g].ms /\ PromptOf(Ready[g]) = PromptOf(groups[g])
  BY <1>1, <1>2, AdvancedFits
<1>4. \A g \in DOMAIN groups : On(Ready[g]) = On(groups[g]) /\ On(Ready[g]) # {}
  BY <1>1, <1>3 DEF On
<1>5. Ready \in Seq(Groups) /\ DOMAIN Ready = DOMAIN groups BY <1>1, <1>2, <1>3
<1>6. SameSeats(groups, Ready) BY <1>3, <1>4, <1>5 DEF SameSeats
<1> QED BY <1>3, <1>4, <1>5, <1>6

\* The pool made ready for a step is one.
LEMMA ReadyPoolFits ==
    ASSUME GroupTypes, kv \in PoolFn
    PROVE  ReadyPool \in PoolFn
<1> DEFINE copied(p) == <<groups[p[1]].ms[groups[p[1]].leader].slot, Member(groups, p).slot>>
           pairs == {copied(p) : p \in {p \in Members : Prefilled(groups[p[1]])}}
<1>1. \A g \in DOMAIN groups : groups[g] \in Groups BY DEF GroupTypes
<1>2. \A g \in DOMAIN groups : groups[g].ms[groups[g].leader].slot \in Pool BY <1>1, GroupParts
<1>3. \A p \in Members : p[1] \in DOMAIN groups BY DEF Members
<1>4. \A c \in pairs : c[1] \in Pool BY <1>2, <1>3
<1>5. ReadyPool = CopyAll(kv, pairs) BY DEF ReadyPool
<1> HIDE DEF pairs
<1> QED BY <1>4, <1>5, CopyAllFits

-----------------------------------------------------------------------------
(* The tokens of a step.                                                    *)

\* What a group has to feed: places of its prompt that are left, or members.
LEMMA WantsFits ==
    ASSUME NEW g \in Groups, On(g) # {}
    PROVE  /\ IsFiniteSet(Wants(g))
           /\ \A k \in Wants(g) :
                /\ k \in Nat /\ k >= g.pos
                /\ g.phase = "prefill" => k \in 1 .. Len(PromptOf(g)) /\ k <= PrefixEnd(g)
                /\ g.phase = "prefill" /\ k = Len(PromptOf(g)) => g.leader \in On(g)
                /\ g.phase # "prefill" => g.phase = "terminal" /\ k \in On(g)
<1>1. /\ On(g) \subseteq DOMAIN g.ms /\ DOMAIN g.ms = 1 .. Len(g.ms) /\ Len(g.ms) \in 1 .. Slots
      /\ g.pos \in Nat /\ PrefixEnd(g) \in Nat /\ PrefixEnd(g) <= Len(PromptOf(g))
      /\ Len(PromptOf(g)) \in Nat /\ g.leader \in DOMAIN g.ms
      /\ PrefixEnd(g) = Len(PromptOf(g)) <=> Len(g.ms) = 1 BY GroupParts
<1>2. CASE g.phase = "prefill"
  <2>1. Wants(g) = g.pos + 1 .. PrefixEnd(g) BY <1>2 DEF Wants
  <2>2. IsFiniteSet(Wants(g))
    <3>1. g.pos + 1 \in Int /\ PrefixEnd(g) \in Int BY <1>1
    <3> QED BY <2>1, <3>1, FS_Interval
  <2>3. ASSUME PrefixEnd(g) >= Len(PromptOf(g)) PROVE g.leader \in On(g)
    <3>1. Len(g.ms) = 1 BY <1>1, <2>3
    <3>2. DOMAIN g.ms = {1} BY <1>1, <3>1
    <3> QED BY <1>1, <3>2
  <2>4. \A k \in Wants(g) : k \in Int /\ k >= g.pos + 1 /\ k <= PrefixEnd(g) BY <1>1, <2>1
  <2> QED BY <1>1, <1>2, <2>2, <2>3, <2>4
<1>3. CASE g.phase = "terminal"
  <2>1. Wants(g) = {i \in On(g) : i >= g.pos} BY <1>3 DEF Wants
  <2>2. IsFiniteSet(1 .. Len(g.ms)) /\ \A k \in On(g) : k \in Nat
    <3>1. Len(g.ms) \in Int BY <1>1
    <3>2. IsFiniteSet(1 .. Len(g.ms)) BY <3>1, FS_Interval
    <3>3. \A k \in On(g) : k \in Nat BY <1>1
    <3> QED BY <3>2, <3>3
  <2>3. Wants(g) \in SUBSET (1 .. Len(g.ms)) BY <1>1, <2>1
  <2>4. IsFiniteSet(Wants(g)) BY <2>2, <2>3, FS_Subset, Zenon
  <2> QED BY <1>3, <2>1, <2>2, <2>4
<1>4. CASE g.phase # "prefill" /\ g.phase # "terminal"
  <2>1. Wants(g) = {} BY <1>4 DEF Wants
  <2> QED BY <2>1, FS_EmptySet
<1> QED BY <1>2, <1>3, <1>4

\* What all groups want is finitely many places, and so is what they get.
LEMMA WantedFits ==
    ASSUME NEW gs \in Seq(Groups), \A g \in DOMAIN gs : On(gs[g]) # {}
    PROVE  /\ IsFiniteSet(Wanted(gs)) /\ Wanted(gs) \in SUBSET (Int \X Int)
           /\ \A p \in Wanted(gs) : p[1] \in DOMAIN gs /\ p[2] \in Wants(gs[p[1]])
           /\ \A g \in DOMAIN gs : \A k \in Wants(gs[g]) : <<g, k>> \in Wanted(gs)
           /\ IsFiniteSet(Taken(gs)) /\ Taken(gs) \in SUBSET (Int \X Int)
           /\ Taken(gs) \in SUBSET Wanted(gs)
<1> DEFINE rows(g) == {g} \X Wants(gs[g])
           row == [g \in DOMAIN gs |-> rows(g)]
           T == {rows(g) : g \in DOMAIN gs}
<1>1. /\ DOMAIN gs = 1 .. Len(gs) /\ Len(gs) \in Nat
      /\ \A g \in DOMAIN gs : gs[g] \in Groups /\ On(gs[g]) # {} OBVIOUS
<1>2. \A g \in DOMAIN gs : IsFiniteSet(Wants(gs[g])) /\ Wants(gs[g]) \subseteq Nat
  BY <1>1, WantsFits
<1>3. \A g \in DOMAIN gs : IsFiniteSet(rows(g))
  <2> TAKE g \in DOMAIN gs
  <2>1. IsFiniteSet({g}) BY FS_Singleton
  <2> QED BY <1>2, <2>1, FS_Product
<1>4. IsFiniteSet(T)
  <2>1. IsFiniteSet(DOMAIN gs) BY <1>1, FS_Interval
  <2>2. row \in Surjection(DOMAIN gs, T) BY DEF Surjection
  <2> QED BY <2>1, <2>2, FS_Surjection, Zenon
<1>5. \A U \in T : IsFiniteSet(U) BY <1>3
<1>6. Wanted(gs) = UNION T BY DEF Wanted
<1>7. IsFiniteSet(Wanted(gs))
  <2> HIDE DEF T
  <2> QED BY <1>4, <1>5, <1>6, FS_UNION, Zenon
<1>8. \A p \in Wanted(gs) : p \in Int \X Int /\ p[1] \in DOMAIN gs /\ p[2] \in Wants(gs[p[1]])
  <2> TAKE p \in Wanted(gs)
  <2>1. PICK g \in DOMAIN gs : p \in {g} \X Wants(gs[g]) BY <1>6
  <2>2. g \in Int /\ Wants(gs[g]) \subseteq Int BY <1>1, <1>2
  <2> QED BY <2>1, <2>2
<1>9. \A g \in DOMAIN gs : \A k \in Wants(gs[g]) : <<g, k>> \in Wanted(gs)
  <2> TAKE g \in DOMAIN gs
  <2> TAKE k \in Wants(gs[g])
  <2>1. <<g, k>> \in rows(g) /\ rows(g) \in T OBVIOUS
  <2> QED BY <1>6, <2>1
<1>10. Taken(gs) \in SUBSET Wanted(gs) BY DEF Taken
<1>11. IsFiniteSet(Taken(gs)) BY <1>7, <1>10, FS_Subset, Zenon
<1> QED BY <1>7, <1>8, <1>9, <1>10, <1>11

FeedSet == [of : Int \X Int, slot : Pool, pos : Int, tok : Int, sample : BOOLEAN]
\* A member that samples is live.
FeedFits(gs, f) == f \in FeedSet /\ (f.sample => f.of \in InGroups(gs))
Feeds(gs) == {f \in FeedSet : FeedFits(gs, f)}

\* What a decoding member feeds.
LEMMA FeedDecodeFits ==
    ASSUME NEW gs \in Seq(Groups), NEW p \in Decodes(gs)
    PROVE  FeedDecode(gs, p) \in Feeds(gs)
<1>1. /\ p \in (DOMAIN gs) \X Pool /\ p[1] \in DOMAIN gs /\ p[2] \in Pool /\ p[2] \in On(gs[p[1]])
      /\ gs[p[1]] \in Groups BY DEF Decodes
<1>2. /\ Member(gs, p) \in MemberSet /\ Member(gs, p).slot \in Pool /\ Member(gs, p).gen \in Nat
      /\ Len(PromptOf(gs[p[1]])) \in Nat BY <1>1, GroupParts DEF Member
<1>3. p \in InGroups(gs) /\ p \in Int \X Int BY <1>1 DEF InGroups, Pool
<1> DEFINE f == FeedDecode(gs, p)
           n == Len(PromptOf(gs[p[1]])) + Member(gs, p).gen - 1
<1>4. f = [of |-> p, slot |-> Member(gs, p).slot, pos |-> n, tok |-> Word, sample |-> TRUE]
  BY DEF FeedDecode, Feed
<1>5. n \in Int /\ Word \in Int BY <1>2, Constants
<1> HIDE DEF n
<1>6. f \in FeedSet /\ f.of = p BY <1>2, <1>3, <1>4, <1>5 DEF FeedSet
<1> QED BY <1>3, <1>6 DEF FeedFits, Feeds

\* What a place of a prompt feeds.
LEMMA FeedPromptFits ==
    ASSUME NEW gs \in Seq(Groups), \A g \in DOMAIN gs : On(gs[g]) # {}, NEW p \in Wanted(gs)
    PROVE  FeedPrompt(gs, p) \in Feeds(gs)
<1> DEFINE g == gs[p[1]]
           f == FeedPrompt(gs, p)
           n == Len(PromptOf(g))
<1>1. p \in Int \X Int /\ p[1] \in DOMAIN gs /\ g \in Groups /\ On(g) # {} /\ p[2] \in Wants(g) /\ p[2] \in Int
  BY WantedFits
<1>2. /\ \A i \in DOMAIN g.ms : g.ms[i].slot \in Pool
      /\ On(g) \subseteq DOMAIN g.ms /\ DOMAIN g.ms \subseteq Pool /\ g.leader \in DOMAIN g.ms
      /\ PromptOf(g) \in Seq(Int) /\ n \in Nat /\ n > 0 BY <1>1, GroupParts
<1>3. /\ g.phase = "prefill" => p[2] \in 1 .. n /\ (p[2] = n => g.leader \in On(g))
      /\ g.phase # "prefill" => p[2] \in On(g) BY <1>1, WantsFits
<1>4. p[1] \in Int /\ \A i \in Pool : i \in Int BY <1>1 DEF Pool
<1>5. CASE g.phase = "prefill"
  <2> DEFINE q == <<p[1], g.leader>>
  <2>1. f = [of |-> q, slot |-> g.ms[g.leader].slot, pos |-> p[2] - 1,
             tok |-> PromptOf(g)[p[2]], sample |-> (p[2] = n)] BY <1>5 DEF FeedPrompt, Feed, Member
  <2>2. PromptOf(g)[p[2]] \in Int /\ p[2] - 1 \in Int BY <1>1, <1>2, <1>3, <1>5
  <2>3. q \in Int \X Int /\ g.ms[g.leader].slot \in Pool BY <1>2, <1>4
  <2>4. f \in FeedSet /\ f.of = q /\ (f.sample <=> p[2] = n)
    <3>1. (p[2] = n) \in BOOLEAN OBVIOUS
    <3> HIDE DEF g, q, n, f
    <3> QED BY <2>1, <2>2, <2>3, <3>1 DEF FeedSet
  <2>5. p[2] = n => q \in InGroups(gs)
    <3>1. g.leader \in Pool BY <1>2
    <3> QED BY <1>1, <1>3, <1>5, <3>1 DEF InGroups
  <2> HIDE DEF f
  <2> QED BY <2>4, <2>5 DEF Feeds, FeedFits, f
<1>6. CASE g.phase # "prefill"
  <2>1. f = [of |-> p, slot |-> g.ms[p[2]].slot, pos |-> n - 1, tok |-> PromptOf(g)[n], sample |-> TRUE]
    BY <1>6 DEF FeedPrompt, Feed, Member
  <2>2. PromptOf(g)[n] \in Int /\ n - 1 \in Int BY <1>2
  <2>3. g.ms[p[2]].slot \in Pool /\ p[2] \in Pool /\ p[2] \in On(g) BY <1>2, <1>3, <1>6
  <2>4. f \in FeedSet /\ f.of = p
    <3> HIDE DEF g, n, f
    <3> QED BY <1>1, <2>1, <2>2, <2>3 DEF FeedSet
  <2>5. p \in InGroups(gs)
    <3>1. p = <<p[1], p[2]>> BY <1>1
    <3> QED BY <1>1, <2>3, <3>1 DEF InGroups
  <2> HIDE DEF f
  <2> QED BY <2>4, <2>5 DEF Feeds, FeedFits, f
<1> QED BY <1>5, <1>6

\* A step's tokens: those of the decoding members, then those of the prompts.
LEMMA ComposeFits ==
    ASSUME NEW gs \in Seq(Groups), \A g \in DOMAIN gs : On(gs[g]) # {}
    PROVE  /\ Compose(gs) \in Seq(Feeds(gs))
           /\ Cardinality(Decodes(gs)) \in Nat /\ Cardinality(Taken(gs)) \in Nat
           /\ Len(Compose(gs)) = Cardinality(Decodes(gs)) + Cardinality(Taken(gs))
<1> DEFINE ds == InOrder(Decodes(gs))
           ts == InOrder(Taken(gs))
           a == [n \in DOMAIN ds |-> FeedDecode(gs, ds[n])]
           b == [n \in DOMAIN ts |-> FeedPrompt(gs, ts[n])]
<1>1. Decodes(gs) \in SUBSET ((DOMAIN gs) \X Pool) BY DEF Decodes
<1>2. IsFiniteSet(Decodes(gs)) /\ Decodes(gs) \in SUBSET (Int \X Int) BY <1>1, PairsFinite
<1>3. IsFiniteSet(Taken(gs)) /\ Taken(gs) \in SUBSET (Int \X Int) /\ Taken(gs) \in SUBSET Wanted(gs)
  BY WantedFits
<1>4. ds \in Seq(Decodes(gs)) /\ Len(ds) = Cardinality(Decodes(gs)) /\ Cardinality(Decodes(gs)) \in Nat
  BY <1>2, InOrderFits
<1>5. ts \in Seq(Taken(gs)) /\ Len(ts) = Cardinality(Taken(gs)) /\ Cardinality(Taken(gs)) \in Nat
  BY <1>3, InOrderFits
<1>6. Compose(gs) = a \o b BY DEF Compose
<1> HIDE DEF ds, ts
<1>7. a \in Seq(Feeds(gs)) /\ Len(a) = Len(ds)
  <2>1. \A n \in DOMAIN ds : ds[n] \in Decodes(gs) BY <1>4
  <2>2. \A n \in DOMAIN ds : FeedDecode(gs, ds[n]) \in Feeds(gs) BY <2>1, FeedDecodeFits
  <2>3. a \in [DOMAIN ds -> Feeds(gs)] BY <2>2, Zenon
  <2>4. DOMAIN ds = 1 .. Len(ds) /\ Len(ds) \in Nat BY <1>4
  <2> HIDE DEF a
  <2> QED BY <2>3, <2>4
<1>8. b \in Seq(Feeds(gs)) /\ Len(b) = Len(ts)
  <2>1. \A n \in DOMAIN ts : ts[n] \in Wanted(gs) BY <1>3, <1>5
  <2>2. \A n \in DOMAIN ts : FeedPrompt(gs, ts[n]) \in Feeds(gs) BY <2>1, FeedPromptFits
  <2>3. b \in [DOMAIN ts -> Feeds(gs)] BY <2>2, Zenon
  <2>4. DOMAIN ts = 1 .. Len(ts) /\ Len(ts) \in Nat BY <1>5
  <2> HIDE DEF b
  <2> QED BY <2>3, <2>4
<1> HIDE DEF a, b
<1>9. a \o b \in Seq(Feeds(gs)) /\ Len(a \o b) = Len(a) + Len(b) BY <1>7, <1>8, Concatenated
<1> QED BY <1>4, <1>5, <1>6, <1>7, <1>8, <1>9

\* The cells a step writes.
LEMMA WrittenFits ==
    ASSUME NEW pool \in PoolFn, NEW gs, NEW fed \in Seq(Feeds(gs)),
           Len(fed) <= Cardinality(FreeCells(pool)), adapter \in Adapters, weights \in 0 .. Updates
    PROVE  Written(pool, fed) \in PoolFn
<1> DEFINE F == FreeCells(pool)
           cell(n) == [cell |-> Nth(F, n), tok |-> <<CacheKey, fed[n].tok>>]
           cells == [n \in DOMAIN fed |-> cell(n)]
           rows(s) == {n \in DOMAIN fed : fed[n].slot = s}
<1>1. Cells \in Nat /\ F \in SUBSET (1 .. Cells) BY Constants DEF FreeCells
<1>2. DOMAIN fed = 1 .. Len(fed) /\ Len(fed) \in Nat /\ \A n \in DOMAIN fed : fed[n].tok \in Int
  <2>1. \A n \in DOMAIN fed : fed[n] \in Feeds(gs) OBVIOUS
  <2> QED BY <2>1 DEF Feeds, FeedSet
<1>3. \A n \in 1 .. Cardinality(F) : Nth(F, n) \in F
  <2> HIDE DEF F
  <2> QED BY <1>1, NthFits
<1>4. Cardinality(F) \in Nat
  <2> HIDE DEF F
  <2>1. Cardinality(F) \in 0 .. Cells BY <1>1, RankFits, Zenon
  <2> QED BY <1>1, <2>1
<1>5. \A n \in DOMAIN fed : Nth(F, n) \in 1 .. Cells
  <2> TAKE n \in DOMAIN fed
  <2>1. n \in 1 .. Cardinality(F)
    <3>1. PICK c \in Nat : c = Cardinality(F) BY <1>4
    <3> HIDE DEF F
    <3> QED BY <1>2, <3>1 DEF F
  <2> HIDE DEF F
  <2>2. Nth(F, n) \in F BY <1>3, <2>1
  <2> QED BY <1>1, <2>2
<1>6. \A n \in DOMAIN fed : cell(n) \in CellSet
  <2> TAKE n \in DOMAIN fed
  <2>1. <<CacheKey, fed[n].tok>> \in (Adapters \X (0 .. Updates)) \X Int BY <1>2 DEF CacheKey
  <2> HIDE DEF F
  <2> QED BY <1>5, <2>1 DEF CellSet
<1> HIDE DEF cell
<1>7. \A n \in DOMAIN fed : cells[n] \in CellSet BY <1>6
<1>8. Written(pool, fed) = [s \in Pool |-> pool[s] \o Kept(cells, rows(s))] BY DEF Written, cell
<1> HIDE DEF cells
<1>9. \A s \in Pool : pool[s] \o Kept(cells, rows(s)) \in Seq(CellSet)
  <2> TAKE s \in Pool
  <2>1. rows(s) \in SUBSET (1 .. Len(fed)) /\ \A n \in rows(s) : cells[n] \in CellSet BY <1>2, <1>7
  <2> HIDE DEF rows
  <2>2. Kept(cells, rows(s)) \in Seq(CellSet) BY <1>2, <2>1, KeptIn
  <2>3. pool[s] \in Seq(CellSet) BY DEF PoolFn
  <2> QED BY <2>2, <2>3, Concatenated
<1> HIDE DEF rows
<1> QED BY <1>8, <1>9, Zenon DEF PoolFn

\* How far a group has come after it was fed.
LEMMA MovedOnFits ==
    ASSUME NEW g \in Groups, On(g) # {}, NEW ks \in SUBSET Wants(g)
    PROVE  /\ MovedOn(g, ks) \in Nat /\ MovedOn(g, ks) <= Len(PromptOf(g)) + Slots
           /\ g.phase = "prefill" => MovedOn(g, ks) <= PrefixEnd(g)
<1>1. /\ g.pos \in Nat /\ Len(g.ms) \in Nat /\ Len(g.ms) <= Slots /\ DOMAIN g.ms = 1 .. Len(g.ms)
      /\ On(g) \subseteq DOMAIN g.ms /\ Len(PromptOf(g)) \in Nat /\ Len(PromptOf(g)) > 0
      /\ PrefixEnd(g) \in Nat /\ PrefixEnd(g) <= Len(PromptOf(g)) /\ Slots \in Nat
  <2>1. Len(g.ms) \in 1 .. Slots /\ Slots \in Nat BY GroupParts, Constants
  <2> QED BY <2>1, GroupParts
<1>2. g.pos <= Len(PromptOf(g)) + Slots /\ (g.phase = "prefill" => g.pos <= PrefixEnd(g))
  <2>1. GroupFits(g) BY GroupParts
  <2> QED BY <2>1 DEF GroupFits, PosFits
<1>3. IsFiniteSet(ks) /\ \A k \in ks : k \in Nat
      /\ (g.phase = "prefill" => k \in 1 .. Len(PromptOf(g)) /\ k <= PrefixEnd(g))
      /\ (g.phase # "prefill" => k \in On(g))
  <2>1. IsFiniteSet(Wants(g)) /\ \A k \in Wants(g) : k \in Nat
      /\ (g.phase = "prefill" => k \in 1 .. Len(PromptOf(g)) /\ k <= PrefixEnd(g))
      /\ (g.phase # "prefill" => k \in On(g)) BY WantsFits
  <2>2. IsFiniteSet(ks) BY <2>1, FS_Subset, Zenon
  <2> QED BY <2>1, <2>2
<1>4. CASE ks = {}
  <2>1. MovedOn(g, ks) = g.pos BY <1>4 DEF MovedOn
  <2> QED BY <1>1, <1>2, <2>1
<1>5. CASE ks # {}
  <2>1. PICK k \in ks : k = Max(ks)
    <3>1. ks \in SUBSET Int BY <1>3
    <3> QED BY <1>3, <1>5, <3>1, MaxFits
  <2>2. CASE g.phase = "prefill"
    <3>1. k \in Nat /\ k <= PrefixEnd(g) BY <1>3, <2>2
    <3>2. MovedOn(g, ks) = k + 0 BY <1>5, <2>1, <2>2 DEF MovedOn
    <3> QED BY <1>1, <3>1, <3>2
  <2>3. CASE g.phase # "prefill"
    <3>1. MovedOn(g, ks) = k + 1 BY <1>5, <2>1, <2>3 DEF MovedOn
    <3>2. k \in Nat /\ k <= Len(g.ms) BY <1>1, <1>3, <2>3
    <3> QED BY <1>1, <2>3, <3>1, <3>2
  <2> QED BY <2>2, <2>3
<1> QED BY <1>4, <1>5

\* The groups after a step.
FedTo(gs, taken, g) == {k \in Wants(gs[g]) : <<g, k>> \in taken}
Grown(gs, emitting, g, i) == IF <<g, i>> \in emitting THEN Sampled(gs[g].ms[i]) ELSE gs[g].ms[i]
\* They keep their types and their members, each with its new token.
LEMMA EmittedFits ==
    ASSUME NEW gs \in Seq(Groups), NEW emitting \in SUBSET InGroups(gs), NEW taken,
           \A g \in DOMAIN gs : Alive(gs[g])
    PROVE  LET hs == Emitted(gs, taken, emitting) IN
           /\ hs \in Seq(Groups) /\ SameSeats(gs, hs)
           /\ \A g \in DOMAIN gs :
                /\ PromptOf(hs[g]) = PromptOf(gs[g]) /\ hs[g].phase = gs[g].phase
                /\ hs[g].leader = gs[g].leader /\ hs[g].hit = gs[g].hit
                /\ DOMAIN hs[g].ms = DOMAIN gs[g].ms
                /\ hs[g].pos = MovedOn(gs[g], FedTo(gs, taken, g))
                /\ \A i \in DOMAIN gs[g].ms : hs[g].ms[i] = Grown(gs, emitting, g, i)
<1> DEFINE hs == Emitted(gs, taken, emitting)
           new(g) == [i \in DOMAIN gs[g].ms |-> Grown(gs, emitting, g, i)]
           pos(g) == MovedOn(gs[g], FedTo(gs, taken, g))
           next(g) == [gs[g] EXCEPT !.pos = pos(g), !.ms = new(g)]
<1>1. hs = [g \in DOMAIN gs |-> next(g)] BY DEF Emitted, Grown, FedTo
<1>2. gs \in [1 .. Len(gs) -> Groups] /\ DOMAIN gs = 1 .. Len(gs) /\ Len(gs) \in Nat
      /\ \A g \in DOMAIN gs : gs[g] \in Groups OBVIOUS
<1>3. ASSUME NEW g \in DOMAIN gs
      PROVE  /\ next(g) \in Groups /\ PromptOf(next(g)) = PromptOf(gs[g]) /\ next(g).phase = gs[g].phase
             /\ next(g).leader = gs[g].leader /\ next(g).hit = gs[g].hit
             /\ next(g).ms = new(g) /\ next(g).pos = pos(g) /\ DOMAIN new(g) = DOMAIN gs[g].ms
             /\ On(next(g)) = On(gs[g])
             /\ \A i \in On(gs[g]) : next(g).ms[i].req = gs[g].ms[i].req
                                     /\ next(g).ms[i].slot = gs[g].ms[i].slot
  <2> DEFINE x == gs[g]
             h == next(g)
  <2>1. x \in Groups /\ On(x) # {} /\ \A i \in On(x) : x.ms[i].gen < Budget[x.ms[i].req]
    BY <1>2 DEF Alive
  <2>2. /\ x \in GroupSet /\ GroupFits(x) /\ x.ms \in Seq(MemberSet) /\ DOMAIN x.ms = 1 .. Len(x.ms)
        /\ x.leader \in DOMAIN x.ms /\ Len(x.ms) \in Nat
        /\ \A i \in DOMAIN x.ms : x.ms[i] \in MemberSet /\ x.ms[i].gen \in Nat /\ x.ms[i].req \in Requests
    BY <2>1, GroupParts
  <2>3. \A i \in DOMAIN x.ms : x.ms[i].gen <= Budget[x.ms[i].req] BY <2>2 DEF GroupFits
  <2>4. \A i : <<g, i>> \in emitting => i \in On(x)
    <3> TAKE i
    <3> HAVE <<g, i>> \in emitting
    <3>1. <<g, i>> \in InGroups(gs) OBVIOUS
    <3> QED BY <3>1 DEF InGroups
  <2>5. \A i \in DOMAIN x.ms :
          /\ Grown(gs, emitting, g, i) \in MemberSet
          /\ Grown(gs, emitting, g, i).req = x.ms[i].req /\ Grown(gs, emitting, g, i).slot = x.ms[i].slot
          /\ Grown(gs, emitting, g, i).on = x.ms[i].on
          /\ Grown(gs, emitting, g, i).gen <= Budget[x.ms[i].req]
    <3> TAKE i \in DOMAIN x.ms
    <3> DEFINE m == x.ms[i]
    <3>1. m \in MemberSet /\ m.gen \in Nat /\ m.gen <= Budget[m.req] /\ Budget[m.req] \in Nat
      BY <2>2, <2>3, Constants
    <3>2. CASE <<g, i>> \in emitting
      <4>1. Grown(gs, emitting, g, i) = [m EXCEPT !.gen = m.gen + 1] BY <3>2 DEF Grown, Sampled
      <4>2. m.gen < Budget[m.req] BY <2>1, <2>4, <3>2
      <4>3. m.gen + 1 \in Nat /\ m.gen + 1 <= Budget[m.req] BY <3>1, <4>2
      <4> HIDE DEF m
      <4>4. /\ [m EXCEPT !.gen = m.gen + 1] \in MemberSet
            /\ [m EXCEPT !.gen = m.gen + 1].req = m.req /\ [m EXCEPT !.gen = m.gen + 1].slot = m.slot
            /\ [m EXCEPT !.gen = m.gen + 1].on = m.on /\ [m EXCEPT !.gen = m.gen + 1].gen = m.gen + 1
        <5>1. PICK n \in Nat : n = m.gen + 1 BY <4>3
        <5> QED BY <3>1, <5>1 DEF MemberSet
      <4> QED BY <4>1, <4>3, <4>4 DEF m
    <3>3. CASE <<g, i>> \notin emitting
      <4>1. Grown(gs, emitting, g, i) = m BY <3>3 DEF Grown
      <4> QED BY <3>1, <4>1
    <3> QED BY <3>2, <3>3
  <2>6. /\ new(g) \in Seq(MemberSet) /\ DOMAIN new(g) = DOMAIN x.ms /\ Len(new(g)) = Len(x.ms)
        /\ \A i \in DOMAIN x.ms : new(g)[i] = Grown(gs, emitting, g, i)
    <3>1. \A i \in DOMAIN x.ms : Grown(gs, emitting, g, i) \in MemberSet BY <2>5, Zenon
    <3>2. new(g) \in [DOMAIN x.ms -> MemberSet] BY <3>1, Zenon
    <3> QED BY <2>2, <3>2
  <2>7. /\ pos(g) \in Nat /\ pos(g) <= Len(PromptOf(x)) + Slots
        /\ x.phase = "prefill" => pos(g) <= PrefixEnd(x)
    <3>1. FedTo(gs, taken, g) \in SUBSET Wants(x) BY DEF FedTo
    <3> QED BY <2>1, <3>1, MovedOnFits
  <2> HIDE DEF new, pos
  <2>8. h \in GroupSet /\ h.ms = new(g) /\ h.leader = x.leader /\ h.hit = x.hit /\ h.pos = pos(g)
        /\ h.phase = x.phase
    <3> HIDE DEF x
    <3>1. h = [x EXCEPT !.pos = pos(g), !.ms = new(g)] BY DEF x
    <3> HIDE DEF h
    <3> QED BY <2>2, <2>6, <2>7, <3>1 DEF GroupSet
  <2> HIDE DEF h, x
  <2>9. \A i \in DOMAIN x.ms : h.ms[i].req = x.ms[i].req /\ h.ms[i].slot = x.ms[i].slot
                               /\ h.ms[i].on = x.ms[i].on /\ x.ms[i].gen <= Budget[x.ms[i].req]
                               /\ h.ms[i].gen <= Budget[x.ms[i].req] BY <2>3, <2>5, <2>6, <2>8
  <2>10. h \in Groups /\ PromptOf(h) = PromptOf(x)
    <3>1. h.pos <= Len(PromptOf(x)) + Slots /\ (h.phase = "prefill" => h.pos <= PrefixEnd(x))
      BY <2>7, <2>8
    <3>2. Len(h.ms) = Len(x.ms) /\ h.leader \in DOMAIN x.ms /\ h.hit = x.hit BY <2>2, <2>6, <2>8
    <3> QED BY <2>1, <2>8, <2>9, <3>1, <3>2, Edited
  <2>11. On(h) = On(x) /\ On(x) \subseteq DOMAIN x.ms BY <2>6, <2>8, <2>9 DEF On
  <2> QED BY <2>6, <2>8, <2>9, <2>10, <2>11 DEF h, x
<1> HIDE DEF next, pos
<1>4. DOMAIN hs = DOMAIN gs /\ \A g \in DOMAIN gs : hs[g] = next(g) BY <1>1
<1> HIDE DEF hs
<1>5. hs \in Seq(Groups)
  <2>1. hs = [g \in 1 .. Len(gs) |-> next(g)] BY <1>1, <1>2
  <2>2. \A g \in 1 .. Len(gs) : next(g) \in Groups BY <1>2, <1>3
  <2>3. hs \in [1 .. Len(gs) -> Groups] BY <2>1, <2>2, Zenon
  <2> QED BY <1>2, <2>3
<1>6. SameSeats(gs, hs)
  <2>1. \A g \in DOMAIN gs : On(hs[g]) = On(gs[g]) BY <1>3, <1>4
  <2>2. \A g \in DOMAIN gs : \A i \in On(gs[g]) :
          hs[g].ms[i].req = gs[g].ms[i].req /\ hs[g].ms[i].slot = gs[g].ms[i].slot
    <3> TAKE g \in DOMAIN gs
    <3>1. hs[g] = next(g) BY <1>4
    <3> QED BY <1>3, <3>1
  <2> QED BY <1>4, <2>1, <2>2 DEF SameSeats
<1>7. \A g \in DOMAIN gs :
        /\ PromptOf(hs[g]) = PromptOf(gs[g]) /\ hs[g].phase = gs[g].phase
        /\ hs[g].leader = gs[g].leader /\ hs[g].hit = gs[g].hit
        /\ DOMAIN hs[g].ms = DOMAIN gs[g].ms /\ hs[g].pos = pos(g)
        /\ \A i \in DOMAIN gs[g].ms : hs[g].ms[i] = Grown(gs, emitting, g, i)
  <2> TAKE g \in DOMAIN gs
  <2>1. hs[g] = next(g) BY <1>4
  <2>2. \A i \in DOMAIN gs[g].ms : new(g)[i] = Grown(gs, emitting, g, i) OBVIOUS
  <2> HIDE DEF new
  <2> QED BY <1>3, <2>1, <2>2
<1> QED BY <1>5, <1>6, <1>7 DEF hs, pos

-----------------------------------------------------------------------------
(* Placing requests.                                                        *)

Taking(rs) == {Nth(FreeSlots, i) : i \in DOMAIN PlacedMs(rs)}

\* What placing requests does to the groups, the pool and the tree.
LEMMA PlaceStep ==
    ASSUME GroupTypes, kv \in PoolFn, dormant \in Seq(NodeSet), NEW rs, Placeable(rs), Place(rs)
    PROVE  /\ groups' = Append(groups, Placed(rs)) /\ GroupTypes'
           /\ kv' \in PoolFn /\ dormant' \in Seq(NodeSet) /\ Range(dormant') = Range(dormant)
           /\ FreeSlots' = FreeSlots \ Taking(rs)
           /\ Cardinality(FreeSlots') = Cardinality(FreeSlots) - Cardinality(Seats(Range(rs)))
           /\ \A r : Cardinality(Decoding(r)')
                       = Cardinality(Decoding(r)) + (IF r \in Range(rs) THEN Copies[r] ELSE 0)
<1> DEFINE g == Placed(rs)
           ms == PlacedMs(rs)
           h == Hit(Prompt[rs[1]])
           start == [ms |-> ms, leader |-> 1, phase |-> "prefill", hit |-> h.len, pos |-> 0]
<1>1. /\ g \in Groups /\ Alive(g) /\ On(g) = DOMAIN ms
      /\ \A r : Cardinality(MembersFor(g, r)) = IF r \in Range(rs) THEN Copies[r] ELSE 0
      /\ Min({h.len, PrefixEnd(g)}) = h.len /\ h.len \in Nat BY PlacedFits
<1>2. /\ groups' = Append(groups, [start EXCEPT !.pos = Min({h.len, PrefixEnd(start)})])
      /\ kv' = IF h = Cold THEN kv ELSE Copy(kv, h.node.slot, Nth(FreeSlots, 1), h.len)
      /\ dormant' = Renewed(h.node) BY DEF Place, PlacedMs, SeatsOf
<1>3. g = [ms |-> ms, leader |-> 1, phase |-> "prefill", hit |-> h.len, pos |-> h.len]
  BY DEF Placed
<1>4. /\ ms \in Seq(MemberSet) /\ Len(ms) = Cardinality(SeatsOf(rs)) /\ Len(ms) \in 1 .. Cardinality(FreeSlots)
      /\ \A i \in DOMAIN ms : ms[i].req \in Range(rs) /\ ms[i].slot = Nth(FreeSlots, i)
  BY PlacedMembers
<1>5. h = Cold \/ (h.node \in Range(dormant) /\ h.len \in Nat)
  <2>1. rs[1] \in Requests BY DEF Placeable
  <2>2. Prompt[rs[1]] \in Seq(Int) /\ Len(Prompt[rs[1]]) > 0 /\ Len(Prompt[rs[1]]) \in Nat
    BY <2>1, Constants
  <2> QED BY <1>1, <2>2, HitFits DEF HitsNode
<1> HIDE DEF g, ms, h
<1>6. PrefixEnd(start) = PrefixEnd(g)
  <2>1. start.ms = g.ms BY <1>3
  <2> HIDE DEF start
  <2> QED BY <2>1 DEF PrefixEnd, PromptOf
<1>7. groups' = Append(groups, g)
  <2>1. Min({h.len, PrefixEnd(start)}) = h.len BY <1>1, <1>6
  <2>2. [start EXCEPT !.pos = h.len] = g BY <1>3
  <2> HIDE DEF start
  <2> QED BY <1>2, <2>1, <2>2
<1> HIDE DEF start
<1>8. /\ groups \in Seq(Groups) /\ groups' \in Seq(Groups) /\ Len(groups) \in Nat
      /\ DOMAIN groups = 1 .. Len(groups) /\ DOMAIN groups' = 1 .. Len(groups) + 1
      /\ groups'[Len(groups) + 1] = g /\ \A k \in DOMAIN groups : groups'[k] = groups[k]
  BY <1>1, <1>7 DEF GroupTypes
<1>9. GroupTypes'
  <2>1. \A k \in DOMAIN groups' : Alive(groups'[k])
    <3> TAKE k \in DOMAIN groups'
    <3>1. CASE k \in DOMAIN groups BY <1>8, <3>1 DEF GroupTypes
    <3>2. CASE k \notin DOMAIN groups
      <4>1. k = Len(groups) + 1 BY <1>8, <3>2
      <4> QED BY <1>1, <1>8, <4>1
    <3> QED BY <3>1, <3>2
  <2> QED BY <1>8, <2>1 DEF GroupTypes
<1>10. kv' \in PoolFn
  <2>1. CASE h = Cold BY <1>2, <2>1
  <2>2. CASE h # Cold
    <3>1. h.node \in Range(dormant) /\ h.len \in Nat BY <1>5, <2>2
    <3>2. h.node \in NodeSet BY <3>1, RangeFinite
    <3>3. h.node.slot \in Pool BY <3>2 DEF NodeSet
    <3>4. Nth(FreeSlots, 1) \in Pool
      <4>1. 1 \in 1 .. Cardinality(FreeSlots) BY <1>4, FreeSlotsFinite
      <4> QED BY <4>1, FreeSlotsFinite
    <3>5. kv' = Copy(kv, h.node.slot, Nth(FreeSlots, 1), h.len) BY <1>2, <2>2
    <3> QED BY <3>1, <3>3, <3>4, <3>5, CopyFits
  <2> QED BY <2>1, <2>2
<1>11. dormant' \in Seq(NodeSet) /\ Range(dormant') = Range(dormant)
  <2>1. h.node = None \/ h.node \in Range(dormant) BY <1>5 DEF Cold
  <2> QED BY <1>2, <2>1, RenewedFits
<1>12. \A r : Cardinality(Decoding(r)')
                = Cardinality(Decoding(r)) + (IF r \in Range(rs) THEN Copies[r] ELSE 0)
  <2> TAKE r
  <2>1. Decoding(r) = Of(groups, r) /\ Decoding(r)' = Of(groups', r) BY DEF Decoding, Of, Member
  <2>2. Cardinality(Of(groups', r)) = Cardinality(Of(groups, r)) + Cardinality(MembersFor(g, r))
    BY <1>1, <1>7, <1>8, AppendedCount
  <2>3. Cardinality(MembersFor(g, r)) = IF r \in Range(rs) THEN Copies[r] ELSE 0 BY <1>1
  <2> QED BY <2>1, <2>2, <2>3
<1>13. FreeSlots' = FreeSlots \ Taking(rs)
  <2>1. \A s : s \in LiveSlots(groups') <=> s \in LiveSlots(groups) \/ \E i \in On(g) : g.ms[i].slot = s
    <3>1. \A s : s \in LiveSlots(groups') <=> \E k \in DOMAIN groups' : \E i \in On(groups'[k]) : groups'[k].ms[i].slot = s
      BY DEF LiveSlots, Range
    <3>2. \A s : s \in LiveSlots(groups) <=> \E k \in DOMAIN groups : \E i \in On(groups[k]) : groups[k].ms[i].slot = s
      BY DEF LiveSlots, Range
    <3>3. \A k : k \in DOMAIN groups' <=> k \in DOMAIN groups \/ k = Len(groups) + 1 BY <1>8
    <3> QED BY <1>8, <3>1, <3>2, <3>3
  <2>2. \A s : (\E i \in On(g) : g.ms[i].slot = s) <=> s \in Taking(rs)
    <3>1. g.ms = ms /\ On(g) = DOMAIN ms BY <1>1, <1>3
    <3> QED BY <1>4, <3>1 DEF Taking, ms
  <2>3. DormantSlots' = DormantSlots BY <1>11 DEF DormantSlots
  <2> QED BY <2>1, <2>2, <2>3 DEF FreeSlots
<1>14. Cardinality(FreeSlots') = Cardinality(FreeSlots) - Cardinality(Seats(Range(rs)))
  <2> DEFINE D == DOMAIN ms
             f == [i \in D |-> Nth(FreeSlots, i)]
             T == Taking(rs)
  <2>1. D = 1 .. Len(ms) /\ Len(ms) \in Nat /\ Len(ms) <= Cardinality(FreeSlots) /\ Cardinality(FreeSlots) \in Nat
    <3>1. Cardinality(FreeSlots) \in 0 .. Slots /\ Slots \in Nat BY FreeSlotsFinite, Constants
    <3> QED BY <1>4, <3>1
  <2>2. IsFiniteSet(D) /\ Cardinality(D) = Len(ms) BY <2>1, UpTo
  <2>3. T = {Nth(FreeSlots, i) : i \in D} BY DEF Taking, ms
  <2> HIDE DEF T
  <2>4. f \in [D -> T] BY <2>3
  <2>5. \A i, j \in D : f[i] = f[j] => i = j
    <3>1. \A i \in D : i \in 1 .. Cardinality(FreeSlots) /\ f[i] = Nth(FreeSlots, i) /\ Nth(FreeSlots, i) \in FreeSlots
      <4>1. \A i \in D : i \in 1 .. Cardinality(FreeSlots)
        <5>1. PICK c \in Nat : c = Cardinality(FreeSlots) BY <2>1
        <5> QED BY <2>1, <5>1
      <4> QED BY <4>1, FreeSlotsFinite
    <3>2. \A i, j \in D : i < j => f[i] < f[j] BY <3>1, FreeSlotsFinite
    <3>3. \A i \in D : i \in Int /\ f[i] \in Int
      <4>1. \A i \in D : i \in Int BY <2>1
      <4>2. FreeSlots \subseteq Int BY DEF FreeSlots, Pool
      <4> QED BY <3>1, <4>1, <4>2
    <3> HIDE DEF f, D
    <3> QED BY <3>2, <3>3
  <2>6. \A t \in T : \E i \in D : f[i] = t BY <2>3
  <2>7. IsFiniteSet(T) /\ Cardinality(T) = Len(ms)
    <3> HIDE DEF D, f
    <3> QED BY <2>2, <2>4, <2>5, <2>6, Matched
  <2>8. T \subseteq FreeSlots
    <3>1. \A i \in D : i \in 1 .. Cardinality(FreeSlots)
      <4>1. PICK c \in Nat : c = Cardinality(FreeSlots) BY <2>1
      <4> QED BY <2>1, <4>1
    <3> QED BY <2>3, <3>1, FreeSlotsFinite
  <2>9. IsFiniteSet(FreeSlots \ T) /\ (FreeSlots \ T) \cap T = {} /\ (FreeSlots \ T) \cup T = FreeSlots
    <3>1. IsFiniteSet(FreeSlots \ T)
      <4>1. FreeSlots \ T \in SUBSET FreeSlots OBVIOUS
      <4> QED BY <4>1, FreeSlotsFinite, FS_Subset, Zenon
    <3> QED BY <2>8, <3>1
  <2>10. Cardinality(FreeSlots) = Cardinality(FreeSlots \ T) + Cardinality(T)
    BY <2>7, <2>9, DisjointCount
  <2>11. Cardinality(FreeSlots \ T) \in Nat BY <2>9, FS_CardinalityType
  <2>12. Cardinality(SeatsOf(rs)) = Cardinality(Seats(Range(rs))) BY SeatsOfFits DEF Placeable
  <2>13. Cardinality(FreeSlots') = Cardinality(FreeSlots \ T) BY <1>13 DEF T
  <2> QED BY <1>4, <2>1, <2>7, <2>10, <2>11, <2>12, <2>13
<1> QED BY <1>7, <1>9, <1>10, <1>11, <1>12, <1>13, <1>14 DEF g

-----------------------------------------------------------------------------
(* The accounts of the requests.                                            *)

Waiting(r) == IF r \in Range(queue) \cup InWave THEN Copies[r] ELSE 0
Lives(r) == Cardinality(Decoding(r))
\* Nothing of a request is anywhere before it is sent; afterwards no completion
\* of it is in two places, and none is lost unless its stream was dropped.
Account(r) ==
    /\ told[r] + Waiting(r) + Lives(r) <= Copies[r]
    /\ r \in sent \ cancelled => told[r] + Waiting(r) + Lives(r) = Copies[r]
    /\ r \notin sent => told[r] = 0 /\ Lives(r) = 0
Accounts == \A r \in Requests : Account(r)
IInv == Types /\ Accounts

\* A set of slots is finite.
LEMMA PoolPart == ASSUME NEW F \in SUBSET Pool PROVE IsFiniteSet(F) /\ Cardinality(F) \in Nat
<1>1. IsFiniteSet(Pool) BY Constants, UpTo DEF Pool
<1>2. IsFiniteSet(F) BY <1>1, FS_Subset, Zenon
<1> QED BY <1>2, FS_CardinalityType

\* The numbers an account is made of.
LEMMA Numbers ==
    ASSUME Types, NEW r \in Requests
    PROVE  /\ told[r] \in Nat /\ Waiting(r) \in Nat /\ Lives(r) \in Nat
           /\ Copies[r] \in Nat /\ Copies[r] > 0
<1>1. told[r] \in Nat /\ Copies[r] \in Nat /\ Copies[r] > 0 BY Constants DEF Types
<1>2. Waiting(r) \in Nat BY <1>1 DEF Waiting
<1>3. Lives(r) \in Nat
  <2>1. groups \in Seq(Groups) /\ Decoding(r) \in SUBSET ((DOMAIN groups) \X Pool)
    BY DEF Types, GroupTypes, Decoding
  <2> QED BY <2>1, PairsFinite DEF Lives
<1> QED BY <1>1, <1>2, <1>3

\* A step that moves no completion keeps the accounts.
LEMMA SameAccounts ==
    ASSUME Accounts, told' = told, sent' = sent, cancelled \subseteq cancelled',
           \A r \in Requests : Waiting(r)' = Waiting(r) /\ Lives(r)' = Lives(r)
    PROVE  Accounts'
<1> SUFFICES ASSUME NEW r \in Requests PROVE Account(r)' BY DEF Accounts
<1>1. Account(r) BY DEF Accounts
<1>2. Waiting(r)' = Waiting(r) /\ Lives(r)' = Lives(r) /\ told'[r] = told[r] OBVIOUS
<1>3. r \in sent' \ cancelled' => r \in sent \ cancelled OBVIOUS
<1>4. r \notin sent' => r \notin sent OBVIOUS
<1> QED BY <1>1, <1>2, <1>3, <1>4 DEF Account

\* The counts follow the queue, the wave and the groups.
LEMMA SameLives == ASSUME groups' = groups PROVE \A r : Lives(r)' = Lives(r)
BY DEF Lives, Decoding, Member, On

\* The same requests wait.
LEMMA SameWaiting ==
    ASSUME \A r \in Requests : r \in Range(queue') \cup InWave' <=> r \in Range(queue) \cup InWave
    PROVE  \A r \in Requests : Waiting(r)' = Waiting(r)
BY DEF Waiting

\* No wave: nobody is in it, and nothing is pinned.
LEMMA NoWave ==
    ASSUME WaveTypes, at \notin {"place", "wave"} \/ mode = "Continuous"
    PROVE  wave = <<>> /\ pins = {} /\ InWave = {}
<1>1. wave = <<>> /\ pins = {} BY DEF WaveTypes
<1> QED BY <1>1 DEF InWave, Range

\* Nobody takes no seat.
LEMMA NoSeats == Cardinality(Seats({})) = 0
<1>1. Seats({}) = {} BY DEF Seats
<1> QED BY <1>1, FS_EmptySet

\* After a step that leaves no wave, nothing is charged to one.
LEMMA WaveDown ==
    ASSUME wave' = <<>>, pins' = {} PROVE WaveTypes' /\ InWave' = {}
<1>1. InWave' = {} BY DEF InWave, Range
<1>2. Seats(InWave)' = Seats({}) BY <1>1 DEF Seats
<1>3. Cardinality(FreeSlots') \in Nat
  <2>1. FreeSlots' \in SUBSET Pool BY DEF FreeSlots
  <2> QED BY <2>1, PoolPart
<1>4. Cardinality(Seats(InWave))' <= Cardinality(FreeSlots)' BY <1>2, <1>3, NoSeats
<1> QED BY <1>1, <1>4 DEF WaveTypes

-----------------------------------------------------------------------------
(* The steps that touch the queue only.                                     *)

\* A request that is submitted waits.
LEMMA SubmitKeeps == ASSUME IInv, NEW r \in Requests, Submit(r) PROVE IInv'
<1>1. /\ at = "idle" /\ r \notin sent /\ Len(queue) < QueueCap
      /\ queue' = Append(queue, r) /\ sent' = sent \cup {r}
      /\ UNCHANGED <<mode, at, wave, pins, groups, kv, dormant, adapter, weights, key, cancelled, told>>
  BY DEF Submit
<1>2. Types /\ GroupTypes /\ QueueTypes /\ TreeTypes /\ WaveTypes /\ Accounts BY DEF IInv, Types
<1>3. wave = <<>> /\ pins = {} /\ InWave = {} BY <1>1, <1>2, NoWave
<1>4. WaveTypes' /\ InWave' = {} BY <1>1, <1>3, WaveDown
<1>5. GroupTypes' /\ TreeTypes'
  <2>1. GroupTypes' BY <1>1, <1>2 DEF GroupTypes, Alive, On
  <2>2. TreeTypes' BY <1>1, <1>2 DEF TreeTypes
  <2> QED BY <2>1, <2>2
<1>6. /\ queue \in Seq(Requests) /\ Differ(queue) /\ Len(queue) \in Nat /\ QueueCap \in Nat
      /\ Range(queue) \subseteq sent BY <1>2, Constants DEF QueueTypes
<1>7. /\ queue' \in Seq(Requests) /\ Len(queue') = Len(queue) + 1
      /\ DOMAIN queue' = 1 .. Len(queue) + 1 /\ DOMAIN queue = 1 .. Len(queue)
      /\ queue'[Len(queue) + 1] = r /\ \A k \in DOMAIN queue : queue'[k] = queue[k] BY <1>1, <1>6
<1>8. Range(queue') = Range(queue) \cup {r}
  <2>1. \A k : k \in DOMAIN queue' <=> k \in DOMAIN queue \/ k = Len(queue) + 1 BY <1>6, <1>7
  <2> QED BY <1>7, <2>1 DEF Range
<1>9. Differ(queue')
  <2>1. \A k \in DOMAIN queue : queue[k] # r BY <1>1, <1>6 DEF Range
  <2>2. \A k \in DOMAIN queue' : k \in DOMAIN queue \/ k = Len(queue) + 1 BY <1>6, <1>7
  <2> QED BY <1>6, <1>7, <2>1, <2>2 DEF Differ
<1>10. QueueTypes'
  <2>1. Len(queue') <= QueueCap BY <1>1, <1>6, <1>7
  <2>2. Range(queue') \cup InWave' \subseteq sent' BY <1>1, <1>4, <1>6, <1>8
  <2>3. sent' \subseteq Requests /\ cancelled' \subseteq sent' \cap Leavers
    BY <1>1, <1>2 DEF QueueTypes
  <2>4. wave' = <<>> /\ wave' \in Seq(WaveSet) BY <1>1, <1>2, <1>3 DEF QueueTypes
  <2> QED BY <1>4, <1>7, <1>9, <2>1, <2>2, <2>3, <2>4 DEF QueueTypes
<1>11. Types'
  <2>1. mode' \in Modes /\ at' \in Places /\ told' \in [Requests -> Nat] BY <1>1, <1>2 DEF Types
  <2> QED BY <1>4, <1>5, <1>10, <2>1 DEF Types
<1>12. Accounts'
  <2> SUFFICES ASSUME NEW q \in Requests PROVE Account(q)' BY DEF Accounts
  <2>1. Account(q) /\ told'[q] = told[q] /\ Lives(q)' = Lives(q)
    BY <1>1, <1>2, SameLives DEF Accounts
  <2>2. told[q] \in Nat /\ Waiting(q) \in Nat /\ Lives(q) \in Nat /\ Copies[q] \in Nat
    BY <1>2, Numbers
  <2>3. CASE q = r
    <3>1. Waiting(q)' = Copies[q] /\ q \in sent' BY <1>1, <1>8, <2>3 DEF Waiting
    <3>2. told[q] = 0 /\ Lives(q) = 0 BY <1>1, <2>1, <2>3 DEF Account
    <3> QED BY <2>1, <2>2, <3>1, <3>2 DEF Account
  <2>4. CASE q # r
    <3>1. Waiting(q)' = Waiting(q) BY <1>3, <1>4, <1>8, <2>4 DEF Waiting
    <3>2. q \in sent' <=> q \in sent BY <1>1, <2>4
    <3> QED BY <1>1, <2>1, <3>1, <3>2 DEF Account
  <2> QED BY <2>3, <2>4
<1> QED BY <1>11, <1>12 DEF IInv

\* A cancelled request that waits is dropped.
LEMMA SweepKeeps == ASSUME IInv, Sweep PROVE IInv'
<1>1. /\ at = "idle" /\ queue' = Sift(queue, Requests \ cancelled) /\ at' = "remove"
      /\ UNCHANGED <<mode, wave, pins, groups, kv, dormant, adapter, weights, key, cancelled, sent, told>>
  BY DEF Sweep
<1>2. Types /\ GroupTypes /\ QueueTypes /\ TreeTypes /\ WaveTypes /\ Accounts BY DEF IInv, Types
<1>3. wave = <<>> /\ pins = {} /\ InWave = {} BY <1>1, <1>2, NoWave
<1>4. WaveTypes' /\ InWave' = {} BY <1>1, <1>3, WaveDown
<1>5. GroupTypes' /\ TreeTypes'
  <2>1. GroupTypes' BY <1>1, <1>2 DEF GroupTypes, Alive, On
  <2>2. TreeTypes' BY <1>1, <1>2 DEF TreeTypes
  <2> QED BY <2>1, <2>2
<1>6. queue \in Seq(Requests) /\ Differ(queue) /\ Len(queue) <= QueueCap /\ Range(queue) \subseteq sent
      /\ Len(queue) \in Nat /\ QueueCap \in Nat BY <1>2, Constants DEF QueueTypes
<1>7. /\ queue' \in Seq(Requests) /\ Len(queue') \in 0 .. Len(queue) /\ Differ(queue')
      /\ Range(queue') = Range(queue) \cap (Requests \ cancelled) BY <1>1, <1>6, SiftRange
<1>8. \A q \in Requests : q \in Range(queue') <=> q \in Range(queue) /\ q \notin cancelled BY <1>7
<1>9. QueueTypes'
  <2>1. Len(queue') <= QueueCap BY <1>6, <1>7
  <2>2. Range(queue') \subseteq Range(queue) BY <1>7
  <2>3. Range(queue') \cup InWave' \subseteq sent' BY <1>1, <1>4, <1>6, <2>2
  <2>4. sent' \subseteq Requests /\ cancelled' \subseteq sent' \cap Leavers
    BY <1>1, <1>2 DEF QueueTypes
  <2>5. wave' = <<>> /\ wave' \in Seq(WaveSet) BY <1>1, <1>2, <1>3 DEF QueueTypes
  <2> QED BY <1>4, <1>7, <2>1, <2>3, <2>4, <2>5 DEF QueueTypes
<1>10. Types'
  <2>1. mode' \in Modes /\ at' \in Places /\ told' \in [Requests -> Nat]
    BY <1>1, <1>2 DEF Types, Places
  <2> QED BY <1>4, <1>5, <1>9, <2>1 DEF Types
<1>11. Accounts'
  <2> SUFFICES ASSUME NEW q \in Requests PROVE Account(q)' BY DEF Accounts
  <2>1. Account(q) /\ told'[q] = told[q] /\ Lives(q)' = Lives(q) /\ sent' = sent /\ cancelled' = cancelled
    BY <1>1, <1>2, SameLives DEF Accounts
  <2>2. told[q] \in Nat /\ Waiting(q) \in Nat /\ Lives(q) \in Nat /\ Copies[q] \in Nat
    BY <1>2, Numbers
  <2>3. CASE q \in cancelled
    <3>1. Waiting(q)' = 0 /\ q \in sent
      <4>1. q \in sent BY <1>2, <2>3 DEF QueueTypes
      <4> QED BY <1>4, <1>8, <2>3, <4>1 DEF Waiting
    <3> QED BY <2>1, <2>2, <2>3, <3>1 DEF Account
  <2>4. CASE q \notin cancelled
    <3>1. Waiting(q)' = Waiting(q) BY <1>3, <1>4, <1>8, <2>4 DEF Waiting
    <3> QED BY <2>1, <3>1 DEF Account
  <2> QED BY <2>3, <2>4
<1> QED BY <1>10, <1>11 DEF IInv

\* Steps that leave the queue, the wave, the groups and the tree alone.
LEMMA QuietKeeps ==
    ASSUME IInv, UNCHANGED <<mode, queue, wave, groups, kv, dormant, adapter, sent, told, pins>>,
           at' = at \/ (wave = <<>> /\ at' \in Places), weights' \in 0 .. Updates,
           cancelled \subseteq cancelled', cancelled' \subseteq sent \cap Leavers
    PROVE  IInv'
<1>1. Types /\ GroupTypes /\ QueueTypes /\ TreeTypes /\ WaveTypes /\ Accounts BY DEF IInv, Types
<1>2. GroupTypes' BY <1>1 DEF GroupTypes, Alive, On
<1>3. InWave' = InWave BY DEF InWave
<1>4. QueueTypes' BY <1>1, <1>3 DEF QueueTypes
<1>5. TreeTypes' BY <1>1 DEF TreeTypes
<1>6. WaveTypes'
  <2>1. FreeSlots' = FreeSlots BY DEF FreeSlots, LiveSlots, DormantSlots, On
  <2>2. Seats(InWave)' = Seats(InWave) BY <1>3 DEF Seats
  <2> QED BY <1>1, <2>1, <2>2 DEF WaveTypes
<1>7. Types'
  <2>1. mode' \in Modes /\ at' \in Places /\ told' \in [Requests -> Nat] BY <1>1 DEF Types
  <2> QED BY <1>2, <1>4, <1>5, <1>6, <2>1 DEF Types
<1>8. Accounts'
  <2>1. \A q \in Requests : Waiting(q)' = Waiting(q) BY <1>3, SameWaiting
  <2> QED BY <1>1, <2>1, SameLives, SameAccounts
<1> QED BY <1>7, <1>8 DEF IInv

\* A stream that is dropped excuses what is missing.
LEMMA CancelKeeps == ASSUME IInv, NEW r \in Requests, Cancel(r) PROVE IInv'
<1>1. Types /\ QueueTypes /\ TreeTypes BY DEF IInv, Types
<1>2. cancelled' = cancelled \cup {r} /\ r \in Leavers \cap sent BY DEF Cancel
<1>3. cancelled' \subseteq sent \cap Leavers /\ cancelled \subseteq cancelled'
  BY <1>1, <1>2 DEF QueueTypes
<1>4. weights' \in 0 .. Updates BY <1>1 DEF Cancel, TreeTypes
<1>5. UNCHANGED <<mode, queue, wave, groups, kv, dormant, adapter, sent, told, pins>> /\ at' = at
  BY DEF Cancel
<1> QED BY <1>3, <1>4, <1>5, QuietKeeps

\* New weights touch nothing.
LEMMA UpdateKeeps == ASSUME IInv, Update PROVE IInv'
<1>1. Types /\ QueueTypes /\ TreeTypes BY DEF IInv, Types
<1>2. weights' \in 0 .. Updates BY <1>1, Constants DEF Update, TreeTypes
<1>3. cancelled' \subseteq sent \cap Leavers /\ cancelled \subseteq cancelled'
  BY <1>1 DEF Update, QueueTypes
<1>4. UNCHANGED <<mode, queue, wave, groups, kv, dormant, adapter, sent, told, pins>> /\ at' = at
  BY DEF Update
<1> QED BY <1>2, <1>3, <1>4, QuietKeeps

\* A pump with nothing live.
LEMMA NoStepKeeps == ASSUME IInv, NoStep PROVE IInv'
<1>1. Types /\ QueueTypes /\ TreeTypes /\ WaveTypes BY DEF IInv, Types
<1>2. weights' \in 0 .. Updates BY <1>1 DEF NoStep, TreeTypes
<1>3. cancelled' \subseteq sent \cap Leavers /\ cancelled \subseteq cancelled'
  BY <1>1 DEF NoStep, QueueTypes
<1>4. UNCHANGED <<mode, queue, wave, groups, kv, dormant, adapter, sent, told, pins>>
      /\ at = "step" /\ at' = "idle" BY DEF NoStep
<1>5. wave = <<>> /\ at' \in Places BY <1>1, <1>4, NoWave DEF Places
<1> QED BY <1>2, <1>3, <1>4, <1>5, QuietKeeps

-----------------------------------------------------------------------------
(* Members that end.                                                        *)

\* What a member is made of.
LEMMA MemberParts ==
    ASSUME NEW gs \in Seq(Groups), NEW p \in InGroups(gs)
    PROVE  /\ p[1] \in DOMAIN gs /\ p[2] \in On(gs[p[1]]) /\ p[2] \in DOMAIN gs[p[1]].ms /\ p = <<p[1], p[2]>>
           /\ gs[p[1]] \in Groups /\ Member(gs, p) \in MemberSet
           /\ Member(gs, p).req \in Requests /\ Member(gs, p).slot \in Pool /\ Member(gs, p).gen \in Nat
           /\ Own(gs, p) \in Seq(Int)
<1>1. p \in (DOMAIN gs) \X Pool /\ p[1] \in DOMAIN gs /\ p[2] \in On(gs[p[1]]) /\ p = <<p[1], p[2]>>
  BY DEF InGroups
<1>2. gs[p[1]] \in Groups BY <1>1
<1>3. /\ p[2] \in DOMAIN gs[p[1]].ms /\ Member(gs, p) \in MemberSet
      /\ Member(gs, p).req \in Requests /\ Member(gs, p).slot \in Pool /\ Member(gs, p).gen \in Nat
      /\ PromptOf(gs[p[1]]) \in Seq(Int) BY <1>1, <1>2, GroupParts DEF Member
<1>4. Own(gs, p) \in Seq(Int)
  <2>1. PICK n \in Nat : n = Member(gs, p).gen BY <1>3
  <2>2. [j \in 1 .. n |-> Word] \in Seq(Int) BY Constants
  <2>3. PromptOf(gs[p[1]]) \o [j \in 1 .. n |-> Word] \in Seq(Int) BY <1>3, <2>2, Concatenated
  <2> QED BY <2>1, <2>3 DEF Own
<1> QED BY <1>1, <1>2, <1>3, <1>4

\* The pool and the tree after members have ended.
LEMMA RetireTree ==
    ASSUME NEW gs \in Seq(Groups), NEW pool \in PoolFn, NEW ps \in Seq(InGroups(gs)),
           dormant \in Seq(NodeSet), Retire(gs, pool, ps)
    PROVE  kv' \in PoolFn /\ dormant' \in Seq(NodeSet)
<1> DEFINE kept == BecomeNodes(gs, pool, ps)
           node(p) == [path |-> Path(gs, pool, p), slot |-> Member(gs, p).slot]
           nodes == [k \in DOMAIN ps |-> node(ps[k])]
<1>1. /\ kv' = Clear(pool, {Member(gs, ps[k]).slot : k \in DOMAIN ps \ kept})
      /\ dormant' = dormant \o Kept(nodes, kept) BY DEF Retire
<1>2. kv' \in PoolFn
  <2> HIDE DEF kept
  <2> QED BY <1>1, ClearFits
<1>3. DOMAIN ps = 1 .. Len(ps) /\ Len(ps) \in Nat /\ \A k \in DOMAIN ps : ps[k] \in InGroups(gs)
  OBVIOUS
<1>4. /\ kept \in SUBSET (1 .. Len(ps))
      /\ \A k \in kept : Resident(gs, pool, ps[k]) \in MinPrefix .. Len(Own(gs, ps[k]))
  BY <1>3 DEF BecomeNodes
<1> HIDE DEF kept
<1>5. \A k \in kept : nodes[k] \in NodeSet
  <2> TAKE k \in kept
  <2> DEFINE p == ps[k]
             n == Resident(gs, pool, p)
             own == Own(gs, p)
  <2>1. p \in InGroups(gs) /\ k \in DOMAIN ps BY <1>3, <1>4
  <2>2. own \in Seq(Int) /\ Member(gs, p).slot \in Pool BY <2>1, MemberParts
  <2>3. PICK m \in Nat : m = n /\ m \in MinPrefix .. Len(own)
    <3>1. n \in MinPrefix .. Len(own) /\ Len(own) \in Nat BY <1>4, <2>2
    <3> QED BY <3>1, Constants
  <2>4. SubSeq(own, 1, m) \in Seq(Int)
    <3>1. m <= Len(own) /\ m \in Nat BY <2>2, <2>3, Constants
    <3> HIDE DEF own
    <3> QED BY <2>2, <3>1
  <2>5. Path(gs, pool, p) \in Seq(Int) BY <2>3, <2>4 DEF Path
  <2>6. nodes[k] = [path |-> Path(gs, pool, p), slot |-> Member(gs, p).slot] BY <2>1
  <2> QED BY <2>2, <2>5, <2>6 DEF NodeSet
<1> HIDE DEF nodes
<1>6. Kept(nodes, kept) \in Seq(NodeSet) BY <1>3, <1>4, <1>5, KeptIn
<1> QED BY <1>1, <1>2, <1>6, Concatenated

\* The completions of a request, in groups that differ only as SameSeats allows.
LEMMA DecodingIsOf == \A r : Decoding(r) = Of(groups, r)
BY DEF Decoding, Of, Member

\* The live completions of cancelled requests end untold.
LEMMA RemoveCancelledKeeps == ASSUME IInv, RemoveCancelled PROVE IInv'
<1>1. Types /\ GroupTypes /\ QueueTypes /\ TreeTypes /\ WaveTypes /\ Accounts BY DEF IInv, Types
<1>2. PICK late \in IF Torn THEN SUBSET ((Leavers \cap sent) \ cancelled) ELSE {{}} :
        /\ cancelled' = cancelled \cup late
        /\ Retire(HandedOver, HandOver,
                  InOrder({p \in Members : Member(groups, p).req \in cancelled \cup late}))
  BY DEF RemoveCancelled
<1>3. /\ at = "remove" /\ at' \in Places
      /\ UNCHANGED <<mode, queue, wave, pins, adapter, weights, key, sent, told>>
  BY DEF RemoveCancelled, Places
<1> DEFINE Q == {p \in Members : Member(groups, p).req \in cancelled'}
           ps == InOrder(Q)
<1>4. Retire(HandedOver, HandOver, ps) /\ late \subseteq Leavers \cap sent BY <1>2
<1>5. wave = <<>> /\ pins = {} /\ InWave = {} BY <1>1, <1>3, NoWave
<1>6. WaveTypes' /\ InWave' = {} BY <1>3, <1>5, WaveDown
<1>7. /\ HandedOver \in Seq(Groups) /\ DOMAIN HandedOver = DOMAIN groups
      /\ \A g \in DOMAIN groups : HandedOver[g].ms = groups[g].ms
      /\ SameSeats(groups, HandedOver) BY <1>1, HandedOverFits
<1>8. HandOver \in PoolFn BY <1>1, HandOverFits DEF TreeTypes
<1>9. groups \in Seq(Groups) /\ InGroups(HandedOver) = InGroups(groups)
      /\ \A r : Of(HandedOver, r) = Of(groups, r) BY <1>1, <1>7, SameOf DEF GroupTypes
<1>10. Q \in SUBSET InGroups(groups) /\ Q \in SUBSET ((DOMAIN groups) \X Pool)
  BY DEF Members, InGroups
<1>11. ps \in Seq(InGroups(HandedOver)) /\ Range(ps) = Q
  <2>1. IsFiniteSet(Q) /\ Q \in SUBSET (Int \X Int)
    <3> HIDE DEF Q
    <3> QED BY <1>9, <1>10, PairsFinite
  <2> HIDE DEF Q
  <2>2. ps \in Seq(Q) /\ DOMAIN ps = 1 .. Len(ps) /\ \A p \in Q : \E k \in DOMAIN ps : ps[k] = p
    BY <2>1, InOrderFits
  <2> HIDE DEF ps
  <2>3. Range(ps) = Q BY <2>2 DEF Range
  <2> QED BY <1>9, <1>10, <2>2, <2>3
<1> HIDE DEF ps
<1>12. kv' \in PoolFn /\ dormant' \in Seq(NodeSet)
  BY <1>1, <1>4, <1>7, <1>8, <1>11, RetireTree DEF TreeTypes
<1>13. groups' = StillLive(EndIn(HandedOver, ps)) BY <1>4 DEF Retire
<1>14. \A g \in DOMAIN HandedOver : \A i \in On(HandedOver[g]) :
          HandedOver[g].ms[i].gen < Budget[HandedOver[g].ms[i].req]
  BY <1>1, <1>7 DEF GroupTypes, Alive, On
<1>15. GroupTypes' /\ \A r : Lives(r)' = Cardinality(Of(groups, r) \ Q)
  <2> HIDE DEF Q
  <2>1. GroupTypes' /\ \A r : Cardinality(Decoding(r)') = Cardinality(Of(HandedOver, r) \ Range(ps))
    BY <1>7, <1>13, <1>14, RetireGroups
  <2> QED BY <1>9, <1>11, <2>1 DEF Lives
<1>16. cancelled' \subseteq sent' \cap Leavers BY <1>1, <1>2, <1>3, <1>4 DEF QueueTypes
<1>17. QueueTypes' BY <1>1, <1>3, <1>5, <1>6, <1>16 DEF QueueTypes
<1>18. TreeTypes' BY <1>1, <1>3, <1>5, <1>12 DEF TreeTypes
<1>19. Types'
  <2>1. mode' \in Modes /\ told' \in [Requests -> Nat] BY <1>1, <1>3 DEF Types
  <2> QED BY <1>3, <1>6, <1>15, <1>17, <1>18, <2>1 DEF Types
<1>20. Accounts'
  <2> SUFFICES ASSUME NEW q \in Requests PROVE Account(q)' BY DEF Accounts
  <2>1. Account(q) /\ told'[q] = told[q] /\ sent' = sent /\ cancelled \subseteq cancelled'
    BY <1>1, <1>2, <1>3 DEF Accounts
  <2>2. told[q] \in Nat /\ Waiting(q) \in Nat /\ Lives(q) \in Nat /\ Copies[q] \in Nat
    BY <1>1, Numbers
  <2>3. Waiting(q)' = Waiting(q) BY <1>3, <1>5, <1>6 DEF Waiting
  <2>4. Of(groups, q) = Decoding(q) BY DecodingIsOf
  <2>5. CASE q \in cancelled'
    <3>1. Of(groups, q) \ Q = {}
      <4>1. \A p \in Decoding(q) : p \in Members /\ Member(groups, p).req = q
        BY DEF Decoding, Members
      <4> QED BY <2>4, <2>5, <4>1
    <3>2. Lives(q)' = 0 BY <1>15, <3>1, FS_EmptySet
    <3>3. q \in sent BY <1>16, <2>1, <2>5
    <3> QED BY <2>1, <2>2, <2>3, <2>5, <3>2, <3>3 DEF Account
  <2>6. CASE q \notin cancelled'
    <3>1. Of(groups, q) \ Q = Of(groups, q) BY <2>6 DEF Of
    <3>2. Lives(q)' = Lives(q) BY <1>15, <2>4, <3>1 DEF Lives
    <3> QED BY <2>1, <2>3, <2>6, <3>2 DEF Account
  <2> QED BY <2>5, <2>6
<1> QED BY <1>19, <1>20 DEF IInv

-----------------------------------------------------------------------------
(* The step.                                                                *)

\* A step that fails tells every live completion.
LEMMA StepFailsKeeps == ASSUME IInv, StepFails PROVE IInv'
<1>1. Types /\ GroupTypes /\ QueueTypes /\ TreeTypes /\ WaveTypes /\ Accounts BY DEF IInv, Types
<1>2. /\ at = "step" /\ at' = "idle" /\ groups' = <<>>
      /\ kv' = Clear(kv, LiveSlots(groups) \cup {f.slot : f \in Range(Fed)})
      /\ told' = [r \in Requests |-> told[r] + Cardinality(Decoding(r))]
      /\ UNCHANGED <<mode, queue, wave, pins, dormant, adapter, weights, key, cancelled, sent>>
  BY DEF StepFails
<1>3. wave = <<>> /\ pins = {} /\ InWave = {} BY <1>1, <1>2, NoWave
<1>4. WaveTypes' /\ InWave' = {} BY <1>2, <1>3, WaveDown
<1>5. GroupTypes'
  <2>1. <<>> \in Seq(Groups) /\ DOMAIN <<>> = {} OBVIOUS
  <2> QED BY <1>2, <2>1 DEF GroupTypes
<1>6. kv' \in PoolFn BY <1>1, <1>2, ClearFits DEF TreeTypes
<1>7. TreeTypes' BY <1>1, <1>2, <1>6 DEF TreeTypes
<1>8. QueueTypes' BY <1>1, <1>2, <1>3, <1>4 DEF QueueTypes
<1>9. \A r \in Requests : told'[r] = told[r] + Lives(r) /\ told'[r] \in Nat
  <2> TAKE r \in Requests
  <2>1. told'[r] = told[r] + Lives(r) BY <1>2 DEF Lives
  <2>2. told[r] \in Nat /\ Lives(r) \in Nat BY <1>1, Numbers
  <2> QED BY <2>1, <2>2
<1>10. told' \in [Requests -> Nat]
  <2>1. told' = [r \in Requests |-> told'[r]] BY <1>2
  <2> QED BY <1>9, <2>1
<1>11. Types'
  <2>1. mode' \in Modes /\ at' \in Places BY <1>1, <1>2 DEF Types, Places
  <2> QED BY <1>4, <1>5, <1>7, <1>8, <1>10, <2>1 DEF Types
<1>12. \A r : Lives(r)' = 0
  <2> TAKE r
  <2>1. Decoding(r)' = {} BY <1>2 DEF Decoding
  <2> QED BY <2>1, FS_EmptySet DEF Lives
<1>13. Accounts'
  <2> SUFFICES ASSUME NEW q \in Requests PROVE Account(q)' BY DEF Accounts
  <2>1. Account(q) /\ told'[q] = told[q] + Lives(q) /\ sent' = sent /\ cancelled' = cancelled
    BY <1>1, <1>2, <1>9 DEF Accounts
  <2>2. told[q] \in Nat /\ Waiting(q) \in Nat /\ Lives(q) \in Nat /\ Copies[q] \in Nat
    BY <1>1, Numbers
  <2>3. Waiting(q)' = Waiting(q) BY <1>2, <1>3, <1>4 DEF Waiting
  <2>4. Lives(q)' = 0 BY <1>12
  <2> QED BY <2>1, <2>2, <2>3, <2>4 DEF Account
<1> QED BY <1>11, <1>13 DEF IInv

\* A step tells those that end, except those whose stream was dropped.
LEMMA StepKeeps == ASSUME IInv, Step PROVE IInv'
<1>1. Types /\ GroupTypes /\ QueueTypes /\ TreeTypes /\ WaveTypes /\ Accounts BY DEF IInv, Types
<1> DEFINE fed == Fed
           pool == ReadyPool
           emitting == Emitting(fed)
           after == Emitted(Ready, Taken(Ready), emitting)
           spent == {p \in emitting : BudgetSpent(Member(after, p))}
<1>2. PICK stops \in SUBSET (emitting \ spent) :
        LET finish == stops \cup spent
            ends == {p \in Sampling(fed) : p \in emitting => p \in finish}
        IN  /\ Retire(after, Written(pool, fed),
                      Kept([n \in DOMAIN fed |-> fed[n].of],
                           {n \in DOMAIN fed : fed[n].sample /\ fed[n].of \in ends}))
            /\ told' = [r \in Requests |->
                 told[r] + Cardinality({p \in finish : Member(groups, p).req = r})] BY DEF Step
<1> DEFINE finish == stops \cup spent
           ends == {p \in Sampling(fed) : p \in emitting => p \in finish}
           ofs == [n \in DOMAIN fed |-> fed[n].of]
           K == {n \in DOMAIN fed : fed[n].sample /\ fed[n].of \in ends}
           ps == Kept(ofs, K)
           ended(r) == {p \in finish : Member(groups, p).req = r}
<1>3. /\ at = "step" /\ at' = "idle" /\ Accepted(pool, fed)
      /\ UNCHANGED <<mode, queue, wave, pins, adapter, weights, key, cancelled, sent>> BY DEF Step
<1>4. /\ Retire(after, Written(pool, fed), ps)
      /\ told' = [r \in Requests |-> told[r] + Cardinality(ended(r))] BY <1>2
<1>5. wave = <<>> /\ pins = {} /\ InWave = {} BY <1>1, <1>3, NoWave
<1>6. WaveTypes' /\ InWave' = {} BY <1>3, <1>5, WaveDown
<1>7. /\ Ready \in Seq(Groups) /\ DOMAIN Ready = DOMAIN groups /\ SameSeats(groups, Ready)
      /\ \A g \in DOMAIN Ready : On(Ready[g]) # {} /\ Alive(Ready[g])
      /\ groups \in Seq(Groups)
  <2>1. /\ Ready \in Seq(Groups) /\ DOMAIN Ready = DOMAIN groups /\ SameSeats(groups, Ready)
        /\ \A g \in DOMAIN groups : Ready[g].ms = groups[g].ms /\ On(Ready[g]) = On(groups[g]) /\ On(Ready[g]) # {}
    BY <1>1, ReadyFits
  <2> QED BY <1>1, <2>1 DEF GroupTypes, Alive
<1>8. InGroups(Ready) = InGroups(groups) /\ \A r : Of(Ready, r) = Of(groups, r) BY <1>7, SameOf
<1>9. fed \in Seq(Feeds(Ready)) /\ DOMAIN fed = 1 .. Len(fed) /\ Len(fed) \in Nat
      /\ \A n \in DOMAIN fed : fed[n] \in Feeds(Ready)
  <2>1. Compose(Ready) \in Seq(Feeds(Ready)) BY <1>7, ComposeFits, Zenon
  <2>2. fed \in Seq(Feeds(Ready)) BY <2>1 DEF Fed
  <2> HIDE DEF fed
  <2> QED BY <2>2
<1>10. pool \in PoolFn BY <1>1, ReadyPoolFits DEF TreeTypes
<1> HIDE DEF fed, pool
<1>11. Written(pool, fed) \in PoolFn
  BY <1>1, <1>3, <1>9, <1>10, WrittenFits DEF TreeTypes, Accepted
<1>12. Sampling(fed) \subseteq InGroups(Ready) BY <1>9 DEF Sampling, Feeds, FeedFits
<1>13. emitting \in SUBSET InGroups(Ready) /\ emitting \subseteq Sampling(fed)
       /\ \A p \in Sampling(fed) : p \in emitting <=> Member(groups, p).req \notin cancelled
  BY <1>12 DEF Emitting
<1> HIDE DEF emitting
<1>14. /\ after \in Seq(Groups) /\ SameSeats(Ready, after) /\ DOMAIN after = DOMAIN Ready
       /\ \A g \in DOMAIN Ready : /\ DOMAIN after[g].ms = DOMAIN Ready[g].ms
                                  /\ \A i \in DOMAIN Ready[g].ms : after[g].ms[i] = Grown(Ready, emitting, g, i)
  <2>1. \A g \in DOMAIN Ready : Alive(Ready[g]) BY <1>7
  <2>2. /\ after \in Seq(Groups) /\ SameSeats(Ready, after)
        /\ \A g \in DOMAIN Ready :
             /\ DOMAIN after[g].ms = DOMAIN Ready[g].ms
             /\ \A i \in DOMAIN Ready[g].ms : after[g].ms[i] = Grown(Ready, emitting, g, i)
    BY <1>7, <1>13, <2>1, EmittedFits
  <2> HIDE DEF after
  <2>3. DOMAIN after = DOMAIN Ready BY <2>2 DEF SameSeats
  <2> QED BY <2>2, <2>3
<1> HIDE DEF after
<1>15. InGroups(after) = InGroups(Ready) /\ \A r : Of(after, r) = Of(groups, r)
  BY <1>8, <1>14, SameOf
<1>16. finish \subseteq emitting /\ ends \subseteq Sampling(fed) /\ spent \subseteq emitting
  OBVIOUS
<1>17. \A p \in Sampling(fed) : p \in ends <=> (Member(groups, p).req \in cancelled \/ p \in finish)
  BY <1>13
<1>18. K \in SUBSET (1 .. Len(fed)) /\ \A n \in K : ofs[n] \in InGroups(after)
  <2>1. \A n \in K : n \in DOMAIN fed /\ fed[n].of \in ends OBVIOUS
  <2>2. ends \subseteq InGroups(after) BY <1>12, <1>15, <1>16
  <2> HIDE DEF ends
  <2> QED BY <1>9, <2>1, <2>2
<1>19. Range(ps) = ends
  <2>1. \A p \in ends : \E n \in K : ofs[n] = p
    <3> TAKE p \in ends
    <3>1. PICK n \in DOMAIN fed : fed[n].sample /\ fed[n].of = p BY <1>16 DEF Sampling
    <3> QED BY <3>1
  <2>2. \A n \in K : ofs[n] \in ends OBVIOUS
  <2> HIDE DEF K, ofs, ends
  <2>3. PICK c \in Nat : c = Cardinality(K) BY <1>9, <1>18, RankFits
  <2>4. /\ \A k \in 1 .. c : Nth(K, k) \in K
        /\ \A n \in K : Nth(K, Rank(K, n) + 1) = n /\ Rank(K, n) + 1 \in 1 .. c
    <3>1. \A k \in 1 .. c : Nth(K, k) \in K BY <1>9, <1>18, <2>3, NthFits
    <3>2. \A n \in K : Nth(K, Rank(K, n) + 1) = n BY <1>9, <1>18, <2>3, NthFits
    <3>3. \A n \in K : Rank(K, n) \in 0 .. c - 1 BY <1>9, <1>18, <2>3, RankFits
    <3> QED BY <3>1, <3>2, <3>3
  <2>5. ps = [k \in 1 .. c |-> ofs[Nth(K, k)]] BY <2>3 DEF Kept
  <2> HIDE DEF ps
  <2> QED BY <2>1, <2>2, <2>4, <2>5 DEF Range
<1>20. ps \in Seq(InGroups(after))
  <2> HIDE DEF K, ofs, ends
  <2> QED BY <1>9, <1>18, KeptIn
<1> HIDE DEF ps, K, ofs
<1>21. kv' \in PoolFn /\ dormant' \in Seq(NodeSet)
  BY <1>1, <1>4, <1>11, <1>14, <1>20, RetireTree DEF TreeTypes
<1>22. \A g \in DOMAIN after : \A i \in On(after[g]) :
         <<g, i>> \notin Range(ps) => after[g].ms[i].gen < Budget[after[g].ms[i].req]
  <2> TAKE g \in DOMAIN after
  <2> TAKE i \in On(after[g])
  <2> HAVE <<g, i>> \notin Range(ps)
  <2> DEFINE m == Ready[g].ms[i]
             p == <<g, i>>
  <2>1. g \in DOMAIN Ready /\ i \in On(Ready[g]) /\ i \in DOMAIN Ready[g].ms /\ Ready[g] \in Groups
    <3>1. g \in DOMAIN Ready /\ i \in On(Ready[g]) BY <1>14 DEF SameSeats
    <3> QED BY <1>7, <3>1 DEF On
  <2>2. m \in MemberSet /\ m.gen < Budget[m.req] /\ m.gen \in Nat /\ Budget[m.req] \in Nat
    <3>1. m \in MemberSet /\ m.gen \in Nat /\ m.req \in Requests BY <2>1, GroupParts
    <3>2. m.gen < Budget[m.req] BY <1>7, <2>1 DEF Alive
    <3> QED BY <3>1, <3>2, Constants
  <2>3. after[g].ms[i] = Grown(Ready, emitting, g, i) BY <1>14, <2>1
  <2>4. CASE p \in emitting
    <3>1. p \notin spent
      <4>1. p \in Sampling(fed) /\ p \notin ends BY <1>13, <1>19, <2>4
      <4> QED BY <1>17, <4>1
    <3>2. ~BudgetSpent(Member(after, p)) BY <2>4, <3>1
    <3>3. Member(after, p) = after[g].ms[i] BY DEF Member
    <3>4. after[g].ms[i].gen \in Nat /\ after[g].ms[i].req = m.req
      <4>1. after[g].ms[i] = [m EXCEPT !.gen = m.gen + 1] BY <2>3, <2>4 DEF Grown, Sampled
      <4>2. PICK n \in Nat : n = m.gen + 1 BY <2>2
      <4> HIDE DEF m
      <4>3. [m EXCEPT !.gen = n].gen = n /\ [m EXCEPT !.gen = n].req = m.req BY <2>2 DEF MemberSet
      <4> QED BY <4>1, <4>2, <4>3
    <3> QED BY <2>2, <3>2, <3>3, <3>4 DEF BudgetSpent
  <2>5. CASE p \notin emitting
    <3>1. after[g].ms[i] = m BY <2>3, <2>5 DEF Grown
    <3> QED BY <2>2, <3>1
  <2> QED BY <2>4, <2>5
<1>23. GroupTypes' /\ \A r : Lives(r)' = Cardinality(Decoding(r) \ ends)
  <2> HIDE DEF ends
  <2>1. groups' = StillLive(EndIn(after, ps)) BY <1>4 DEF Retire
  <2>2. GroupTypes' /\ \A r : Cardinality(Decoding(r)') = Cardinality(Of(after, r) \ Range(ps))
    BY <1>14, <1>22, <2>1, RetireGroups
  <2> QED BY <1>15, <1>19, <2>2, DecodingIsOf DEF Lives
<1>24. TreeTypes' BY <1>1, <1>3, <1>5, <1>21 DEF TreeTypes
<1>25. QueueTypes' BY <1>1, <1>3, <1>5, <1>6 DEF QueueTypes
<1>26. \A r \in Requests :
         /\ told[r] \in Nat /\ told'[r] = told[r] + Cardinality(ended(r)) /\ Cardinality(ended(r)) \in Nat
         /\ Lives(r)' \in Nat /\ Lives(r)' + Cardinality(ended(r)) <= Lives(r)
         /\ r \notin cancelled => Lives(r)' + Cardinality(ended(r)) = Lives(r)
  <2> TAKE r \in Requests
  <2> DEFINE D == Decoding(r)
  <2>1. told[r] \in Nat /\ told'[r] = told[r] + Cardinality(ended(r)) BY <1>1, <1>4, Numbers
  <2>2. IsFiniteSet(D)
    <3>1. D \in SUBSET ((DOMAIN groups) \X Pool) BY DEF Decoding
    <3> HIDE DEF D
    <3> QED BY <1>7, <3>1, PairsFinite
  <2>3. ended(r) \subseteq D
    <3>1. finish \subseteq InGroups(groups) BY <1>8, <1>13, <1>16
    <3> HIDE DEF finish
    <3> QED BY <3>1 DEF InGroups, Decoding
  <2>4. ended(r) \subseteq ends /\ (r \notin cancelled => D \cap ends \subseteq ended(r))
    <3>1. finish \subseteq ends BY <1>13, <1>16
    <3>2. \A p \in D : Member(groups, p).req = r BY DEF Decoding
    <3> HIDE DEF finish, D
    <3>3. r \notin cancelled => D \cap ends \subseteq ended(r)
      <4> SUFFICES ASSUME r \notin cancelled, NEW p \in D \cap ends PROVE p \in ended(r) OBVIOUS
      <4>1. p \in Sampling(fed) /\ Member(groups, p).req = r BY <1>16, <3>2
      <4>2. p \in finish BY <1>17, <4>1
      <4> QED BY <4>1, <4>2
    <3> QED BY <3>1, <3>3
  <2> HIDE DEF D, ended, ends
  <2>5. IsFiniteSet(ended(r)) /\ IsFiniteSet(D \ ends) /\ IsFiniteSet(D \ ended(r))
    <3>1. ended(r) \in SUBSET D /\ D \ ends \in SUBSET D /\ D \ ended(r) \in SUBSET D BY <2>3
    <3> QED BY <2>2, <3>1, FS_Subset, Zenon
  <2>6. Cardinality(ended(r)) \in Nat /\ Cardinality(D \ ends) \in Nat /\ Cardinality(D \ ended(r)) \in Nat
    BY <2>5, FS_CardinalityType
  <2>7. Cardinality(D) = Cardinality(D \ ended(r)) + Cardinality(ended(r))
    <3>1. (D \ ended(r)) \cap ended(r) = {} /\ (D \ ended(r)) \cup ended(r) = D BY <2>3
    <3> QED BY <2>5, <3>1, DisjointCount
  <2>8. Cardinality(D \ ends) <= Cardinality(D \ ended(r))
    <3>1. D \ ends \in SUBSET (D \ ended(r)) BY <2>4
    <3> QED BY <2>5, <3>1, FS_Subset, Zenon
  <2>9. r \notin cancelled => D \ ends = D \ ended(r) BY <2>4
  <2>10. Lives(r)' = Cardinality(D \ ends) /\ Lives(r) = Cardinality(D) BY <1>23 DEF Lives, D
  <2> QED BY <2>1, <2>6, <2>7, <2>8, <2>9, <2>10
<1>27. told' \in [Requests -> Nat]
  <2>1. told' = [r \in Requests |-> told'[r]] BY <1>4
  <2>2. \A r \in Requests : told'[r] \in Nat
    <3> TAKE r \in Requests
    <3>1. PICK n \in Nat : n = Cardinality(ended(r)) BY <1>26
    <3>2. told[r] \in Nat /\ told'[r] = told[r] + n BY <1>26, <3>1
    <3> QED BY <3>2
  <2> QED BY <2>1, <2>2
<1>28. Types'
  <2>1. mode' \in Modes /\ at' \in Places BY <1>1, <1>3 DEF Types, Places
  <2> QED BY <1>6, <1>23, <1>24, <1>25, <1>27, <2>1 DEF Types
<1>29. Accounts'
  <2> SUFFICES ASSUME NEW q \in Requests PROVE Account(q)' BY DEF Accounts
  <2>1. Account(q) /\ sent' = sent /\ cancelled' = cancelled BY <1>1, <1>3 DEF Accounts
  <2>2. told[q] \in Nat /\ Waiting(q) \in Nat /\ Lives(q) \in Nat /\ Copies[q] \in Nat
    BY <1>1, Numbers
  <2>3. Waiting(q)' = Waiting(q) BY <1>3, <1>5, <1>6 DEF Waiting
  <2>4. PICK n \in Nat : n = Cardinality(ended(q)) BY <1>26
  <2>5. /\ told'[q] = told[q] + n /\ Lives(q)' \in Nat /\ Lives(q)' + n <= Lives(q)
        /\ q \notin cancelled => Lives(q)' + n = Lives(q) BY <1>26, <2>4
  <2> QED BY <2>1, <2>2, <2>3, <2>5 DEF Account
<1> QED BY <1>28, <1>29 DEF IInv

-----------------------------------------------------------------------------
(* Admission.                                                               *)

\* A request that is refused is told of all its completions.
LEMMA ChooseAdapterKeeps == ASSUME IInv, ChooseAdapter PROVE IInv'
<1>1. Types /\ GroupTypes /\ QueueTypes /\ TreeTypes /\ WaveTypes /\ Accounts BY DEF IInv, Types
<1> DEFINE possible == Sift(queue, {r \in Requests : ~Impossible(r)})
           target == IF groups = <<>> /\ possible # <<>> THEN Adapter[Head(possible)] ELSE adapter
           broken == target # adapter /\ target \in Broken
           refused == {r \in Range(queue) : Impossible(r) \/ (broken /\ Adapter[r] = target)}
<1>2. /\ at = "admit" /\ queue' = Sift(queue, Requests \ refused)
      /\ told' = [r \in Requests |-> told[r] + (IF r \in refused THEN Copies[r] ELSE 0)]
      /\ adapter' = (IF broken THEN adapter ELSE target)
      /\ Refresh(<<adapter', weights>>)
      /\ at' = (IF possible = <<>> \/ broken THEN "step" ELSE "place")
      /\ UNCHANGED <<mode, wave, pins, groups, weights, cancelled, sent>>
  BY DEF ChooseAdapter, Refuse
<1>3. wave = <<>> /\ pins = {} /\ InWave = {} BY <1>1, <1>2, NoWave
<1>4. WaveTypes' /\ InWave' = {} BY <1>2, <1>3, WaveDown
<1>5. queue \in Seq(Requests) /\ Differ(queue) /\ Len(queue) <= QueueCap /\ Range(queue) \subseteq sent
      /\ Len(queue) \in Nat /\ QueueCap \in Nat /\ Range(queue) \subseteq Requests
  <2>1. queue \in Seq(Requests) /\ Differ(queue) /\ Len(queue) <= QueueCap /\ Range(queue) \subseteq sent
        /\ sent \subseteq Requests BY <1>1 DEF QueueTypes
  <2> QED BY <2>1, Constants
<1>6. adapter' \in Adapters
  <2>1. target \in Adapters
    <3>1. CASE groups = <<>> /\ possible # <<>>
      <4>1. possible \in Seq(Requests) BY <1>5, SiftRange
      <4> HIDE DEF possible
      <4>2. Head(possible) \in Requests BY <3>1, <4>1
      <4> QED BY <3>1, <4>2 DEF Adapters
    <3>2. CASE ~(groups = <<>> /\ possible # <<>>) BY <1>1, <3>2 DEF TreeTypes
    <3> QED BY <3>1, <3>2
  <2> QED BY <1>1, <1>2, <2>1 DEF TreeTypes
<1>7. refused \subseteq Range(queue) OBVIOUS
<1>8. at' \in Places BY <1>2 DEF Places
<1> HIDE DEF refused, broken, target, possible
<1>9. kv' \in PoolFn /\ dormant' \in Seq(NodeSet)
  <2>1. CASE <<adapter', weights>> = key BY <1>1, <1>2, <2>1 DEF Refresh, TreeTypes
  <2>2. CASE <<adapter', weights>> # key
    <3>1. dormant' = <<>> /\ kv' = Clear(kv, DormantSlots) BY <1>2, <2>2 DEF Refresh
    <3>2. <<>> \in Seq(NodeSet) OBVIOUS
    <3> QED BY <1>1, <3>1, <3>2, ClearFits DEF TreeTypes
  <2> QED BY <2>1, <2>2
<1>10. TreeTypes' BY <1>1, <1>2, <1>3, <1>6, <1>9 DEF TreeTypes
<1>11. GroupTypes' BY <1>1, <1>2 DEF GroupTypes, Alive, On
<1>12. /\ queue' \in Seq(Requests) /\ Len(queue') \in 0 .. Len(queue) /\ Differ(queue')
       /\ Range(queue') = Range(queue) \cap (Requests \ refused) BY <1>2, <1>5, SiftRange
<1>13. QueueTypes'
  <2>1. Len(queue') <= QueueCap BY <1>5, <1>12
  <2>2. Range(queue') \cup InWave' \subseteq sent' BY <1>2, <1>4, <1>5, <1>12
  <2>3. sent' \subseteq Requests /\ cancelled' \subseteq sent' \cap Leavers
    BY <1>1, <1>2 DEF QueueTypes
  <2>4. wave' = <<>> /\ wave' \in Seq(WaveSet) BY <1>1, <1>2, <1>3 DEF QueueTypes
  <2> QED BY <1>4, <1>12, <2>1, <2>2, <2>3, <2>4 DEF QueueTypes
<1>14. told' \in [Requests -> Nat]
  <2>1. \A r \in Requests : told[r] + (IF r \in refused THEN Copies[r] ELSE 0) \in Nat
    BY <1>1, Constants DEF Types
  <2> QED BY <1>2, <2>1
<1>15. Types'
  <2>1. mode' \in Modes BY <1>1, <1>2 DEF Types
  <2> QED BY <1>4, <1>8, <1>10, <1>11, <1>13, <1>14, <2>1 DEF Types
<1>16. Accounts'
  <2> SUFFICES ASSUME NEW q \in Requests PROVE Account(q)' BY DEF Accounts
  <2>1. Account(q) /\ Lives(q)' = Lives(q) /\ sent' = sent /\ cancelled' = cancelled
    BY <1>1, <1>2, SameLives DEF Accounts
  <2>2. told[q] \in Nat /\ Waiting(q) \in Nat /\ Lives(q) \in Nat /\ Copies[q] \in Nat
    BY <1>1, Numbers
  <2>3. told'[q] = told[q] + (IF q \in refused THEN Copies[q] ELSE 0) BY <1>2
  <2>4. CASE q \in refused
    <3>1. Waiting(q) = Copies[q] /\ Waiting(q)' = 0 /\ q \in sent
      BY <1>3, <1>4, <1>5, <1>7, <1>12, <2>4 DEF Waiting
    <3> QED BY <2>1, <2>2, <2>3, <2>4, <3>1 DEF Account
  <2>5. CASE q \notin refused
    <3>1. Waiting(q)' = Waiting(q) BY <1>3, <1>4, <1>12, <2>5 DEF Waiting
    <3>2. told'[q] = told[q] BY <2>2, <2>3, <2>5
    <3> QED BY <2>1, <3>1, <3>2 DEF Account
  <2> QED BY <2>4, <2>5
<1> QED BY <1>15, <1>16 DEF IInv

\* A wave is of finitely many requests.
LEMMA WaveFinite ==
    ASSUME QueueTypes
    PROVE  /\ IsFiniteSet(InWave) /\ InWave \subseteq Requests
           /\ IsFiniteSet(Seats(InWave)) /\ Cardinality(Seats(InWave)) \in Nat
<1> DEFINE f == [k \in DOMAIN wave |-> wave[k].req]
<1>1. wave \in Seq(WaveSet) BY DEF QueueTypes
<1>2. f \in Surjection(DOMAIN wave, InWave) BY DEF Surjection, InWave, Range
<1>3. IsFiniteSet(DOMAIN wave) BY <1>1, UpTo
<1>4. IsFiniteSet(InWave) BY <1>2, <1>3, FS_Surjection, Zenon
<1>5. InWave \subseteq Requests
  <2>1. \A k \in DOMAIN wave : wave[k] \in WaveSet BY <1>1
  <2>2. \A k \in DOMAIN wave : wave[k].req \in Requests BY <2>1 DEF WaveSet
  <2> QED BY <2>2 DEF InWave, Range
<1> QED BY <1>4, <1>5, SeatsFinite

\* The front of the candidates is a request that waits, and has its slots.
LEMMA FrontParts ==
    ASSUME Types, Candidates # <<>>
    PROVE  /\ Head(Candidates) \in Requests /\ Head(Candidates) \in Range(queue) /\ Head(Candidates) \notin InWave
           /\ Prompt[Head(Candidates)] \in Seq(Int) /\ Len(Prompt[Head(Candidates)]) > 0
           /\ FrontFits =>
                /\ Cardinality(Seats(InWave)) + Copies[Head(Candidates)] <= Cardinality(FreeSlots)
                /\ Copies[Head(Candidates)] <= Slots
<1> DEFINE r == Head(Candidates)
<1>1. queue \in Seq(Requests) /\ IsFiniteSet(InWave) /\ \A q \in InWave : q \notin Range(queue)
  <2>1. queue \in Seq(Requests) /\ wave \in Seq(WaveSet)
        /\ \A q \in InWave : q \notin Range(queue) BY DEF Types, QueueTypes
  <2>2. IsFiniteSet(InWave) BY WaveFinite DEF Types
  <2> QED BY <2>1, <2>2
<1>2. /\ Candidates \in Seq(Requests)
      /\ Range(Candidates) = Range(queue) \cap {q \in Requests : Adapter[q] = adapter}
  BY <1>1, SiftRange DEF Candidates
<1>3. r \in Requests /\ r \in Range(Candidates)
  <2> HIDE DEF Candidates
  <2>1. 1 \in DOMAIN Candidates /\ r = Candidates[1] BY <1>2
  <2> QED BY <1>2, <2>1 DEF Range
<1> HIDE DEF r
<1>4. r \in Range(queue) /\ r \notin InWave BY <1>1, <1>2, <1>3
<1>5. Prompt[r] \in Seq(Int) /\ Len(Prompt[r]) > 0 /\ Copies[r] \in Nat BY <1>3, Constants
<1>6. ASSUME FrontFits
      PROVE  Cardinality(Seats(InWave)) + Copies[r] <= Cardinality(FreeSlots) /\ Copies[r] <= Slots
  <2>1. Cardinality(Seats(InWave)) + Copies[r] <= Cardinality(FreeSlots)
    BY <1>6 DEF FrontFits, Fits, r
  <2>2. Cardinality(Seats(InWave)) \in Nat /\ Cardinality(FreeSlots) \in 0 .. Slots /\ Slots \in Nat
    BY <1>1, SeatsFinite, FreeSlotsFinite, Constants
  <2> QED BY <1>5, <2>1, <2>2
<1> QED BY <1>3, <1>4, <1>5, <1>6 DEF r

\* The front is placed where the free slots are enough for it.
LEMMA FrontPlaced ==
    ASSUME Types, AdmitFront
    PROVE  /\ Placeable(<<Head(Candidates)>>) /\ Range(<<Head(Candidates)>>) = {Head(Candidates)}
           /\ Head(Candidates) \in Requests /\ Head(Candidates) \in Range(queue)
<1> DEFINE r == Head(Candidates)
           rs == <<r>>
<1>1. mode = "Continuous" /\ FrontFits /\ WaveTypes BY DEF AdmitFront, Types
<1>2. InWave = {} BY <1>1, NoWave
<1>3. /\ r \in Requests /\ r \in Range(queue)
      /\ Cardinality(Seats(InWave)) + Copies[r] <= Cardinality(FreeSlots) /\ Copies[r] <= Slots
  BY <1>1, FrontParts DEF FrontFits, MayPlace
<1> HIDE DEF r
<1>4. Placeable(rs) /\ Range(rs) = {r}
  <2>1. rs \in Seq(Requests) /\ rs # <<>> /\ DOMAIN rs = {1} /\ rs[1] = r BY <1>3
  <2>2. Range(rs) = {r} BY <2>1 DEF Range
  <2>3. Differ(rs) BY <2>1 DEF Differ
  <2>4. Cardinality(SeatsOf(rs)) = Copies[r] BY <1>3, <2>1, <2>2, <2>3, SeatsOfFits, SeatsOfOne
  <2>5. Copies[r] <= Cardinality(FreeSlots)
    <3>1. Copies[r] \in Nat BY <1>3, Constants
    <3> QED BY <1>2, <1>3, <3>1, NoSeats
  <2> HIDE DEF rs
  <2> QED BY <1>3, <2>1, <2>2, <2>3, <2>4, <2>5 DEF Placeable
<1> QED BY <1>3, <1>4 DEF rs, r

\* A request that is admitted has its completions live.
LEMMA AdmitFrontKeeps == ASSUME IInv, AdmitFront PROVE IInv'
<1> DEFINE r == Head(Candidates)
           rs == <<r>>
<1>1. Types /\ GroupTypes /\ QueueTypes /\ TreeTypes /\ WaveTypes /\ Accounts BY DEF IInv, Types
<1>2. /\ mode = "Continuous" /\ FrontFits /\ Place(rs) /\ queue' = Without(queue, r)
      /\ UNCHANGED <<mode, at, wave, pins, adapter, weights, key, cancelled, sent, told>>
  BY DEF AdmitFront
<1>3. wave = <<>> /\ pins = {} /\ InWave = {} BY <1>1, <1>2, NoWave
<1>4. WaveTypes' /\ InWave' = {} BY <1>2, <1>3, WaveDown
<1>5. r \in Requests /\ r \in Range(queue) BY <1>1, FrontPlaced
<1>6. Placeable(rs) /\ Range(rs) = {r} BY <1>1, FrontPlaced
<1> HIDE DEF r
<1> HIDE DEF rs
<1>7. /\ GroupTypes' /\ kv' \in PoolFn /\ dormant' \in Seq(NodeSet) /\ Range(dormant') = Range(dormant)
      /\ \A q : Lives(q)' = Lives(q) + (IF q \in Range(rs) THEN Copies[q] ELSE 0)
  BY <1>1, <1>2, <1>6, PlaceStep DEF TreeTypes, Lives
<1>8. queue \in Seq(Requests) /\ Differ(queue) /\ Len(queue) <= QueueCap /\ Range(queue) \subseteq sent
      /\ Len(queue) \in Nat /\ QueueCap \in Nat BY <1>1, Constants DEF QueueTypes
<1>9. /\ queue' \in Seq(Requests) /\ Len(queue') \in 0 .. Len(queue) /\ Differ(queue')
      /\ Range(queue') = Range(queue) \ {r} BY <1>2, <1>8, WithoutRange
<1>10. QueueTypes'
  <2>1. Len(queue') <= QueueCap BY <1>8, <1>9
  <2>2. Range(queue') \cup InWave' \subseteq sent' BY <1>2, <1>4, <1>8, <1>9
  <2>3. sent' \subseteq Requests /\ cancelled' \subseteq sent' \cap Leavers
    BY <1>1, <1>2 DEF QueueTypes
  <2>4. wave' = <<>> /\ wave' \in Seq(WaveSet) BY <1>1, <1>2, <1>3 DEF QueueTypes
  <2> QED BY <1>4, <1>9, <2>1, <2>2, <2>3, <2>4 DEF QueueTypes
<1>11. TreeTypes' BY <1>1, <1>2, <1>3, <1>7 DEF TreeTypes
<1>12. Types'
  <2>1. mode' \in Modes /\ at' \in Places /\ told' \in [Requests -> Nat] BY <1>1, <1>2 DEF Types
  <2> QED BY <1>4, <1>7, <1>10, <1>11, <2>1 DEF Types
<1>13. Accounts'
  <2> SUFFICES ASSUME NEW q \in Requests PROVE Account(q)' BY DEF Accounts
  <2>1. Account(q) /\ told'[q] = told[q] /\ sent' = sent /\ cancelled' = cancelled
    BY <1>1, <1>2 DEF Accounts
  <2>2. told[q] \in Nat /\ Waiting(q) \in Nat /\ Lives(q) \in Nat /\ Copies[q] \in Nat
    BY <1>1, Numbers
  <2>3. Lives(q)' = Lives(q) + (IF q = r THEN Copies[q] ELSE 0) BY <1>6, <1>7
  <2>4. CASE q = r
    <3>1. Waiting(q) = Copies[q] /\ Waiting(q)' = 0 /\ q \in sent
      BY <1>4, <1>5, <1>8, <1>9, <2>4 DEF Waiting
    <3> QED BY <2>1, <2>2, <2>3, <2>4, <3>1 DEF Account
  <2>5. CASE q # r
    <3>1. Waiting(q)' = Waiting(q) BY <1>3, <1>4, <1>9, <2>5 DEF Waiting
    <3>2. Lives(q)' = Lives(q) BY <2>2, <2>3, <2>5
    <3> QED BY <2>1, <3>1, <3>2 DEF Account
  <2> QED BY <2>4, <2>5
<1> QED BY <1>12, <1>13 DEF IInv

\* An eviction frees a slot and touches no request.
LEMMA EvictKeeps == ASSUME IInv, Evict PROVE IInv'
<1> DEFINE d == Head(Evictable)
<1>1. Types /\ GroupTypes /\ QueueTypes /\ TreeTypes /\ WaveTypes /\ Accounts BY DEF IInv, Types
<1>2. /\ Evictable # <<>> /\ kv' = Clear(kv, {d.slot}) /\ dormant' = Without(dormant, d)
      /\ UNCHANGED <<mode, at, queue, wave, pins, groups, adapter, weights, key, cancelled, sent, told>>
  BY DEF Evict
<1>3. dormant \in Seq(NodeSet) BY <1>1 DEF TreeTypes
<1>4. d \in Range(dormant) /\ d.path \notin pins
  <2>1. /\ Evictable \in Seq(NodeSet)
        /\ Range(Evictable) = Range(dormant) \cap {e \in Range(dormant) : ~Pinned(e)}
    BY <1>3, SiftRange DEF Evictable
  <2>2. d \in Range(Evictable)
    <3> HIDE DEF Evictable
    <3>1. 1 \in DOMAIN Evictable /\ d = Evictable[1] BY <1>2, <2>1
    <3> QED BY <3>1 DEF Range
  <2> HIDE DEF d
  <2> QED BY <2>1, <2>2 DEF Pinned
<1> HIDE DEF d
<1>5. dormant' \in Seq(NodeSet) /\ Range(dormant') = Range(dormant) \ {d}
  BY <1>2, <1>3, WithoutRange
<1>6. kv' \in PoolFn BY <1>1, <1>2, ClearFits DEF TreeTypes
<1>7. pins \subseteq {e.path : e \in Range(dormant')}
  <2> SUFFICES ASSUME NEW x \in pins PROVE \E e \in Range(dormant') : x = e.path OBVIOUS
  <2>1. PICK e \in Range(dormant) : x = e.path BY <1>1 DEF TreeTypes
  <2>2. e # d BY <1>4, <2>1
  <2> QED BY <1>5, <2>1, <2>2
<1>8. TreeTypes' BY <1>1, <1>2, <1>5, <1>6, <1>7 DEF TreeTypes
<1>9. GroupTypes' BY <1>1, <1>2 DEF GroupTypes, Alive, On
<1>10. InWave' = InWave BY <1>2 DEF InWave
<1>11. QueueTypes' BY <1>1, <1>2, <1>10 DEF QueueTypes
<1>12. WaveTypes'
  <2>1. FreeSlots \in SUBSET FreeSlots' /\ FreeSlots' \in SUBSET Pool
    <3>1. DormantSlots' \subseteq DormantSlots BY <1>5 DEF DormantSlots
    <3>2. LiveSlots(groups') = LiveSlots(groups) BY <1>2
    <3> QED BY <3>1, <3>2 DEF FreeSlots
  <2>2. Cardinality(FreeSlots) \in Nat /\ Cardinality(FreeSlots') \in Nat
        /\ Cardinality(FreeSlots) <= Cardinality(FreeSlots')
    <3>1. IsFiniteSet(FreeSlots') /\ Cardinality(FreeSlots') \in Nat BY <2>1, PoolPart
    <3>2. Cardinality(FreeSlots) \in Nat BY FreeSlotsFinite, Constants
    <3>3. Cardinality(FreeSlots) <= Cardinality(FreeSlots') BY <2>1, <3>1, FS_Subset, Zenon
    <3> QED BY <3>1, <3>2, <3>3
  <2>3. Cardinality(Seats(InWave)) <= Cardinality(FreeSlots) /\ Seats(InWave)' = Seats(InWave)
    BY <1>1, <1>10 DEF WaveTypes, Seats
  <2>4. Cardinality(Seats(InWave)) \in Nat BY <1>1, WaveFinite
  <2>5. Cardinality(Seats(InWave))' <= Cardinality(FreeSlots)' BY <2>2, <2>3, <2>4
  <2> QED BY <1>1, <1>2, <2>5 DEF WaveTypes
<1>13. Types'
  <2>1. mode' \in Modes /\ at' \in Places /\ told' \in [Requests -> Nat] BY <1>1, <1>2 DEF Types
  <2> QED BY <1>8, <1>9, <1>11, <1>12, <2>1 DEF Types
<1>14. Accounts'
  <2>1. \A q \in Requests : Waiting(q)' = Waiting(q) BY <1>2, <1>10, SameWaiting
  <2>2. \A q : Lives(q)' = Lives(q) BY <1>2, SameLives
  <2> QED BY <1>1, <1>2, <2>1, <2>2, SameAccounts
<1> QED BY <1>13, <1>14 DEF IInv

\* A request that is selected waits in the wave, and finds its slots there.
LEMMA SelectFrontKeeps == ASSUME IInv, SelectFront PROVE IInv'
<1> DEFINE r == Head(Candidates)
           node == Hit(Prompt[r]).node
           w == [req |-> r, need |-> Need(r)]
<1>1. Types /\ GroupTypes /\ QueueTypes /\ TreeTypes /\ WaveTypes /\ Accounts BY DEF IInv, Types
<1>2. /\ mode = "Lockstep" /\ FrontFits /\ at = "place"
      /\ pins' = (IF node = None THEN pins ELSE pins \cup {node.path})
      /\ dormant' = Renewed(node) /\ wave' = Append(wave, w) /\ queue' = Without(queue, r)
      /\ UNCHANGED <<mode, at, groups, kv, adapter, weights, key, cancelled, sent, told>>
  BY DEF SelectFront, FrontFits, MayPlace
<1>3. /\ r \in Requests /\ r \in Range(queue) /\ r \notin InWave
      /\ Prompt[r] \in Seq(Int) /\ Len(Prompt[r]) > 0
      /\ Cardinality(Seats(InWave)) + Copies[r] <= Cardinality(FreeSlots) /\ Copies[r] <= Slots
  BY <1>1, <1>2, FrontParts DEF FrontFits, MayPlace
<1>4. w \in WaveSet
  <2>1. PICK a \in Int : a = Copies[r] BY <1>3, Constants
  <2>2. PICK b \in Int : b = Len(Prompt[r]) + Budget[r] - Hit(Prompt[r]).len
    <3>1. Len(Prompt[r]) \in Nat /\ Budget[r] \in Nat BY <1>3, Constants
    <3>2. Hit(Prompt[r]).len \in 0 .. Len(Prompt[r]) - 1 BY <1>1, <1>3, HitFits DEF TreeTypes
    <3>3. PICK c \in Int : c = Hit(Prompt[r]).len BY <3>1, <3>2
    <3> QED BY <3>1, <3>3
  <2>3. Need(r) = a * b BY <2>1, <2>2 DEF Need
  <2>4. a * b \in Int OBVIOUS
  <2> HIDE DEF r
  <2> QED BY <1>3, <2>3, <2>4 DEF WaveSet
<1>5. node = None \/ node \in Range(dormant)
  <2>1. Hit(Prompt[r]) = Cold \/ HitsNode(Prompt[r]) BY <1>1, <1>3, HitFits DEF TreeTypes
  <2> QED BY <2>1 DEF Cold, HitsNode
<1> HIDE DEF node, r, w
<1>6. dormant' \in Seq(NodeSet) /\ Range(dormant') = Range(dormant)
  BY <1>1, <1>2, <1>5, RenewedFits DEF TreeTypes
<1>7. queue \in Seq(Requests) /\ Differ(queue) /\ Len(queue) <= QueueCap /\ Range(queue) \subseteq sent
      /\ Len(queue) \in Nat /\ QueueCap \in Nat /\ sent \subseteq Requests
  BY <1>1, Constants DEF QueueTypes
<1>8. /\ queue' \in Seq(Requests) /\ Len(queue') \in 0 .. Len(queue) /\ Differ(queue')
      /\ Range(queue') = Range(queue) \ {r} BY <1>2, <1>7, WithoutRange
<1>9. /\ wave \in Seq(WaveSet) /\ Len(wave) \in Nat /\ DOMAIN wave = 1 .. Len(wave)
      /\ wave' \in Seq(WaveSet) /\ wave' # <<>>
      /\ DOMAIN wave' = 1 .. Len(wave) + 1 /\ wave'[Len(wave) + 1] = w
      /\ \A k \in DOMAIN wave : wave'[k] = wave[k] BY <1>1, <1>2, <1>4 DEF QueueTypes
<1>10. \A k : k \in DOMAIN wave' <=> k \in DOMAIN wave \/ k = Len(wave) + 1 BY <1>9
<1>11. w.req = r BY DEF w
<1>12. InWave' = InWave \cup {r}
  <2>1. \A q : q \in InWave' <=> \E k \in DOMAIN wave' : wave'[k].req = q BY DEF InWave, Range
  <2>2. \A q : q \in InWave <=> \E k \in DOMAIN wave : wave[k].req = q BY DEF InWave, Range
  <2> QED BY <1>9, <1>10, <1>11, <2>1, <2>2
<1>13. \A i, j \in DOMAIN wave' : i # j => wave'[i].req # wave'[j].req
  <2>1. \A k \in DOMAIN wave : wave[k].req \in InWave BY DEF InWave, Range
  <2>2. \A k \in DOMAIN wave : wave[k].req # r BY <1>3, <2>1
  <2>3. \A i, j \in DOMAIN wave : i # j => wave[i].req # wave[j].req BY <1>1 DEF QueueTypes
  <2> QED BY <1>9, <1>10, <1>11, <2>2, <2>3
<1>14. QueueTypes'
  <2>1. Len(queue') <= QueueCap BY <1>7, <1>8
  <2>2. \A q \in InWave : Copies[q] <= Slots /\ q \notin Range(queue) /\ q \in sent
    BY <1>1 DEF QueueTypes
  <2>3. \A q \in InWave' : Copies[q] <= Slots /\ q \notin Range(queue') BY <1>3, <1>8, <1>12, <2>2
  <2>4. Range(queue') \cup InWave' \subseteq sent' BY <1>2, <1>3, <1>7, <1>8, <1>12, <2>2
  <2>5. sent' \subseteq Requests /\ cancelled' \subseteq sent' \cap Leavers
    BY <1>1, <1>2 DEF QueueTypes
  <2> QED BY <1>8, <1>9, <1>13, <2>1, <2>3, <2>4, <2>5 DEF QueueTypes
<1>15. TreeTypes'
  <2>1. pins' \subseteq {d.path : d \in Range(dormant')} BY <1>1, <1>2, <1>5, <1>6 DEF TreeTypes
  <2> QED BY <1>1, <1>2, <1>6, <2>1 DEF TreeTypes
<1>16. GroupTypes' BY <1>1, <1>2 DEF GroupTypes, Alive, On
<1>17. WaveTypes'
  <2>1. FreeSlots' = FreeSlots
    <3>1. LiveSlots(groups') = LiveSlots(groups) BY <1>2
    <3>2. DormantSlots' = DormantSlots BY <1>6 DEF DormantSlots
    <3> QED BY <3>1, <3>2 DEF FreeSlots
  <2>2. Seats(InWave)' = Seats(InWave) \cup Seats({r}) BY <1>12 DEF Seats
  <2>3. Seats(InWave) \cap Seats({r}) = {} BY <1>3 DEF Seats
  <2>4. Cardinality(Seats(InWave))' = Cardinality(Seats(InWave)) + Copies[r]
    <3>1. IsFiniteSet(Seats(InWave)) /\ IsFiniteSet(Seats({r})) /\ Cardinality(Seats({r})) = Copies[r]
      BY <1>1, <1>3, WaveFinite, SeatsOfOne
    <3>2. Cardinality(Seats(InWave) \cup Seats({r})) = Cardinality(Seats(InWave)) + Cardinality(Seats({r}))
      BY <2>3, <3>1, DisjointCount
    <3> QED BY <2>2, <3>1, <3>2
  <2>5. Cardinality(Seats(InWave))' <= Cardinality(FreeSlots)' BY <1>3, <2>1, <2>4
  <2> QED BY <1>2, <1>9, <2>5 DEF WaveTypes
<1>18. Types'
  <2>1. mode' \in Modes /\ at' \in Places /\ told' \in [Requests -> Nat] BY <1>1, <1>2 DEF Types
  <2> QED BY <1>14, <1>15, <1>16, <1>17, <2>1 DEF Types
<1>19. Accounts'
  <2>1. \A q \in Requests : q \in Range(queue') \cup InWave' <=> q \in Range(queue) \cup InWave
    BY <1>3, <1>8, <1>12
  <2>2. \A q \in Requests : Waiting(q)' = Waiting(q) BY <2>1, SameWaiting
  <2>3. \A q : Lives(q)' = Lives(q) BY <1>2, SameLives
  <2> QED BY <1>1, <1>2, <2>2, <2>3, SameAccounts
<1> QED BY <1>18, <1>19 DEF IInv

\* The queue is put together again of all its requests.
LEMMA EndSelectionKeeps == ASSUME IInv, EndSelection PROVE IInv'
<1>1. Types /\ GroupTypes /\ QueueTypes /\ TreeTypes /\ WaveTypes /\ Accounts BY DEF IInv, Types
<1>2. /\ at = "place" /\ queue' = Others \o Candidates
      /\ at' = (IF wave = <<>> THEN "step" ELSE "wave")
      /\ UNCHANGED <<mode, wave, pins, groups, kv, dormant, adapter, weights, key, cancelled, sent, told>>
  BY DEF EndSelection
<1> DEFINE S == {q \in Requests : Adapter[q] # adapter}
           T == {q \in Requests : Adapter[q] = adapter}
<1>3. queue \in Seq(Requests) /\ Differ(queue) /\ Len(queue) <= QueueCap /\ Range(queue) \subseteq sent
      /\ Range(queue) \subseteq Requests BY <1>1 DEF QueueTypes
<1>4. /\ Others \in Seq(Requests) /\ Range(Others) = Range(queue) \cap S /\ Differ(Others)
      /\ Candidates \in Seq(Requests) /\ Range(Candidates) = Range(queue) \cap T /\ Differ(Candidates)
  <2>1. Others = Sift(queue, S) /\ Candidates = Sift(queue, T) BY DEF Others, Candidates
  <2> HIDE DEF S, T
  <2> QED BY <1>3, <2>1, SiftRange
<1>5. Len(Others) + Len(Candidates) = Len(queue)
  <2>1. \A q \in Requests : q \in S <=> q \notin T OBVIOUS
  <2>2. Others = Sift(queue, S) /\ Candidates = Sift(queue, T) BY DEF Others, Candidates
  <2> HIDE DEF S, T
  <2> QED BY <1>3, <2>1, <2>2, SiftParts
<1>6. S \cap T = {} /\ Requests \subseteq S \cup T OBVIOUS
<1> HIDE DEF S, T
<1>7. /\ queue' \in Seq(Requests) /\ Len(queue') = Len(queue)
      /\ Range(queue') = Range(queue) /\ Differ(queue')
  <2>1. Range(Others) \cap Range(Candidates) = {} /\ Range(Others) \cup Range(Candidates) = Range(queue)
    BY <1>3, <1>4, <1>6
  <2> DEFINE a == Others
             b == Candidates
  <2>2. /\ a \in Seq(Requests) /\ b \in Seq(Requests) /\ Differ(a) /\ Differ(b)
        /\ Range(a) \cap Range(b) = {} BY <1>4, <2>1
  <2> HIDE DEF a, b
  <2>3. /\ a \o b \in Seq(Requests) /\ Len(a \o b) = Len(a) + Len(b)
        /\ Range(a \o b) = Range(a) \cup Range(b) /\ Differ(a \o b) BY <2>2, JoinRange, Zenon
  <2> QED BY <1>2, <1>5, <2>1, <2>3 DEF a, b
<1>14. InWave' = InWave BY <1>2 DEF InWave
<1>15. QueueTypes'
  <2>1. Len(queue') <= QueueCap BY <1>3, <1>7
  <2> QED BY <1>1, <1>2, <1>7, <1>14, <2>1 DEF QueueTypes
<1>16. WaveTypes'
  <2>1. FreeSlots' = FreeSlots BY <1>2 DEF FreeSlots, LiveSlots, DormantSlots, On
  <2>2. Seats(InWave)' = Seats(InWave) BY <1>14 DEF Seats
  <2> QED BY <1>1, <1>2, <2>1, <2>2 DEF WaveTypes
<1>17. Types'
  <2>1. mode' \in Modes /\ at' \in Places /\ told' \in [Requests -> Nat]
    BY <1>1, <1>2 DEF Types, Places
  <2>2. GroupTypes' BY <1>1, <1>2 DEF GroupTypes, Alive, On
  <2>3. TreeTypes' BY <1>1, <1>2 DEF TreeTypes
  <2> QED BY <1>15, <1>16, <2>1, <2>2, <2>3 DEF Types
<1>18. Accounts'
  <2>1. \A q \in Requests : Waiting(q)' = Waiting(q) BY <1>7, <1>14, SameWaiting
  <2>2. \A q : Lives(q)' = Lives(q) BY <1>2, SameLives
  <2> QED BY <1>1, <1>2, <2>1, <2>2, SameAccounts
<1> QED BY <1>17, <1>18 DEF IInv

\* The places of a wave whose prompt is that of a request, and what they ask for.
Alike(r) == {i \in DOMAIN wave : Prompt[wave[i].req] = Prompt[r]}
Asked(ws) == [i \in DOMAIN ws |-> ws[i].req]
\* The identical prompts of a wave make one group, and the rest of the wave stays.
LEMMA WaveParts ==
    ASSUME Types, PlaceWave
    PROVE  \E r, rs :
             /\ r \in InWave /\ rs = Asked(Kept(wave, Alike(r))) /\ wave' = Kept(wave, DOMAIN wave \ Alike(r))
             /\ Placeable(rs) /\ Place(rs)
             /\ wave # <<>> /\ wave' \in Seq(WaveSet) /\ Range(wave') \subseteq Range(wave) /\ Differ(wave')
             /\ InWave = InWave' \cup Range(rs) /\ InWave' \cap Range(rs) = {}
             /\ Cardinality(Seats(InWave)) = Cardinality(Seats(InWave)') + Cardinality(Seats(Range(rs)))
             /\ Cardinality(Seats(InWave)') \in Nat /\ Cardinality(Seats(Range(rs))) \in Nat
<1>1. GroupTypes /\ QueueTypes /\ TreeTypes /\ WaveTypes BY DEF Types
<1>2. PICK r \in InWave :
        /\ LET run == Sift(wave, {w \in Range(wave) : Prompt[w.req] = Prompt[r]})
           IN  Place([i \in DOMAIN run |-> run[i].req])
        /\ wave' = Sift(wave, {w \in Range(wave) : Prompt[w.req] # Prompt[r]}) BY DEF PlaceWave
<1> DEFINE same == {w \in Range(wave) : Prompt[w.req] = Prompt[r]}
           other == {w \in Range(wave) : Prompt[w.req] # Prompt[r]}
           run == Sift(wave, same)
           rs == [i \in DOMAIN run |-> run[i].req]
<1>4. Place(rs) /\ wave' = Sift(wave, other) BY <1>2
<1>3. rs = Asked(Kept(wave, Alike(r))) /\ wave' = Kept(wave, DOMAIN wave \ Alike(r))
  <2>1. \A i \in DOMAIN wave : wave[i] \in Range(wave) BY DEF Range
  <2>2. {i \in DOMAIN wave : wave[i] \in same} = Alike(r) BY <2>1 DEF Alike
  <2>3. {i \in DOMAIN wave : wave[i] \in other} = DOMAIN wave \ Alike(r) BY <2>1 DEF Alike
  <2>4. run = Kept(wave, Alike(r)) /\ wave' = Kept(wave, DOMAIN wave \ Alike(r))
    <3> HIDE DEF same, other
    <3> QED BY <1>4, <2>2, <2>3 DEF Sift
  <2> HIDE DEF run
  <2> QED BY <2>4 DEF Asked
<1>5. /\ wave \in Seq(WaveSet) /\ Len(wave) \in Nat
      /\ \A i, j \in DOMAIN wave : i # j => wave[i].req # wave[j].req
      /\ \A q \in InWave : Copies[q] <= Slots /\ q \notin Range(queue) BY <1>1 DEF QueueTypes
<1>6. Differ(wave) BY <1>5 DEF Differ
<1>7. /\ run \in Seq(WaveSet) /\ Range(run) = Range(wave) \cap same /\ Differ(run)
      /\ wave' \in Seq(WaveSet) /\ Range(wave') = Range(wave) \cap other /\ Differ(wave')
  <2> HIDE DEF same, other
  <2> QED BY <1>4, <1>5, <1>6, SiftRange
<1>8. \A v, w \in Range(wave) : v.req = w.req => v = w BY <1>5 DEF Range
<1>9. same \cap other = {} /\ same \cup other = Range(wave) /\ \E w \in same : w.req = r
  BY DEF InWave
<1>10. \A v \in same, w \in other : v.req # w.req OBVIOUS
<1> HIDE DEF run, same, other
<1>11. /\ rs \in Seq(Requests) /\ rs # <<>> /\ DOMAIN rs = DOMAIN run
       /\ Range(rs) = {w.req : w \in same} /\ Differ(rs)
  <2>1. \A i \in DOMAIN run : run[i] \in WaveSet /\ run[i].req \in Requests /\ run[i] \in same /\ run[i] \in Range(wave)
    <3>1. \A i \in DOMAIN run : run[i] \in WaveSet BY <1>7
    <3>2. \A i \in DOMAIN run : run[i] \in Range(run) BY DEF Range
    <3> QED BY <1>7, <3>1, <3>2 DEF WaveSet
  <2>2. rs \in Seq(Requests) /\ DOMAIN rs = DOMAIN run
    <3>1. \A i \in DOMAIN run : run[i].req \in Requests BY <2>1
    <3>2. rs \in [DOMAIN run -> Requests] /\ DOMAIN rs = DOMAIN run BY <3>1, Zenon
    <3>3. DOMAIN run = 1 .. Len(run) /\ Len(run) \in Nat BY <1>7
    <3> HIDE DEF rs
    <3> QED BY <3>2, <3>3
  <2>3. Range(rs) = {w.req : w \in same}
    <3>1. \A w \in same : \E i \in DOMAIN run : run[i] = w
      <4>1. \A w \in same : w \in Range(run) BY <1>7, <1>9
      <4> QED BY <4>1 DEF Range
    <3> QED BY <2>1, <3>1 DEF Range
  <2>4. Differ(rs) BY <1>7, <1>8, <2>1 DEF Differ
  <2>5. rs # <<>>
    <3>1. PICK w \in same : TRUE BY <1>9
    <3>2. w.req \in Range(rs) BY <2>3
    <3>3. Range(<<>>) = {} BY DEF Range
    <3> HIDE DEF rs
    <3> QED BY <3>2, <3>3
  <2> QED BY <2>2, <2>3, <2>4, <2>5
<1>12. InWave' = {w.req : w \in other} /\ InWave = {w.req : w \in Range(wave)}
  <2>1. Range(wave') = other BY <1>7, <1>9
  <2> QED BY <2>1 DEF InWave
<1> HIDE DEF rs
<1>13. InWave = InWave' \cup Range(rs) /\ InWave' \cap Range(rs) = {} BY <1>9, <1>10, <1>11, <1>12
<1>14. /\ Cardinality(Seats(InWave)) = Cardinality(Seats(InWave)') + Cardinality(Seats(Range(rs)))
       /\ Cardinality(Seats(InWave)') \in Nat /\ Cardinality(Seats(Range(rs))) \in Nat
  <2>1. IsFiniteSet(InWave) BY <1>1, WaveFinite
  <2>2. InWave' \in SUBSET InWave /\ Range(rs) \in SUBSET InWave BY <1>13
  <2>3. IsFiniteSet(InWave') /\ IsFiniteSet(Range(rs)) BY <2>1, <2>2, FS_Subset, Zenon
  <2>4. Seats(InWave)' = Seats(InWave') BY DEF Seats
  <2>5. /\ IsFiniteSet(Seats(InWave')) /\ Cardinality(Seats(InWave')) \in Nat
        /\ IsFiniteSet(Seats(Range(rs))) /\ Cardinality(Seats(Range(rs))) \in Nat
    BY <2>3, SeatsFinite
  <2>6. Seats(InWave) = Seats(InWave') \cup Seats(Range(rs)) /\ Seats(InWave') \cap Seats(Range(rs)) = {}
    BY <1>13 DEF Seats
  <2>7. Cardinality(Seats(InWave') \cup Seats(Range(rs)))
          = Cardinality(Seats(InWave')) + Cardinality(Seats(Range(rs)))
    BY <2>5, <2>6, DisjointCount
  <2> QED BY <2>4, <2>5, <2>6, <2>7
<1>15. Placeable(rs)
  <2>1. \A k \in DOMAIN rs : rs[k] \in InWave BY <1>13 DEF Range
  <2>2. Cardinality(SeatsOf(rs)) = Cardinality(Seats(Range(rs))) BY <1>11, SeatsOfFits
  <2>3. Cardinality(Seats(InWave)) <= Cardinality(FreeSlots) /\ Cardinality(FreeSlots) \in Nat
    <3>1. Cardinality(FreeSlots) \in 0 .. Slots /\ Slots \in Nat BY FreeSlotsFinite, Constants
    <3> QED BY <1>1, <3>1 DEF WaveTypes
  <2>4. Cardinality(SeatsOf(rs)) <= Cardinality(FreeSlots) BY <1>14, <2>2, <2>3
  <2> QED BY <1>5, <1>11, <2>1, <2>4 DEF Placeable
<1>16. wave # <<>>
  <2>1. PICK k \in DOMAIN wave : wave[k].req = r BY DEF InWave, Range
  <2> QED BY <2>1
<1>17. Range(wave') \subseteq Range(wave) BY <1>7
<1> QED BY <1>3, <1>4, <1>7, <1>13, <1>14, <1>15, <1>16, <1>17

\* The requests of the wave that share a prompt get their slots, the rest still have theirs.
LEMMA PlaceWaveKeeps == ASSUME IInv, PlaceWave PROVE IInv'
<1>1. Types /\ GroupTypes /\ QueueTypes /\ TreeTypes /\ WaveTypes /\ Accounts BY DEF IInv, Types
<1>2. PICK rs :
        /\ Placeable(rs) /\ Place(rs)
        /\ wave # <<>> /\ wave' \in Seq(WaveSet) /\ Range(wave') \subseteq Range(wave) /\ Differ(wave')
        /\ InWave = InWave' \cup Range(rs) /\ InWave' \cap Range(rs) = {}
        /\ Cardinality(Seats(InWave)) = Cardinality(Seats(InWave)') + Cardinality(Seats(Range(rs)))
        /\ Cardinality(Seats(InWave)') \in Nat /\ Cardinality(Seats(Range(rs))) \in Nat
  BY <1>1, WaveParts
<1>3. /\ at = "wave"
      /\ IF wave' = <<>> THEN at' = "step" /\ pins' = {} ELSE UNCHANGED <<at, pins>>
      /\ UNCHANGED <<mode, queue, adapter, weights, key, cancelled, sent, told>> BY DEF PlaceWave
<1>4. /\ wave \in Seq(WaveSet) /\ \A i, j \in DOMAIN wave : i # j => wave[i].req # wave[j].req
      /\ \A q \in InWave : Copies[q] <= Slots /\ q \notin Range(queue) BY <1>1 DEF QueueTypes
<1>5. \A v, w \in Range(wave) : v.req = w.req => v = w BY <1>4 DEF Range
<1>6. /\ GroupTypes' /\ kv' \in PoolFn /\ dormant' \in Seq(NodeSet) /\ Range(dormant') = Range(dormant)
       /\ Cardinality(FreeSlots') = Cardinality(FreeSlots) - Cardinality(Seats(Range(rs)))
       /\ \A q : Lives(q)' = Lives(q) + (IF q \in Range(rs) THEN Copies[q] ELSE 0)
  BY <1>1, <1>2, PlaceStep DEF TreeTypes, Lives
<1>7. WaveTypes'
  <2>1. Cardinality(Seats(InWave)) <= Cardinality(FreeSlots) /\ mode = "Lockstep" /\ Cardinality(FreeSlots) \in Nat
    <3>1. Cardinality(FreeSlots) \in 0 .. Slots /\ Slots \in Nat BY FreeSlotsFinite, Constants
    <3> QED BY <1>1, <1>2, <3>1 DEF WaveTypes
  <2>2. Cardinality(Seats(InWave)') <= Cardinality(FreeSlots') BY <1>2, <1>6, <2>1
  <2>3. wave' # <<>> => at' \in {"place", "wave"} /\ mode' = "Lockstep" BY <1>3, <2>1
  <2>4. pins' # {} => wave' # <<>> BY <1>3
  <2> QED BY <2>2, <2>3, <2>4 DEF WaveTypes
<1>8. TreeTypes'
  <2>1. pins' \subseteq pins BY <1>3
  <2> QED BY <1>1, <1>3, <1>6, <2>1 DEF TreeTypes
<1>9. QueueTypes'
  <2>1. \A q \in InWave' : Copies[q] <= Slots /\ q \notin Range(queue') BY <1>3, <1>4, <1>2
  <2>2. \A i, j \in DOMAIN wave' : i # j => wave'[i].req # wave'[j].req
    <3>1. \A i \in DOMAIN wave' : wave'[i] \in Range(wave) BY <1>2 DEF Range
    <3> QED BY <1>2, <1>5, <3>1 DEF Differ
  <2>3. Range(queue') \cup InWave' \subseteq sent' BY <1>1, <1>3, <1>2 DEF QueueTypes
  <2> QED BY <1>1, <1>2, <1>3, <2>1, <2>2, <2>3 DEF QueueTypes
<1>10. Types'
  <2>1. mode' \in Modes /\ at' \in Places /\ told' \in [Requests -> Nat]
    BY <1>1, <1>3 DEF Types, Places
  <2> QED BY <1>6, <1>7, <1>8, <1>9, <2>1 DEF Types
<1>11. Accounts'
  <2> SUFFICES ASSUME NEW q \in Requests PROVE Account(q)' BY DEF Accounts
  <2>1. Account(q) /\ told'[q] = told[q] /\ sent' = sent /\ cancelled' = cancelled /\ queue' = queue
    BY <1>1, <1>3 DEF Accounts
  <2>2. told[q] \in Nat /\ Waiting(q) \in Nat /\ Lives(q) \in Nat /\ Copies[q] \in Nat
    BY <1>1, Numbers
  <2>3. Lives(q)' = Lives(q) + (IF q \in Range(rs) THEN Copies[q] ELSE 0) BY <1>6
  <2>4. CASE q \in Range(rs)
    <3>1. q \in InWave /\ q \notin InWave' /\ q \notin Range(queue) /\ q \in sent
      BY <1>1, <1>4, <1>2, <2>4 DEF QueueTypes
    <3>2. Waiting(q) = Copies[q] /\ Waiting(q)' = 0 BY <2>1, <3>1 DEF Waiting
    <3> QED BY <2>1, <2>2, <2>3, <2>4, <3>1, <3>2 DEF Account
  <2>5. CASE q \notin Range(rs)
    <3>1. Waiting(q)' = Waiting(q) BY <1>2, <2>1, <2>5 DEF Waiting
    <3>2. Lives(q)' = Lives(q) BY <2>2, <2>3, <2>5
    <3> QED BY <2>1, <3>1, <3>2 DEF Account
  <2> QED BY <2>4, <2>5
<1> QED BY <1>10, <1>11 DEF IInv

-----------------------------------------------------------------------------
(* The theorems.                                                            *)

\* The scheduler starts with nothing.
LEMMA InitHolds == ASSUME Init PROVE IInv
<1>1. /\ mode \in Modes /\ at = "idle" /\ queue = <<>> /\ wave = <<>> /\ pins = {} /\ groups = <<>>
      /\ kv = [s \in Pool |-> <<>>] /\ dormant = <<>> /\ adapter = None /\ weights = 0
      /\ cancelled = {} /\ sent = {} /\ told = [r \in Requests |-> 0] BY DEF Init
<1>2. \A S : <<>> \in Seq(S) OBVIOUS
<1>3. GroupTypes BY <1>1, <1>2 DEF GroupTypes
<1>4. InWave = {} /\ Range(queue) = {} /\ Range(dormant) = {} BY <1>1 DEF InWave, Range
<1>5. QueueTypes
  <2>1. queue \in Seq(Requests) /\ wave \in Seq(WaveSet) BY <1>1, <1>2
  <2>2. Differ(queue) /\ Len(queue) <= QueueCap BY <1>1, Constants DEF Differ
  <2> QED BY <1>1, <1>4, <2>1, <2>2 DEF QueueTypes
<1>6. TreeTypes
  <2>1. kv \in PoolFn BY <1>1, <1>2 DEF PoolFn
  <2>2. dormant \in Seq(NodeSet) BY <1>1, <1>2
  <2> QED BY <1>1, <2>1, <2>2, Constants DEF TreeTypes, Adapters
<1>7. WaveTypes
  <2>1. Cardinality(FreeSlots) \in Nat BY FreeSlotsFinite, Constants
  <2> QED BY <1>1, <1>4, <2>1, NoSeats DEF WaveTypes
<1>8. Types BY <1>1, <1>3, <1>5, <1>6, <1>7 DEF Types, Places
<1>9. \A r \in Requests : Account(r)
  <2> TAKE r \in Requests
  <2>1. Decoding(r) = {} BY <1>1 DEF Decoding
  <2>2. Lives(r) = 0 BY <2>1, FS_EmptySet DEF Lives
  <2>3. Waiting(r) = 0 /\ told[r] = 0 /\ Copies[r] \in Nat BY <1>1, <1>4, Constants DEF Waiting
  <2> QED BY <1>1, <2>2, <2>3 DEF Account
<1> QED BY <1>8, <1>9 DEF IInv, Accounts

\* Every step keeps the invariant.
LEMMA StepHolds == ASSUME IInv, [Next]_vars PROVE IInv'
<1>1. CASE UNCHANGED vars
  <2>1. QueueTypes /\ TreeTypes BY DEF IInv, Types
  <2>2. UNCHANGED <<mode, queue, wave, groups, kv, dormant, adapter, sent, told, pins>> /\ at' = at
        /\ weights' = weights /\ cancelled' = cancelled BY <1>1 DEF vars
  <2>3. weights' \in 0 .. Updates /\ cancelled \subseteq cancelled' /\ cancelled' \subseteq sent \cap Leavers
    BY <2>1, <2>2 DEF QueueTypes, TreeTypes
  <2> QED BY <2>2, <2>3, QuietKeeps
<1>2. CASE \E r \in Requests : Submit(r) \/ Cancel(r) BY <1>2, SubmitKeeps, CancelKeeps
<1>3. CASE Update BY <1>3, UpdateKeeps
<1>4. CASE Sweep BY <1>4, SweepKeeps
<1>5. CASE RemoveCancelled BY <1>5, RemoveCancelledKeeps
<1>6. CASE ChooseAdapter BY <1>6, ChooseAdapterKeeps
<1>7. CASE AdmitFront BY <1>7, AdmitFrontKeeps
<1>8. CASE SelectFront BY <1>8, SelectFrontKeeps
<1>9. CASE Evict BY <1>9, EvictKeeps
<1>10. CASE EndSelection BY <1>10, EndSelectionKeeps
<1>11. CASE PlaceWave BY <1>11, PlaceWaveKeeps
<1>12. CASE Step BY <1>12, StepKeeps
<1>13. CASE StepFails BY <1>13, StepFailsKeeps
<1>14. CASE NoStep BY <1>14, NoStepKeeps
<1> QED BY <1>1, <1>2, <1>3, <1>4, <1>5, <1>6, <1>7, <1>8, <1>9, <1>10, <1>11, <1>12, <1>13, <1>14 DEF Next, Pump

\* The types and the accounts hold in every state.
THEOREM AccountsHold == Spec => []IInv
<1>1. Init => IInv BY InitHolds
<1>2. IInv /\ [Next]_vars => IInv' BY StepHolds
<1> QED BY <1>1, <1>2, PTL DEF Spec

\* The types say more than TypeOK.
LEMMA TypesSuffice == ASSUME IInv PROVE TypeOK
<1>1. Types /\ GroupTypes /\ QueueTypes /\ TreeTypes /\ WaveTypes /\ Accounts BY DEF IInv, Types
<1>2. ASSUME NEW g \in Range(groups)
      PROVE  /\ g.phase \in {"prefill", "terminal", "decode"}
             /\ Len(g.ms) <= Slots /\ g.leader \in DOMAIN g.ms
             /\ g.hit \in 0 .. Len(PromptOf(g)) - 1
             /\ g.pos \in 0 .. Len(PromptOf(g)) + Slots
             /\ \A m \in Range(g.ms) :
                  m.slot \in Pool /\ m.gen \in 0 .. Budget[m.req] /\ m.on \in BOOLEAN
             /\ \A i \in On(g) : g.ms[i].gen < Budget[g.ms[i].req]
  <2>1. g \in Groups /\ Alive(g) BY <1>1 DEF GroupTypes, Range
  <2>2. /\ GroupFits(g) /\ g.leader \in DOMAIN g.ms /\ g.phase \in Phases /\ g.hit \in Nat /\ g.pos \in Nat
        /\ Len(PromptOf(g)) \in Nat
        /\ \A i \in DOMAIN g.ms : /\ g.ms[i].req \in Requests /\ g.ms[i].slot \in Pool
                                  /\ g.ms[i].gen \in Nat /\ g.ms[i].on \in BOOLEAN
    BY <2>1, GroupParts
  <2>3. /\ Len(g.ms) <= Slots /\ g.hit < Len(PromptOf(g)) /\ g.pos <= Len(PromptOf(g)) + Slots
        /\ \A i \in DOMAIN g.ms : g.ms[i].gen <= Budget[g.ms[i].req] BY <2>2 DEF GroupFits, PosFits
  <2>4. g.hit \in 0 .. Len(PromptOf(g)) - 1 /\ g.pos \in 0 .. Len(PromptOf(g)) + Slots
    BY <2>2, <2>3, Constants
  <2>5. \A i \in DOMAIN g.ms : g.ms[i].gen \in 0 .. Budget[g.ms[i].req]
    <3> TAKE i \in DOMAIN g.ms
    <3>1. PICK b \in Nat : b = Budget[g.ms[i].req] BY <2>2, Constants
    <3>2. PICK n \in Nat : n = g.ms[i].gen /\ n <= b BY <2>2, <2>3, <3>1
    <3> QED BY <3>1, <3>2
  <2>6. \A m \in Range(g.ms) : m.slot \in Pool /\ m.gen \in 0 .. Budget[m.req] /\ m.on \in BOOLEAN
    BY <2>2, <2>5 DEF Range
  <2>7. \A i \in On(g) : g.ms[i].gen < Budget[g.ms[i].req] BY <2>1 DEF Alive
  <2> QED BY <2>2, <2>3, <2>4, <2>6, <2>7 DEF Phases
<1>3. \A s \in Pool : \A c \in Range(kv[s]) : c.cell \in 1 .. Cells
  <2> TAKE s \in Pool
  <2>1. kv[s] \in Seq(CellSet) BY <1>1 DEF TreeTypes, PoolFn
  <2>2. \A i \in DOMAIN kv[s] : kv[s][i] \in CellSet BY <2>1
  <2>3. \A c \in CellSet : c.cell \in 1 .. Cells BY DEF CellSet
  <2> QED BY <2>2, <2>3 DEF Range
<1>4. \A r \in Requests : told[r] \in 0 .. Copies[r]
  <2> TAKE r \in Requests
  <2>1. told[r] \in Nat /\ Waiting(r) \in Nat /\ Lives(r) \in Nat /\ Copies[r] \in Nat
    BY <1>1, Numbers
  <2>2. told[r] + Waiting(r) + Lives(r) <= Copies[r] BY <1>1 DEF Accounts, Account
  <2> QED BY <2>1, <2>2
<1>5. /\ mode \in Modes /\ at \in {"idle", "remove", "admit", "place", "wave", "step"}
      /\ Range(queue) \cup InWave \subseteq sent /\ sent \subseteq Requests /\ Len(queue) <= QueueCap
      /\ cancelled \subseteq sent \cap Leavers
      /\ pins \subseteq {d.path : d \in Range(dormant)} /\ weights \in 0 .. Updates
  BY <1>1 DEF Types, Places, QueueTypes, TreeTypes
<1> QED BY <1>2, <1>3, <1>4, <1>5 DEF TypeOK

\* Every variable of the scheduler keeps its type: places and phases are known
\* ones, a live group is within its prompt and its slots, no live member has
\* spent its budget, cells are within the pool, pins are paths of the tree, and
\* no request is told of more completions than it asked for.
THEOREM TypeCorrect == Spec => []TypeOK
<1>1. IInv => TypeOK BY TypesSuffice
<1> QED BY <1>1, AccountsHold, PTL

\* Every completion of a request waits, is live or has been told of its end, and
\* only one of these, whatever cancellations, refusals and failed steps there
\* are; of a request whose stream is kept, none is lost.
THEOREM StreamsAlwaysEndOnce == Spec => []StreamsEndOnce
<1>1. ASSUME IInv PROVE StreamsEndOnce
  <2> SUFFICES ASSUME NEW r \in Requests
               PROVE  /\ told[r] + Waiting(r) + Lives(r) <= Copies[r]
                      /\ r \in sent \ cancelled => told[r] + Waiting(r) + Lives(r) = Copies[r]
    BY DEF StreamsEndOnce, Waiting, Lives
  <2>1. Account(r) BY <1>1 DEF IInv, Accounts
  <2> QED BY <2>1 DEF Account
<1>2. IInv => StreamsEndOnce BY <1>1
<1> QED BY <1>2, AccountsHold, PTL

-----------------------------------------------------------------------------
(* What the slots hold, where no flag is set while remove_cancelled runs.   *)

\* The token of a group's completions at a position.
Token(g, n) == IF n <= Len(PromptOf(g)) THEN PromptOf(g)[n] ELSE Word
Carries(cells, g) == \A n \in DOMAIN cells : cells[n].tok = <<CacheKey, Token(g, n)>>
\* How many positions the slot of a member holds, and what it has sampled.
Span(g, i) ==
    IF g.phase = "prefill" THEN (IF i = g.leader THEN g.pos ELSE 0)
    ELSE Len(PromptOf(g)) + g.ms[i].gen - 1
Progress(g, i) ==
    /\ g.phase = "prefill" =>
         g.ms[i].gen = IF i = g.leader /\ g.pos = Len(PromptOf(g)) THEN 1 ELSE 0
    /\ g.phase = "terminal" => g.ms[i].gen = IF i < g.pos THEN 1 ELSE 0
    /\ g.phase = "decode" => g.ms[i].gen > 0
MemberHolds(pool, g, i) ==
    /\ Progress(g, i) /\ Len(pool[g.ms[i].slot]) = Span(g, i) /\ Carries(pool[g.ms[i].slot], g)
Led(g) == g.phase = "prefill" => g.leader \in On(g)
GroupsHold(pool, gs) == \A g \in DOMAIN gs :
    Led(gs[g]) /\ \A i \in On(gs[g]) : MemberHolds(pool, gs[g], i)
OneUser(gs) == \A p, q \in InGroups(gs) : Member(gs, p).slot = Member(gs, q).slot => p = q

NodeHolds(pool, d) ==
    /\ Len(pool[d.slot]) = Len(d.path)
    /\ \A n \in DOMAIN pool[d.slot] : pool[d.slot][n].tok = <<key, d.path[n]>>
NodesHold(pool) == Apart(dormant) /\ \A d \in Range(dormant) : NodeHolds(pool, d)
\* No node has the slot of a member, and a slot that is neither's is empty.
Used(gs, s) == \E p \in InGroups(gs) : Member(gs, p).slot = s
Separate(pool, gs) == \A s \in Pool :
    /\ ~(Used(gs, s) /\ s \in DormantSlots)
    /\ Used(gs, s) \/ s \in DormantSlots \/ pool[s] = <<>>

KeyFits == groups # <<>> \/ at \in {"place", "wave"} => key = CacheKey
SlotInv ==
    OneUser(groups) /\ GroupsHold(kv, groups) /\ NodesHold(kv) /\ Separate(kv, groups) /\ KeyFits

-----------------------------------------------------------------------------
\* Who uses a slot.
LEMMA UsedIs ==
    ASSUME NEW gs \in Seq(Groups)
    PROVE  \A s : Used(gs, s) <=> s \in LiveSlots(gs)
<1> TAKE s
<1>1. \A p : p \in InGroups(gs) <=> p \in (DOMAIN gs) \X Pool /\ p[2] \in On(gs[p[1]])
  BY DEF InGroups
<1>2. ASSUME Used(gs, s) PROVE s \in LiveSlots(gs)
  <2>1. PICK p \in InGroups(gs) : Member(gs, p).slot = s BY <1>2 DEF Used
  <2>2. p[1] \in DOMAIN gs /\ p[2] \in On(gs[p[1]]) /\ gs[p[1]].ms[p[2]].slot = s
    BY <1>1, <2>1 DEF Member
  <2>3. gs[p[1]] \in Range(gs) BY <2>2 DEF Range
  <2> QED BY <2>2, <2>3 DEF LiveSlots
<1>3. ASSUME s \in LiveSlots(gs) PROVE Used(gs, s)
  <2>1. PICK x \in Range(gs) : s \in {x.ms[i].slot : i \in On(x)} BY <1>3 DEF LiveSlots
  <2>2. PICK g \in DOMAIN gs : gs[g] = x BY <2>1 DEF Range
  <2>3. PICK i \in On(gs[g]) : gs[g].ms[i].slot = s BY <2>1, <2>2
  <2>4. gs[g] \in Groups BY <2>2
  <2>5. i \in Pool BY <2>3, <2>4, GroupParts
  <2>6. <<g, i>> \in InGroups(gs) BY <1>1, <2>2, <2>3, <2>5
  <2>7. Member(gs, <<g, i>>).slot = s BY <2>3 DEF Member
  <2> QED BY <2>6, <2>7 DEF Used
<1> QED BY <1>2, <1>3

\* A member by its group and its place.
LEMMA InGroupsIs ==
    ASSUME NEW gs \in Seq(Groups)
    PROVE  /\ \A g \in DOMAIN gs : \A i \in On(gs[g]) :
                <<g, i>> \in InGroups(gs) /\ Member(gs, <<g, i>>) = gs[g].ms[i]
           /\ \A p \in InGroups(gs) : /\ p[1] \in DOMAIN gs /\ p[2] \in On(gs[p[1]]) /\ p = <<p[1], p[2]>>
                                      /\ Member(gs, p) = gs[p[1]].ms[p[2]]
                                      /\ Member(gs, p).slot \in Pool
<1>1. \A p : p \in InGroups(gs) <=> p \in (DOMAIN gs) \X Pool /\ p[2] \in On(gs[p[1]])
  BY DEF InGroups
<1>2. ASSUME NEW g \in DOMAIN gs, NEW i \in On(gs[g])
      PROVE  <<g, i>> \in InGroups(gs) /\ Member(gs, <<g, i>>) = gs[g].ms[i]
  <2>1. gs[g] \in Groups OBVIOUS
  <2>2. i \in Pool BY <2>1, GroupParts
  <2> QED BY <1>1, <2>2 DEF Member
<1>3. \A p \in InGroups(gs) : /\ p[1] \in DOMAIN gs /\ p[2] \in On(gs[p[1]]) /\ p = <<p[1], p[2]>>
                              /\ Member(gs, p) = gs[p[1]].ms[p[2]]
                              /\ Member(gs, p).slot \in Pool BY MemberParts DEF Member
<1> QED BY <1>2, <1>3

\* The tokens of a member, one by one.
LEMMA OwnIs ==
    ASSUME NEW gs \in Seq(Groups), NEW p \in InGroups(gs)
    PROVE  /\ Len(Own(gs, p)) = Len(PromptOf(gs[p[1]])) + Member(gs, p).gen
           /\ \A n \in 1 .. Len(Own(gs, p)) : Own(gs, p)[n] = Token(gs[p[1]], n)
<1> DEFINE own == Own(gs, p)
           prompt == PromptOf(gs[p[1]])
           gen == Member(gs, p).gen
           words == [j \in 1 .. gen |-> Word]
<1>1. gen \in Nat /\ gs[p[1]] \in Groups BY MemberParts
<1>2. prompt \in Seq(Int) BY <1>1, GroupParts
<1>3. words \in Seq(Int) BY <1>1, Constants
<1>4. own = prompt \o words BY DEF Own
<1>5. \A n \in 1 .. gen : words[n] = Word OBVIOUS
<1>6. Len(words) = gen BY <1>1
<1> HIDE DEF words, prompt, gen, own
<1>7. /\ Len(own) = Len(prompt) + gen
      /\ \A n \in 1 .. Len(prompt) + gen : own[n] = IF n <= Len(prompt) THEN prompt[n] ELSE words[n - Len(prompt)]
  BY <1>2, <1>3, <1>4, <1>6, Concatenated
<1>8. \A n \in 1 .. Len(prompt) + gen : n <= Len(prompt) \/ n - Len(prompt) \in 1 .. gen
  BY <1>1, <1>2
<1>9. \A n \in 1 .. Len(own) : own[n] = IF n <= Len(prompt) THEN prompt[n] ELSE Word
  BY <1>5, <1>7, <1>8
<1> QED BY <1>7, <1>9 DEF Token, prompt, gen, own

\* What a member's slot is to hold depends only on this of its group.
SameGroup(g, h) ==
    /\ PromptOf(h) = PromptOf(g) /\ h.phase = g.phase /\ h.pos = g.pos /\ h.leader = g.leader
\* A member of a group like another holds in one place what it held in the other.
LEMMA HoldsAlike ==
    ASSUME NEW g, NEW h, NEW i, NEW pool, NEW room, SameGroup(g, h),
           h.ms[i].gen = g.ms[i].gen, h.ms[i].slot = g.ms[i].slot,
           room[g.ms[i].slot] = pool[g.ms[i].slot], MemberHolds(pool, g, i)
    PROVE  MemberHolds(room, h, i)
<1>1. Progress(h, i) BY DEF MemberHolds, Progress, SameGroup
<1>2. Span(h, i) = Span(g, i) BY DEF Span, SameGroup
<1>3. Carries(room[h.ms[i].slot], h) BY DEF MemberHolds, Carries, Token, SameGroup
<1>4. Len(room[h.ms[i].slot]) = Span(h, i) BY <1>2 DEF MemberHolds
<1> QED BY <1>1, <1>3, <1>4 DEF MemberHolds

\* A member that stays is one of the groups it was in, and each that stays has
\* its group still.
Home(gs, ps, hs, k) == Nth(LiveAt(EndIn(gs, ps)), k)
\* Each group that is still live, and where it was among the groups.
LEMMA Retired ==
    ASSUME NEW gs \in Seq(Groups), NEW ps, NEW hs, hs = StillLive(EndIn(gs, ps))
    PROVE  /\ hs \in Seq(Groups)
           /\ \A k, l \in DOMAIN hs : Home(gs, ps, hs, k) = Home(gs, ps, hs, l) => k = l
           /\ \A k \in DOMAIN hs :
                /\ Home(gs, ps, hs, k) \in DOMAIN gs
                /\ SameGroup(gs[Home(gs, ps, hs, k)], hs[k])
                /\ \A i : i \in On(hs[k]) <=>
                       i \in On(gs[Home(gs, ps, hs, k)]) /\ <<Home(gs, ps, hs, k), i>> \notin Range(ps)
                /\ \A i \in On(hs[k]) :
                     /\ hs[k].ms[i].slot = gs[Home(gs, ps, hs, k)].ms[i].slot
                     /\ hs[k].ms[i].gen = gs[Home(gs, ps, hs, k)].ms[i].gen
           /\ \A g \in DOMAIN gs : \A i \in On(gs[g]) :
                <<g, i>> \notin Range(ps) => \E k \in DOMAIN hs : Home(gs, ps, hs, k) = g
<1> DEFINE es == EndIn(gs, ps)
           K == LiveAt(es)
<1>1. /\ es \in Seq(Groups) /\ DOMAIN es = DOMAIN gs
      /\ \A g \in DOMAIN gs :
           /\ SameGroup(gs[g], es[g])
           /\ On(es[g]) = {i \in On(gs[g]) : <<g, i>> \notin Range(ps)}
           /\ \A i \in DOMAIN gs[g].ms :
                es[g].ms[i].slot = gs[g].ms[i].slot /\ es[g].ms[i].gen = gs[g].ms[i].gen
  BY EndInFits DEF SameGroup
<1>2. \A g \in DOMAIN gs : On(gs[g]) \subseteq DOMAIN gs[g].ms BY GroupParts
<1> HIDE DEF es
<1>3. /\ hs \in Seq(Groups)
      /\ \A k \in DOMAIN hs : Nth(K, k) \in K /\ hs[k] = es[Nth(K, k)]
      /\ \A g \in K : \E k \in DOMAIN hs : Nth(K, k) = g
      /\ \A k, l \in DOMAIN hs : k # l => Nth(K, k) # Nth(K, l) BY <1>1, StillLiveFits DEF es
<1>4. \A g : g \in K <=> g \in DOMAIN gs /\ On(es[g]) # {} BY <1>1 DEF LiveAt
<1>5. \A k : Home(gs, ps, hs, k) = Nth(K, k) BY DEF Home, es
<1> HIDE DEF K
<1>6. ASSUME NEW k \in DOMAIN hs, NEW g, g = Nth(K, k)
      PROVE  /\ g \in DOMAIN gs /\ SameGroup(gs[g], hs[k])
             /\ \A i : i \in On(hs[k]) <=> i \in On(gs[g]) /\ <<g, i>> \notin Range(ps)
             /\ \A i \in On(hs[k]) : hs[k].ms[i].slot = gs[g].ms[i].slot /\ hs[k].ms[i].gen = gs[g].ms[i].gen
  <2>1. g \in DOMAIN gs /\ hs[k] = es[g] BY <1>3, <1>4, <1>6
  <2> QED BY <1>1, <1>2, <2>1
<1>7. ASSUME NEW g \in DOMAIN gs, NEW i \in On(gs[g]), <<g, i>> \notin Range(ps)
      PROVE  \E k \in DOMAIN hs : Nth(K, k) = g
  <2>1. i \in On(es[g]) BY <1>1, <1>7
  <2> QED BY <1>3, <1>4, <2>1
<1>8. \A k, l \in DOMAIN hs : Home(gs, ps, hs, k) = Home(gs, ps, hs, l) => k = l BY <1>3, <1>5
<1>9. \A g \in DOMAIN gs : \A i \in On(gs[g]) :
        <<g, i>> \notin Range(ps) => \E k \in DOMAIN hs : Home(gs, ps, hs, k) = g BY <1>5, <1>7
<1> QED BY <1>3, <1>5, <1>6, <1>8, <1>9

\* Nodes with a slot of their own, one after the others or some of them.
LEMMA ApartJoin ==
    ASSUME NEW s \in Seq(NodeSet), NEW t \in Seq(NodeSet), Apart(s), Apart(t),
           \A i \in DOMAIN s : \A j \in DOMAIN t : s[i].slot # t[j].slot
    PROVE  /\ s \o t \in Seq(NodeSet) /\ Apart(s \o t)
           /\ \A d : d \in Range(s \o t) <=> d \in Range(s) \/ d \in Range(t)
<1> DEFINE u == s \o t
<1>1. /\ u \in Seq(NodeSet) /\ Len(u) = Len(s) + Len(t)
      /\ \A k \in 1 .. Len(s) + Len(t) : u[k] = IF k <= Len(s) THEN s[k] ELSE t[k - Len(s)]
  BY Concatenated, Zenon
<1>2. PICK m \in Nat, n \in Nat : m = Len(s) /\ n = Len(t) /\ DOMAIN s = 1 .. m /\ DOMAIN t = 1 .. n
  OBVIOUS
<1> HIDE DEF u
<1>3. DOMAIN u = 1 .. m + n BY <1>1, <1>2
<1>4. \A k \in 1 .. m + n : \/ k \in 1 .. m /\ u[k] = s[k]
                            \/ k - m \in 1 .. n /\ u[k] = t[k - m] BY <1>1, <1>2
<1>5. Apart(u)
  <2> SUFFICES ASSUME NEW i \in 1 .. m + n, NEW j \in 1 .. m + n, u[i].slot = u[j].slot PROVE i = j
    BY <1>3 DEF Apart
  <2>1. CASE i \in 1 .. m /\ u[i] = s[i] /\ j \in 1 .. m /\ u[j] = s[j] BY <1>2, <2>1 DEF Apart
  <2>2. CASE i - m \in 1 .. n /\ u[i] = t[i - m] /\ j - m \in 1 .. n /\ u[j] = t[j - m]
    <3>1. i - m = j - m BY <1>2, <2>2 DEF Apart
    <3> QED BY <3>1
  <2>3. ASSUME NEW x \in 1 .. m, NEW y \in 1 .. n, s[x].slot = t[y].slot PROVE FALSE BY <1>2, <2>3
  <2> QED BY <1>4, <2>1, <2>2, <2>3
<1>6. \A d : d \in Range(u) <=> d \in Range(s) \/ d \in Range(t)
  <2> TAKE d
  <2>1. ASSUME NEW k \in 1 .. m + n, u[k] = d PROVE d \in Range(s) \/ d \in Range(t)
    BY <1>2, <1>4, <2>1 DEF Range
  <2>2. ASSUME NEW k \in 1 .. m, s[k] = d PROVE d \in Range(u)
    <3>1. k \in 1 .. m + n /\ u[k] = s[k] BY <1>1, <1>2
    <3> QED BY <1>3, <2>2, <3>1 DEF Range
  <2>3. ASSUME NEW k \in 1 .. n, t[k] = d PROVE d \in Range(u)
    <3>1. m + k \in 1 .. m + n /\ u[m + k] = t[k]
      <4>1. m + k \in 1 .. m + n /\ ~(m + k <= m) /\ (m + k) - m = k OBVIOUS
      <4> QED BY <1>1, <1>2, <4>1
    <3> QED BY <1>3, <2>3, <3>1 DEF Range
  <2> QED BY <1>2, <1>3, <2>1, <2>2, <2>3 DEF Range
<1> QED BY <1>1, <1>5, <1>6 DEF u

\* Nodes that have a slot each still do where only some of them are kept.
LEMMA ApartKept ==
    ASSUME NEW s \in Seq(NodeSet), NEW K \in SUBSET (DOMAIN s), Apart(s)
    PROVE  Kept(s, K) \in Seq(NodeSet) /\ Apart(Kept(s, K))
<1> DEFINE t == Kept(s, K)
           n == Cardinality(K)
<1>1. /\ t \in Seq(NodeSet) /\ Len(t) = n
      /\ \A k \in 1 .. n : Nth(K, k) \in K /\ t[k] = s[Nth(K, k)]
      /\ \A k, l \in 1 .. n : k < l => Nth(K, k) < Nth(K, l) BY KeptFits, Zenon
<1>2. DOMAIN t = 1 .. n /\ n \in Nat /\ DOMAIN s \subseteq Nat
  <2> HIDE DEF t
  <2> QED BY <1>1
<1> HIDE DEF t, n
<1>3. Apart(t)
  <2> SUFFICES ASSUME NEW k \in 1 .. n, NEW l \in 1 .. n, t[k].slot = t[l].slot PROVE k = l
    BY <1>2 DEF Apart
  <2>1. Nth(K, k) = Nth(K, l) BY <1>1 DEF Apart
  <2>2. Nth(K, k) \in Nat /\ Nth(K, l) \in Nat BY <1>1, <1>2
  <2>3. ~(k < l) /\ ~(l < k) BY <1>1, <2>1, <2>2
  <2> QED BY <1>2, <2>3
<1> QED BY <1>1, <1>3 DEF t

\* Ending members leaves the slots of the others as they were.  A slot given up
\* becomes a node of what it holds, or is emptied.
LedAfter(gs, ps, g) == gs[g].phase = "prefill" =>
    \A i \in On(gs[g]) : <<g, i>> \notin Range(ps) =>
        gs[g].leader \in On(gs[g]) /\ <<g, gs[g].leader>> \notin Range(ps)
\* All that is held of the slots is held still once the members ps are ended.
LEMMA RetireHolds ==
    ASSUME NEW gs \in Seq(Groups), NEW pool \in PoolFn, NEW ps \in Seq(InGroups(gs)), Differ(ps),
           dormant \in Seq(NodeSet), Retire(gs, pool, ps),
           OneUser(gs), NodesHold(pool), Separate(pool, gs), \A g \in DOMAIN gs : LedAfter(gs, ps, g),
           \A p \in InGroups(gs) : p \notin Range(ps) => MemberHolds(pool, gs[p[1]], p[2]),
           \A k \in DOMAIN ps : Carries(pool[Member(gs, ps[k]).slot], gs[ps[k][1]]),
           InGroups(gs) # {} => key = CacheKey, UNCHANGED <<key, adapter, weights>>
    PROVE  OneUser(groups') /\ GroupsHold(kv, groups)' /\ NodesHold(kv)' /\ Separate(kv, groups)'
<1> DEFINE kept == BecomeNodes(gs, pool, ps)
           node(p) == [path |-> Path(gs, pool, p), slot |-> Member(gs, p).slot]
           nodes == [k \in DOMAIN ps |-> node(ps[k])]
           gone == {Member(gs, ps[k]).slot : k \in DOMAIN ps \ kept}
           hs == StillLive(EndIn(gs, ps))
           home(k) == Home(gs, ps, hs, k)
<1>1. groups' = hs /\ kv' = Clear(pool, gone) /\ dormant' = dormant \o Kept(nodes, kept)
  BY DEF Retire
<1>2. DOMAIN ps = 1 .. Len(ps) /\ Len(ps) \in Nat /\ \A k \in DOMAIN ps : ps[k] \in InGroups(gs)
  OBVIOUS
<1>3. /\ kept \in SUBSET (DOMAIN ps)
      /\ \A k \in kept : Resident(gs, pool, ps[k]) \in MinPrefix .. Len(Own(gs, ps[k]))
  BY DEF BecomeNodes
<1> HIDE DEF kept
<1>4. kv' \in PoolFn /\ \A s \in Pool : kv'[s] = IF s \in gone THEN <<>> ELSE pool[s]
  <2> HIDE DEF gone
  <2> QED BY <1>1, ClearFits DEF Clear
<1>5. \A s : s \in gone <=> \E k \in DOMAIN ps : k \notin kept /\ Member(gs, ps[k]).slot = s
  OBVIOUS
<1> HIDE DEF gone
<1>6. /\ \A p \in InGroups(gs) : /\ p[1] \in DOMAIN gs /\ p[2] \in On(gs[p[1]]) /\ p = <<p[1], p[2]>>
                                 /\ Member(gs, p) = gs[p[1]].ms[p[2]] /\ Member(gs, p).slot \in Pool
      /\ \A g \in DOMAIN gs : \A i \in On(gs[g]) :
           <<g, i>> \in InGroups(gs) /\ Member(gs, <<g, i>>) = gs[g].ms[i] BY InGroupsIs
<1>7. /\ hs \in Seq(Groups)
      /\ \A k, l \in DOMAIN hs : home(k) = home(l) => k = l
      /\ \A k \in DOMAIN hs :
           /\ home(k) \in DOMAIN gs /\ SameGroup(gs[home(k)], hs[k])
           /\ \A i : i \in On(hs[k]) <=> i \in On(gs[home(k)]) /\ <<home(k), i>> \notin Range(ps)
           /\ \A i \in On(hs[k]) : /\ hs[k].ms[i].slot = gs[home(k)].ms[i].slot
                                   /\ hs[k].ms[i].gen = gs[home(k)].ms[i].gen
      /\ \A g \in DOMAIN gs : \A i \in On(gs[g]) :
           <<g, i>> \notin Range(ps) => \E k \in DOMAIN hs : home(k) = g BY Retired
<1> HIDE DEF hs, home
<1>8. /\ \A q \in InGroups(hs) : /\ q[1] \in DOMAIN hs /\ q[2] \in On(hs[q[1]]) /\ q = <<q[1], q[2]>>
                                 /\ Member(hs, q) = hs[q[1]].ms[q[2]]
      /\ \A g \in DOMAIN hs : \A i \in On(hs[g]) :
           <<g, i>> \in InGroups(hs) /\ Member(hs, <<g, i>>) = hs[g].ms[i]
  BY <1>7, InGroupsIs
\* Each member that stays, where it was.
<1> DEFINE from(q) == <<home(q[1]), q[2]>>
<1>9. \A q \in InGroups(hs) : /\ from(q) \in InGroups(gs) /\ from(q) \notin Range(ps)
                              /\ Member(hs, q).slot = Member(gs, from(q)).slot
  <2> TAKE q \in InGroups(hs)
  <2>1. /\ q[1] \in DOMAIN hs /\ q[2] \in On(hs[q[1]])
        /\ Member(hs, q) = hs[q[1]].ms[q[2]] BY <1>8
  <2>2. /\ home(q[1]) \in DOMAIN gs /\ q[2] \in On(gs[home(q[1])])
        /\ <<home(q[1]), q[2]>> \notin Range(ps)
        /\ hs[q[1]].ms[q[2]].slot = gs[home(q[1])].ms[q[2]].slot BY <1>7, <2>1
  <2>3. /\ <<home(q[1]), q[2]>> \in InGroups(gs)
        /\ Member(gs, <<home(q[1]), q[2]>>) = gs[home(q[1])].ms[q[2]] BY <1>6, <2>2
  <2> QED BY <2>1, <2>2, <2>3
<1>10. \A p \in InGroups(gs) : p \notin Range(ps) =>
         \E q \in InGroups(hs) : Member(hs, q).slot = Member(gs, p).slot
  <2> TAKE p \in InGroups(gs)
  <2> HAVE p \notin Range(ps)
  <2>1. PICK k \in DOMAIN hs : home(k) = p[1] BY <1>6, <1>7
  <2>2. p[2] \in On(hs[k]) BY <1>6, <1>7, <2>1
  <2>3. <<k, p[2]>> \in InGroups(hs) /\ Member(hs, <<k, p[2]>>) = hs[k].ms[p[2]] BY <1>8, <2>2
  <2>4. Member(hs, <<k, p[2]>>).slot = Member(gs, p).slot
    <3>1. hs[k].ms[p[2]].slot = gs[home(k)].ms[p[2]].slot BY <1>7, <2>2
    <3> QED BY <1>6, <2>1, <2>3, <3>1
  <2> QED BY <2>3, <2>4
<1>11. OneUser(hs)
  <2> SUFFICES ASSUME NEW p \in InGroups(hs), NEW q \in InGroups(hs), Member(hs, p).slot = Member(hs, q).slot
               PROVE  p = q BY DEF OneUser
  <2>1. from(p) = from(q) BY <1>9 DEF OneUser
  <2>2. home(p[1]) = home(q[1]) /\ p[2] = q[2] BY <2>1
  <2>3. p[1] = q[1] BY <1>7, <1>8, <2>2
  <2> QED BY <1>8, <2>2, <2>3
\* A slot that is emptied is nobody's.
<1>12. \A p \in InGroups(gs) : p \notin Range(ps) => kv'[Member(gs, p).slot] = pool[Member(gs, p).slot]
  <2> TAKE p \in InGroups(gs)
  <2> HAVE p \notin Range(ps)
  <2>1. Member(gs, p).slot \notin gone
    <3> SUFFICES ASSUME NEW k \in DOMAIN ps, Member(gs, ps[k]).slot = Member(gs, p).slot PROVE FALSE
      BY <1>5
    <3>1. ps[k] = p BY <1>2 DEF OneUser
    <3> QED BY <3>1 DEF Range
  <2> QED BY <1>4, <1>6, <2>1
<1>13. GroupsHold(kv, groups)'
  <2>1. ASSUME NEW k \in DOMAIN hs, NEW i \in On(hs[k]) PROVE MemberHolds(kv, hs[k], i)'
    <3> DEFINE g == home(k)
    <3>1. <<g, i>> \in InGroups(gs) /\ <<g, i>> \notin Range(ps) /\ Member(gs, <<g, i>>) = gs[g].ms[i]
      BY <1>6, <1>7, <2>1
    <3>2. MemberHolds(pool, gs[g], i) /\ kv'[gs[g].ms[i].slot] = pool[gs[g].ms[i].slot]
      <4>1. MemberHolds(pool, gs[<<g, i>>[1]], <<g, i>>[2]) BY <3>1, Zenon
      <4> QED BY <1>12, <3>1, <4>1
    <3>3. SameGroup(gs[g], hs[k]) /\ hs[k].ms[i].gen = gs[g].ms[i].gen /\ hs[k].ms[i].slot = gs[g].ms[i].slot
      BY <1>7, <2>1
    <3> HIDE DEF g
    <3>4. MemberHolds(kv', hs[k], i) BY <3>2, <3>3, HoldsAlike
    <3> QED BY <3>4 DEF MemberHolds, Carries, Token, CacheKey
  <2>2. ASSUME NEW k \in DOMAIN hs PROVE Led(hs[k])
    <3>1. ASSUME hs[k].phase = "prefill" PROVE hs[k].leader \in On(hs[k])
      <4>1. LiveAt(EndIn(gs, ps)) \in SUBSET (DOMAIN EndIn(gs, ps)) /\ On(hs[k]) # {}
        <5>1. EndIn(gs, ps) \in Seq(Groups) BY EndInFits
        <5>2. Nth(LiveAt(EndIn(gs, ps)), k) \in LiveAt(EndIn(gs, ps)) /\ hs[k] = EndIn(gs, ps)[Nth(LiveAt(EndIn(gs, ps)), k)]
          BY <5>1, StillLiveFits DEF hs
        <5> QED BY <5>2 DEF LiveAt
      <4>2. PICK i \in On(hs[k]) : TRUE BY <4>1
      <4>3. /\ gs[home(k)].phase = "prefill" /\ gs[home(k)].leader = hs[k].leader
            /\ i \in On(gs[home(k)]) /\ <<home(k), i>> \notin Range(ps) /\ home(k) \in DOMAIN gs
        BY <1>7, <3>1, <4>2 DEF SameGroup
      <4>4. gs[home(k)].leader \in On(gs[home(k)]) /\ <<home(k), gs[home(k)].leader>> \notin Range(ps)
        BY <4>3 DEF LedAfter
      <4> QED BY <1>7, <4>3, <4>4
    <3> QED BY <3>1 DEF Led
  <2> QED BY <1>1, <2>1, <2>2 DEF GroupsHold, Led
\* The nodes that are new.
<1>14. /\ nodes \in [DOMAIN ps -> [path : {Path(gs, pool, ps[k]) : k \in DOMAIN ps}, slot : Pool]]
       /\ \A k \in DOMAIN ps : nodes[k].path = Path(gs, pool, ps[k]) /\ nodes[k].slot = Member(gs, ps[k]).slot
  BY <1>2, <1>6
<1>15. \A k \in kept : nodes[k] \in NodeSet /\ NodeHolds(pool, nodes[k])
  <2> TAKE k \in kept
  <2> DEFINE p == ps[k]
             s == Member(gs, p).slot
             own == Own(gs, p)
             prompt == PromptOf(gs[p[1]])
             gen == Member(gs, p).gen
  <2>1. p \in InGroups(gs) /\ k \in DOMAIN ps BY <1>2, <1>3
  <2>2. own \in Seq(Int) /\ s \in Pool /\ gen \in Nat /\ gs[p[1]] \in Groups BY <2>1, MemberParts
  <2>3. prompt \in Seq(Int) BY <2>2, GroupParts
  <2>4. \A n \in 1 .. Len(own) : own[n] = Token(gs[p[1]], n) BY <2>1, OwnIs
  <2>5. PICK m \in Nat : m = Len(pool[s]) /\ m <= Len(own) /\ pool[s] \in Seq(CellSet) /\ DOMAIN pool[s] = 1 .. m
    <3>1. pool[s] \in Seq(CellSet) BY <2>2 DEF PoolFn
    <3>2. Len(pool[s]) \in MinPrefix .. Len(own) /\ Len(own) \in Nat BY <1>3, <2>2 DEF Resident
    <3> QED BY <3>1, <3>2, Constants
  <2>6. SubSeq(own, 1, m) \in Seq(Int) /\ Len(SubSeq(own, 1, m)) = m /\ \A n \in 1 .. m : SubSeq(own, 1, m)[n] = own[n]
    <3> HIDE DEF own
    <3> QED BY <2>2, <2>5
  <2>7. nodes[k].path = SubSeq(own, 1, m) /\ nodes[k].slot = s
    BY <1>14, <2>1, <2>5 DEF Path, Resident
  <2>8. nodes[k] \in NodeSet
    <3>1. nodes[k] = [path |-> Path(gs, pool, p), slot |-> s] BY <2>1
    <3> QED BY <2>2, <2>6, <2>7, <3>1 DEF NodeSet
  <2>9. \A n \in 1 .. m : pool[s][n].tok = <<key, own[n]>>
    <3>1. Carries(pool[s], gs[p[1]]) BY <2>1
    <3>2. key = CacheKey BY <2>1
    <3>3. \A n \in 1 .. m : n \in 1 .. Len(own) BY <2>2, <2>5
    <3> HIDE DEF own, s
    <3> QED BY <2>4, <2>5, <3>1, <3>2, <3>3 DEF Carries
  <2> HIDE DEF nodes, own, s
  <2>10. NodeHolds(pool, nodes[k]) BY <2>5, <2>6, <2>7, <2>9 DEF NodeHolds
  <2> QED BY <2>8, <2>10
<1> HIDE DEF nodes
<1> DEFINE new == Kept(nodes, kept)
<1>16. /\ new \in Seq(NodeSet) /\ Apart(new)
       /\ \A d : d \in Range(new) <=> \E k \in kept : d = nodes[k]
  <2> DEFINE n == Cardinality(kept)
  <2>1. /\ \A j \in 1 .. n : Nth(kept, j) \in kept
        /\ \A i \in kept : Nth(kept, Rank(kept, i) + 1) = i
        /\ \A j, l \in 1 .. n : j < l => Nth(kept, j) < Nth(kept, l)
        /\ IsFiniteSet(kept) /\ n \in Nat
        /\ \A i \in kept : Rank(kept, i) + 1 \in 1 .. n
    <3>1. kept \in SUBSET (1 .. Len(ps)) BY <1>2, <1>3
    <3>2. /\ IsFiniteSet(kept) /\ Cardinality(kept) \in 0 .. Len(ps)
          /\ \A i \in kept : Rank(kept, i) \in 0 .. Cardinality(kept) - 1 BY <1>2, <3>1, RankFits
    <3>3. /\ \A j \in 1 .. n : Nth(kept, j) \in kept
          /\ \A i \in kept : Nth(kept, Rank(kept, i) + 1) = i
          /\ \A j, l \in 1 .. n : j < l => Nth(kept, j) < Nth(kept, l) BY <1>2, <3>1, NthFits
    <3> QED BY <1>2, <3>2, <3>3
  <2>2. new \in Seq(NodeSet) BY <1>2, <1>3, <1>15, KeptIn
  <2>3. DOMAIN new = 1 .. n /\ \A j \in 1 .. n : new[j] = nodes[Nth(kept, j)] BY DEF Kept
  <2> HIDE DEF new, n
  <2>4. Apart(new)
    <3> SUFFICES ASSUME NEW j \in 1 .. n, NEW l \in 1 .. n, new[j].slot = new[l].slot PROVE j = l
      BY <2>3 DEF Apart
    <3>1. Nth(kept, j) \in DOMAIN ps /\ Nth(kept, l) \in DOMAIN ps BY <1>3, <2>1
    <3>2. Member(gs, ps[Nth(kept, j)]).slot = Member(gs, ps[Nth(kept, l)]).slot
      BY <1>14, <2>3, <3>1
    <3>3. ps[Nth(kept, j)] = ps[Nth(kept, l)] BY <1>2, <3>1, <3>2 DEF OneUser
    <3>4. Nth(kept, j) = Nth(kept, l) BY <3>1, <3>3 DEF Differ
    <3>5. Nth(kept, j) \in Nat /\ Nth(kept, l) \in Nat BY <1>2, <3>1
    <3>6. ~(j < l) /\ ~(l < j) BY <2>1, <3>4, <3>5
    <3> QED BY <2>1, <3>6
  <2>5. \A d : d \in Range(new) <=> \E k \in kept : d = nodes[k]
    <3> TAKE d
    <3>1. ASSUME NEW j \in 1 .. n, new[j] = d PROVE \E k \in kept : d = nodes[k]
      BY <2>1, <2>3, <3>1
    <3>2. ASSUME NEW k \in kept, d = nodes[k] PROVE d \in Range(new)
      <4>1. Rank(kept, k) + 1 \in 1 .. n /\ Nth(kept, Rank(kept, k) + 1) = k BY <2>1
      <4>2. new[Rank(kept, k) + 1] = nodes[k] BY <2>3, <4>1
      <4> QED BY <2>3, <3>2, <4>1, <4>2 DEF Range
    <3> QED BY <2>3, <3>1, <3>2 DEF Range
  <2> QED BY <2>2, <2>4, <2>5
<1>17. \A k \in kept : nodes[k].slot \in Pool /\ nodes[k].slot = Member(gs, ps[k]).slot
                       /\ nodes[k].slot \notin DormantSlots /\ nodes[k].slot \notin gone
  <2> TAKE k \in kept
  <2>1. k \in DOMAIN ps /\ ps[k] \in InGroups(gs) /\ nodes[k].slot = Member(gs, ps[k]).slot /\ nodes[k].slot \in Pool
    BY <1>2, <1>3, <1>6, <1>14
  <2>2. nodes[k].slot \notin DormantSlots BY <2>1 DEF Separate, Used
  <2>3. nodes[k].slot \notin gone
    <3> SUFFICES ASSUME NEW l \in DOMAIN ps, l \notin kept, Member(gs, ps[l]).slot = Member(gs, ps[k]).slot PROVE FALSE
      BY <1>5, <2>1
    <3>1. ps[l] = ps[k] BY <1>2, <2>1 DEF OneUser
    <3>2. l = k BY <2>1, <3>1 DEF Differ
    <3> QED BY <3>2
  <2> QED BY <2>1, <2>2, <2>3
<1> HIDE DEF new
<1>18. \A d \in Range(dormant) : d.slot \in Pool /\ d.slot \in DormantSlots /\ d.slot \notin gone
  <2> TAKE d \in Range(dormant)
  <2>1. d \in NodeSet BY RangeFinite
  <2>2. d.slot \in DormantSlots BY DEF DormantSlots
  <2>3. d.slot \notin gone
    <3> SUFFICES ASSUME NEW k \in DOMAIN ps, Member(gs, ps[k]).slot = d.slot PROVE FALSE BY <1>5
    <3> QED BY <1>2, <1>6, <2>2 DEF Separate, Used
  <2> QED BY <2>1, <2>2, <2>3 DEF NodeSet
<1>19. \A s : s \in DormantSlots <=> \E d \in Range(dormant) : d.slot = s BY DEF DormantSlots
<1>20. /\ dormant \o new \in Seq(NodeSet) /\ Apart(dormant \o new)
       /\ \A d : d \in Range(dormant \o new) <=> d \in Range(dormant) \/ d \in Range(new)
  <2>1. ASSUME NEW i \in DOMAIN dormant, NEW j \in DOMAIN new PROVE dormant[i].slot # new[j].slot
    <3>1. dormant[i] \in Range(dormant) /\ new[j] \in Range(new) BY DEF Range
    <3>2. PICK k \in kept : new[j] = nodes[k] BY <1>16, <3>1
    <3> QED BY <1>17, <1>18, <3>1, <3>2
  <2>2. Apart(dormant) BY DEF NodesHold
  <2> QED BY <1>16, <2>1, <2>2, ApartJoin
<1>21. dormant' = dormant \o new BY <1>1 DEF new
<1>22. NodesHold(kv)'
  <2>1. ASSUME NEW d, d \in Range(dormant) \/ d \in Range(new) PROVE NodeHolds(kv, d)'
    <3>1. NodeHolds(pool, d) /\ d.slot \in Pool /\ d.slot \notin gone
      BY <1>15, <1>16, <1>17, <1>18, <2>1 DEF NodesHold
    <3>2. kv'[d.slot] = pool[d.slot] BY <1>4, <3>1
    <3> QED BY <3>1, <3>2 DEF NodeHolds
  <2>2. \A d \in Range(dormant') : NodeHolds(kv, d)' BY <1>20, <1>21, <2>1
  <2> QED BY <1>20, <1>21, <2>2 DEF NodesHold
<1>23. Separate(kv, groups)'
  <2>1. \A s : s \in DormantSlots' <=> s \in DormantSlots \/ \E k \in kept : nodes[k].slot = s
    <3> TAKE s
    <3>1. s \in DormantSlots' <=> \E d \in Range(dormant') : d.slot = s BY DEF DormantSlots
    <3>2. \A d : d \in Range(dormant') <=> d \in Range(dormant) \/ \E k \in kept : d = nodes[k]
      BY <1>16, <1>20, <1>21
    <3> QED BY <1>19, <3>1, <3>2
  <2>2. \A s : Used(groups', s) <=> \E p \in InGroups(gs) : p \notin Range(ps) /\ Member(gs, p).slot = s
    <3> TAKE s
    <3>1. ASSUME NEW q \in InGroups(hs), Member(hs, q).slot = s
          PROVE  \E p \in InGroups(gs) : p \notin Range(ps) /\ Member(gs, p).slot = s BY <1>9, <3>1
    <3>2. ASSUME NEW p \in InGroups(gs), p \notin Range(ps), Member(gs, p).slot = s
          PROVE  \E q \in InGroups(hs) : Member(hs, q).slot = s BY <1>10, <3>2
    <3> QED BY <1>1, <3>1, <3>2 DEF Used
  <2>3. ASSUME NEW s \in Pool, Used(groups', s), s \in DormantSlots' PROVE FALSE
    <3>1. PICK p \in InGroups(gs) : p \notin Range(ps) /\ Member(gs, p).slot = s BY <2>2, <2>3
    <3>2. CASE s \in DormantSlots BY <3>1, <3>2 DEF Separate, Used
    <3>3. ASSUME NEW k \in kept, nodes[k].slot = s PROVE FALSE
      <4>1. ps[k] = p /\ k \in DOMAIN ps BY <1>2, <1>3, <1>17, <3>1, <3>3 DEF OneUser
      <4> QED BY <3>1, <4>1 DEF Range
    <3> QED BY <2>1, <2>3, <3>2, <3>3
  <2>4. ASSUME NEW s \in Pool, ~Used(groups', s), s \notin DormantSlots' PROVE kv'[s] = <<>>
    <3>1. CASE s \in gone BY <1>4, <3>1
    <3>2. CASE s \notin gone
      <4>1. s \notin DormantSlots /\ ~Used(gs, s)
        <5>1. s \notin DormantSlots /\ \A k \in kept : nodes[k].slot # s BY <2>1, <2>4
        <5>2. ASSUME NEW p \in InGroups(gs), Member(gs, p).slot = s PROVE FALSE
          <6>1. p \in Range(ps) BY <2>2, <2>4, <5>2
          <6>2. PICK k \in DOMAIN ps : ps[k] = p BY <6>1 DEF Range
          <6>3. k \in kept BY <1>5, <3>2, <5>2, <6>2
          <6> QED BY <1>17, <5>1, <5>2, <6>2, <6>3
        <5> QED BY <5>1, <5>2 DEF Used
      <4>2. pool[s] = <<>> BY <4>1 DEF Separate
      <4> QED BY <1>4, <3>2, <4>2
    <3> QED BY <3>1, <3>2
  <2> QED BY <2>3, <2>4 DEF Separate
<1> QED BY <1>1, <1>11, <1>13, <1>22, <1>23

-----------------------------------------------------------------------------
\* Slots are emptied, of nodes that go or of groups that all go.
LEMMA EmptiedHolds ==
    ASSUME Types, SlotInv, NEW ss, \A s \in Pool : kv'[s] = IF s \in ss THEN <<>> ELSE kv[s],
           groups' = <<>> \/ (groups' = groups /\ UNCHANGED <<adapter, weights>>),
           dormant' = <<>> \/ (Range(dormant') \subseteq Range(dormant) /\ Apart(dormant') /\ key' = key),
           \A s \in Pool : /\ s \in ss => ~Used(groups', s) /\ s \notin DormantSlots'
                           /\ Used(groups, s) => Used(groups', s) \/ s \in ss
                           /\ s \in DormantSlots => s \in DormantSlots' \/ s \in ss,
           KeyFits'
    PROVE  SlotInv'
<1>1. /\ OneUser(groups) /\ GroupsHold(kv, groups) /\ NodesHold(kv) /\ Separate(kv, groups)
      /\ groups \in Seq(Groups) /\ dormant \in Seq(NodeSet)
  BY DEF SlotInv, Types, GroupTypes, TreeTypes
<1>2. \A q : q \in InGroups(groups') => q \in InGroups(groups) /\ groups' = groups BY DEF InGroups
<1>3. \A s : Used(groups', s) => Used(groups, s) /\ groups' = groups BY <1>2 DEF Used
<1>4. \A s : s \in DormantSlots' => s \in DormantSlots BY DEF DormantSlots, Range
<1>5. OneUser(groups') BY <1>1, <1>2 DEF OneUser, Member
<1>6. GroupsHold(kv, groups)'
  <2> SUFFICES ASSUME groups' = groups, UNCHANGED <<adapter, weights>>, NEW g \in DOMAIN groups
               PROVE  Led(groups[g]) /\ \A i \in On(groups[g]) : MemberHolds(kv, groups[g], i)'
    BY DEF GroupsHold, Led
  <2>1. Led(groups[g]) BY <1>1 DEF GroupsHold
  <2>2. ASSUME NEW i \in On(groups[g]) PROVE MemberHolds(kv, groups[g], i)'
    <3>1. <<g, i>> \in InGroups(groups) /\ Member(groups, <<g, i>>) = groups[g].ms[i]
      BY <1>1, InGroupsIs
    <3>2. Used(groups, groups[g].ms[i].slot) /\ groups[g].ms[i].slot \in Pool
      BY <1>1, <3>1, InGroupsIs DEF Used
    <3>3. kv'[groups[g].ms[i].slot] = kv[groups[g].ms[i].slot] BY <3>2
    <3>4. MemberHolds(kv, groups[g], i) BY <1>1 DEF GroupsHold
    <3> QED BY <3>3, <3>4 DEF MemberHolds, Progress, Carries, Span, Token, CacheKey
  <2> QED BY <2>1, <2>2
<1>7. NodesHold(kv)'
  <2>1. Apart(dormant') BY <1>1 DEF NodesHold, Apart
  <2>2. ASSUME NEW d \in Range(dormant') PROVE NodeHolds(kv, d)'
    <3>1. d \in Range(dormant) /\ key' = key BY DEF Range
    <3>2. d \in NodeSet /\ d.slot \in DormantSlots' /\ NodeHolds(kv, d)
      <4>1. d \in NodeSet BY <1>1, <3>1, RangeFinite
      <4> QED BY <1>1, <3>1, <4>1 DEF NodesHold, DormantSlots
    <3>3. kv'[d.slot] = kv[d.slot] BY <3>2 DEF NodeSet
    <3> QED BY <3>1, <3>2, <3>3 DEF NodeHolds
  <2> QED BY <2>1, <2>2 DEF NodesHold
<1>8. Separate(kv, groups)'
  <2>1. ASSUME NEW s \in Pool
        PROVE  ~(Used(groups', s) /\ s \in DormantSlots') /\ (Used(groups', s) \/ s \in DormantSlots' \/ kv'[s] = <<>>)
    <3>1. ~(Used(groups, s) /\ s \in DormantSlots) /\ (Used(groups, s) \/ s \in DormantSlots \/ kv[s] = <<>>)
      BY <1>1 DEF Separate
    <3> QED BY <1>3, <1>4, <3>1
  <2> QED BY <2>1 DEF Separate
<1> QED BY <1>5, <1>6, <1>7, <1>8 DEF SlotInv

\* The pool, the groups and the key stay, and the tree has the same nodes.
LEMMA StaysHolds ==
    ASSUME Types, SlotInv, UNCHANGED <<groups, kv, key>>, UNCHANGED <<adapter, weights>> \/ groups = <<>>,
           Range(dormant') = Range(dormant), Apart(dormant'), KeyFits'
    PROVE  SlotInv'
<1>1. \A s : s \in DormantSlots' <=> s \in DormantSlots BY DEF DormantSlots
<1>2. \A s \in Pool : kv'[s] = IF s \in {} THEN <<>> ELSE kv[s] OBVIOUS
<1> QED BY <1>1, <1>2, EmptiedHolds

\* Nothing of it changes.
LEMMA QuietHolds ==
    ASSUME Types, SlotInv, UNCHANGED <<groups, kv, key, dormant>>, UNCHANGED <<adapter, weights>> \/ groups = <<>>,
           KeyFits'
    PROVE  SlotInv'
<1>1. Apart(dormant') BY DEF SlotInv, NodesHold
<1> QED BY <1>1, StaysHolds

\* The first state holds nothing.
LEMMA InitSlots == ASSUME Init PROVE SlotInv
<1>1. groups = <<>> /\ dormant = <<>> /\ key = CacheKey /\ \A s \in Pool : kv[s] = <<>> BY DEF Init
<1>2. InGroups(groups) = {} /\ Range(dormant) = {} /\ DOMAIN groups = {} /\ DOMAIN dormant = {}
  BY <1>1 DEF InGroups, Range
<1> QED BY <1>1, <1>2
        DEF SlotInv, OneUser, GroupsHold, NodesHold, Apart, Separate, KeyFits, DormantSlots

\* The clients, the sweep, a pump without a step.
LEMMA CallersHold ==
    ASSUME Types, SlotInv,
           (\E r \in Requests : Submit(r) \/ Cancel(r)) \/ Update \/ Sweep \/ NoStep \/ EndSelection
    PROVE  SlotInv'
<1>1. /\ UNCHANGED <<groups, kv, key, dormant>>
      /\ UNCHANGED <<adapter, weights>> \/ (groups = <<>> /\ at' = "idle")
      /\ at' = at \/ at = "place" \/ at' \in {"idle", "remove"}
  <2>1. ASSUME NEW r \in Requests, Submit(r) \/ Cancel(r) PROVE UNCHANGED <<groups, kv, key, dormant, adapter, weights, at>>
    BY <2>1 DEF Submit, Cancel
  <2>2. CASE Update BY <2>2 DEF Update
  <2>3. CASE Sweep BY <2>3 DEF Sweep
  <2>4. CASE NoStep BY <2>4 DEF NoStep
  <2>5. CASE EndSelection BY <2>5 DEF EndSelection
  <2> QED BY <2>1, <2>2, <2>3, <2>4, <2>5
<1>2. KeyFits' BY <1>1 DEF SlotInv, KeyFits, CacheKey
<1> QED BY <1>1, <1>2, QuietHolds

\* A node makes room.
LEMMA EvictHolds == ASSUME Types, SlotInv, Evict PROVE SlotInv'
<1> DEFINE e == Head(Evictable)
<1>1. /\ kv' = Clear(kv, {e.slot}) /\ dormant' = Without(dormant, e) /\ Evictable # <<>>
      /\ UNCHANGED <<groups, at, key, adapter, weights>> BY DEF Evict
<1>2. dormant \in Seq(NodeSet) /\ Apart(dormant) /\ groups \in Seq(Groups) /\ Separate(kv, groups)
  BY DEF Types, TreeTypes, GroupTypes, SlotInv, NodesHold
<1>3. e \in Range(dormant)
  <2>1. /\ Evictable \in Seq(NodeSet)
        /\ Range(Evictable) = Range(dormant) \cap {d \in Range(dormant) : ~Pinned(d)}
    BY <1>2, SiftRange DEF Evictable
  <2>2. e \in Range(Evictable)
    <3> HIDE DEF Evictable
    <3>1. 1 \in DOMAIN Evictable /\ e = Evictable[1] BY <1>1, <2>1
    <3> QED BY <3>1 DEF Range
  <2> HIDE DEF e
  <2> QED BY <2>1, <2>2
<1> HIDE DEF e
<1>4. Range(dormant') = Range(dormant) \ {e} BY <1>1, <1>2, WithoutRange
<1>5. Apart(dormant')
  <2>1. {i \in DOMAIN dormant : dormant[i] # e} \in SUBSET (DOMAIN dormant) OBVIOUS
  <2> QED BY <1>1, <1>2, <2>1, ApartKept DEF Without
<1>6. \A d \in Range(dormant) : d.slot = e.slot => d = e BY <1>2, <1>3 DEF Apart, Range
<1>7. \A s : s \in DormantSlots' <=> s \in DormantSlots /\ s # e.slot
  BY <1>3, <1>4, <1>6 DEF DormantSlots
<1>8. e.slot \in DormantSlots BY <1>3 DEF DormantSlots
<1>9. \A s \in Pool : kv'[s] = IF s \in {e.slot} THEN <<>> ELSE kv[s] BY <1>1 DEF Clear
<1>10. \A s \in Pool : /\ s \in {e.slot} => ~Used(groups', s) /\ s \notin DormantSlots'
                       /\ Used(groups, s) => Used(groups', s) \/ s \in {e.slot}
                       /\ s \in DormantSlots => s \in DormantSlots' \/ s \in {e.slot}
  BY <1>1, <1>2, <1>7, <1>8 DEF Separate
<1>11. KeyFits' BY <1>1 DEF SlotInv, KeyFits, CacheKey
<1> QED BY <1>1, <1>4, <1>5, <1>9, <1>10, <1>11, EmptiedHolds

\* A node is renewed.
LEMMA SelectFrontHolds == ASSUME Types, SlotInv, SelectFront PROVE SlotInv'
<1> DEFINE r == Head(Candidates)
           node == Hit(Prompt[r]).node
<1>1. dormant' = Renewed(node) /\ FrontFits /\ UNCHANGED <<at, groups, kv, adapter, weights, key>>
  BY DEF SelectFront
<1>2. Prompt[r] \in Seq(Int) /\ Len(Prompt[r]) > 0 BY <1>1, FrontParts DEF FrontFits, MayPlace
<1>3. dormant \in Seq(NodeSet) /\ Apart(dormant) BY DEF Types, TreeTypes, SlotInv, NodesHold
<1>4. node = None \/ node \in Range(dormant)
  <2>1. Hit(Prompt[r]) = Cold \/ HitsNode(Prompt[r]) BY <1>2, <1>3, HitFits
  <2> QED BY <2>1 DEF Cold, HitsNode
<1> HIDE DEF node
<1>5. Range(dormant') = Range(dormant) /\ Apart(dormant') BY <1>1, <1>3, <1>4, RenewedFits
<1>6. KeyFits' BY <1>1 DEF SlotInv, KeyFits, CacheKey
<1> QED BY <1>1, <1>5, <1>6, StaysHolds

\* The tree is dropped under another key, which only no group lets happen.
LEMMA ChooseAdapterHolds == ASSUME Types, SlotInv, ChooseAdapter PROVE SlotInv'
<1>1. /\ key' = CacheKey' /\ UNCHANGED <<groups, weights>> /\ (groups # <<>> => adapter' = adapter)
      /\ IF CacheKey' = key THEN UNCHANGED <<kv, dormant>>
         ELSE dormant' = <<>> /\ kv' = Clear(kv, DormantSlots)
  <2> DEFINE possible == Sift(queue, {r \in Requests : ~Impossible(r)})
             target == IF groups = <<>> /\ possible # <<>> THEN Adapter[Head(possible)] ELSE adapter
             broken == target # adapter /\ target \in Broken
  <2>1. /\ adapter' = (IF broken THEN adapter ELSE target) /\ Refresh(<<adapter', weights>>)
        /\ UNCHANGED <<groups, weights>> BY DEF ChooseAdapter
  <2>2. <<adapter', weights>> = CacheKey' BY <2>1 DEF CacheKey
  <2>3. groups # <<>> => adapter' = adapter BY <2>1
  <2>4. Refresh(CacheKey') BY <2>1, <2>2
  <2> QED BY <2>1, <2>3, <2>4 DEF Refresh
<1>2. KeyFits' BY <1>1 DEF KeyFits
<1>3. groups \in Seq(Groups) /\ Separate(kv, groups) BY DEF Types, GroupTypes, SlotInv
<1>4. CASE CacheKey' = key
  <2>1. UNCHANGED <<groups, kv, key, dormant>> BY <1>1, <1>4
  <2>2. UNCHANGED <<adapter, weights>> \/ groups = <<>> BY <1>1
  <2> QED BY <1>2, <2>1, <2>2, QuietHolds
<1>5. CASE CacheKey' # key
  <2>1. groups = <<>> BY <1>1, <1>5 DEF SlotInv, KeyFits, CacheKey
  <2>2. dormant' = <<>> /\ groups' = <<>> /\ kv' = Clear(kv, DormantSlots) BY <1>1, <1>5, <2>1
  <2>3. InGroups(groups) = {} /\ DormantSlots' = {} /\ InGroups(groups') = {}
    BY <2>1, <2>2 DEF InGroups, DormantSlots, Range
  <2>4. \A s \in Pool : kv'[s] = IF s \in DormantSlots THEN <<>> ELSE kv[s] BY <2>2 DEF Clear
  <2>5. \A s \in Pool : /\ s \in DormantSlots => ~Used(groups', s) /\ s \notin DormantSlots'
                        /\ Used(groups, s) => Used(groups', s) \/ s \in DormantSlots
                        /\ s \in DormantSlots => s \in DormantSlots' \/ s \in DormantSlots
    BY <2>3 DEF Used
  <2> QED BY <1>2, <2>2, <2>4, <2>5, EmptiedHolds
<1> QED BY <1>4, <1>5

-----------------------------------------------------------------------------
\* A new group takes free slots, and the first holds what the tree had of its
\* prompt.
LEMMA PlaceHolds ==
    ASSUME Types, SlotInv, NEW rs, Placeable(rs), Place(rs), key = CacheKey,
           UNCHANGED <<key, adapter, weights>>
    PROVE  SlotInv'
<1> DEFINE new == Placed(rs)
           prompt == Prompt[rs[1]]
           hit == Hit(prompt)
           first == Nth(FreeSlots, 1)
           last == Len(groups) + 1
<1>1. /\ GroupTypes /\ groups \in Seq(Groups) /\ kv \in PoolFn /\ dormant \in Seq(NodeSet) /\ Apart(dormant)
      /\ OneUser(groups) /\ GroupsHold(kv, groups) /\ NodesHold(kv) /\ Separate(kv, groups)
  BY DEF Types, GroupTypes, TreeTypes, SlotInv, NodesHold
<1>2. groups' = Append(groups, new) /\ Range(dormant') = Range(dormant) /\ kv' \in PoolFn
  BY <1>1, PlaceStep
<1>3. /\ new \in Groups /\ On(new) = DOMAIN new.ms /\ PromptOf(new) = prompt /\ new.leader = 1
      /\ new.phase = "prefill" /\ new.pos = hit.len /\ new.ms = PlacedMs(rs)
  BY <1>1, PlacedFits DEF Placed
<1>4. /\ Len(new.ms) \in 1 .. Cardinality(FreeSlots) /\ DOMAIN new.ms = 1 .. Len(new.ms)
      /\ \A i \in DOMAIN new.ms : new.ms[i].slot = Nth(FreeSlots, i) /\ new.ms[i].gen = 0
  <2>1. \A i \in DOMAIN new.ms : new.ms[i].slot = Nth(FreeSlots, i) /\ new.ms[i].gen = 0
    <3>1. \A i \in DOMAIN PlacedMs(rs) : PlacedMs(rs)[i].slot = Nth(FreeSlots, i) /\ PlacedMs(rs)[i].gen = 0
      BY PlacedMembers, Zenon
    <3> HIDE DEF new
    <3> QED BY <1>3, <3>1
  <2>2. Len(new.ms) \in 1 .. Cardinality(FreeSlots) BY <1>3, PlacedMembers, Zenon
  <2> QED BY <1>3, <2>1, <2>2, GroupParts
<1>5. prompt \in Seq(Int) /\ Len(prompt) \in Nat /\ Len(prompt) > 0
  <2>1. rs[1] \in Requests BY DEF Placeable
  <2> QED BY <2>1, Constants
<1>6. /\ hit.len \in 0 .. Len(prompt) - 1 /\ (hit = Cold \/ HitsNode(prompt))
  BY <1>1, <1>5, HitFits
<1>7. /\ \A i \in 1 .. Len(new.ms) : Nth(FreeSlots, i) \in FreeSlots
      /\ \A i, j \in 1 .. Len(new.ms) : Nth(FreeSlots, i) = Nth(FreeSlots, j) => i = j
  <2>1. PICK c \in Nat : c = Cardinality(FreeSlots) BY FreeSlotsFinite, Constants
  <2>2. PICK m \in Nat : m = Len(new.ms) /\ m <= c BY <1>4, <2>1
  <2>3. /\ \A i \in 1 .. c : Nth(FreeSlots, i) \in FreeSlots
        /\ \A i, j \in 1 .. c : i < j => Nth(FreeSlots, i) < Nth(FreeSlots, j)
    BY <2>1, FreeSlotsFinite
  <2>4. ASSUME NEW i \in 1 .. m, NEW j \in 1 .. m, Nth(FreeSlots, i) = Nth(FreeSlots, j) PROVE i = j
    <3>1. i \in 1 .. c /\ j \in 1 .. c BY <2>2
    <3>2. Nth(FreeSlots, i) \in Int /\ Nth(FreeSlots, j) \in Int
      <4>1. FreeSlots \subseteq Int BY FreeSlotsFinite, Constants DEF Pool
      <4> QED BY <2>3, <3>1, <4>1
    <3>3. ~(i < j) /\ ~(j < i) BY <2>3, <2>4, <3>1, <3>2
    <3> QED BY <3>3
  <2>5. \A i \in 1 .. m : i \in 1 .. c BY <2>2
  <2> QED BY <2>2, <2>3, <2>4, <2>5
<1>8. \A s \in FreeSlots : s \in Pool /\ ~Used(groups, s) /\ s \notin DormantSlots /\ kv[s] = <<>>
  BY <1>1, UsedIs DEF FreeSlots, Separate
<1>9. first \in FreeSlots BY <1>4, <1>7
<1>10. /\ \A s \in Pool : s # first => kv'[s] = kv[s]
       /\ Len(kv'[first]) = hit.len
       /\ \A n \in DOMAIN kv'[first] : kv'[first][n].tok = <<key, prompt[n]>>
  <2>1. kv' = IF hit = Cold THEN kv ELSE Copy(kv, hit.node.slot, first, hit.len) BY DEF Place
  <2>2. CASE hit = Cold
    <3>1. hit.len = 0 /\ kv' = kv BY <2>1, <2>2 DEF Cold
    <3>2. kv'[first] = <<>> BY <1>8, <1>9, <3>1
    <3> QED BY <3>1, <3>2
  <2>3. CASE hit # Cold
    <3> DEFINE d == hit.node
               src == kv[d.slot]
    <3>1. /\ kv' = Copy(kv, d.slot, first, hit.len) /\ d \in Range(dormant)
          /\ hit.len \in 1 .. Len(prompt) - 1 /\ hit.len <= Len(d.path)
          /\ \A i \in 1 .. hit.len : d.path[i] = prompt[i] BY <1>6, <2>1, <2>3 DEF HitsNode
    <3>2. d \in NodeSet BY <1>1, <3>1, RangeFinite
    <3>3. d.slot \in Pool /\ Len(src) = Len(d.path) /\ \A n \in DOMAIN src : src[n].tok = <<key, d.path[n]>>
      BY <1>1, <3>1, <3>2 DEF NodesHold, NodeHolds, NodeSet
    <3>4. src \in Seq(CellSet) /\ first \in Pool BY <1>1, <1>8, <1>9, <3>3 DEF PoolFn
    <3> HIDE DEF d, first, hit, prompt
    <3>5. PICK n \in Nat : n = hit.len /\ n <= Len(src) BY <1>5, <3>1, <3>3
    <3>6. /\ \A s \in Pool : s # first => kv'[s] = kv[s]
          /\ kv'[first] = SubSeq(src, 1, n)
      <4>1. /\ \A s \in Pool \ {first} : Copy(kv, d.slot, first, n)[s] = kv[s]
            /\ n <= Len(src) => Copy(kv, d.slot, first, n)[first] = SubSeq(src, 1, n)
        BY <1>1, <3>3, <3>4, CopyFits
      <4> QED BY <3>1, <3>5, <4>1
    <3>7. /\ Len(SubSeq(src, 1, n)) = n /\ DOMAIN SubSeq(src, 1, n) = 1 .. n
          /\ \A k \in 1 .. n : SubSeq(src, 1, n)[k] = src[k] /\ k \in DOMAIN src
      <4> HIDE DEF src
      <4> QED BY <3>4, <3>5
    <3>8. \A k \in 1 .. n : src[k].tok = <<key, prompt[k]>>
      <4> HIDE DEF src
      <4> QED BY <3>1, <3>3, <3>5, <3>7
    <3> HIDE DEF src
    <3> QED BY <3>5, <3>6, <3>7, <3>8
  <2> QED BY <2>2, <2>3
<1> HIDE DEF new, prompt, hit, first
\* The groups there were, and the new one.
<1>11. /\ groups' \in Seq(Groups) /\ DOMAIN groups = 1 .. Len(groups) /\ Len(groups) \in Nat
       /\ DOMAIN groups' = 1 .. last /\ groups'[last] = new
       /\ \A g \in DOMAIN groups : groups'[g] = groups[g] BY <1>1, <1>2, <1>3
<1>12. \A g : g \in DOMAIN groups' <=> g \in DOMAIN groups \/ g = last BY <1>11
<1> HIDE DEF last
<1>13. /\ \A p \in InGroups(groups) : /\ p[1] \in DOMAIN groups /\ p[2] \in On(groups[p[1]]) /\ p = <<p[1], p[2]>>
                                      /\ Member(groups, p) = groups[p[1]].ms[p[2]]
                                      /\ Member(groups, p).slot \in Pool
       /\ \A g \in DOMAIN groups : \A i \in On(groups[g]) :
            <<g, i>> \in InGroups(groups) /\ Member(groups, <<g, i>>) = groups[g].ms[i]
  BY <1>1, InGroupsIs
<1>14. /\ \A p \in InGroups(groups') : /\ p[1] \in DOMAIN groups' /\ p[2] \in On(groups'[p[1]]) /\ p = <<p[1], p[2]>>
                                       /\ Member(groups', p) = groups'[p[1]].ms[p[2]]
       /\ \A g \in DOMAIN groups' : \A i \in On(groups'[g]) :
            <<g, i>> \in InGroups(groups') /\ Member(groups', <<g, i>>) = groups'[g].ms[i]
  BY <1>11, InGroupsIs
<1>15. \A p \in InGroups(groups') :
         \/ p \in InGroups(groups) /\ Member(groups', p) = Member(groups, p)
         \/ p[1] = last /\ p[2] \in 1 .. Len(new.ms) /\ Member(groups', p).slot = Nth(FreeSlots, p[2])
  <2> TAKE p \in InGroups(groups')
  <2>1. CASE p[1] \in DOMAIN groups BY <1>11, <1>13, <1>14, <2>1
  <2>2. CASE p[1] = last
    <3>1. p[2] \in DOMAIN new.ms /\ Member(groups', p) = new.ms[p[2]] BY <1>3, <1>11, <1>14, <2>2
    <3> QED BY <1>4, <2>2, <3>1
  <2> QED BY <1>12, <1>14, <2>1, <2>2
<1>16. \A p \in InGroups(groups) : p \in InGroups(groups') /\ Member(groups', p) = Member(groups, p)
                                   /\ Member(groups, p).slot \notin FreeSlots
  <2> TAKE p \in InGroups(groups)
  <2>1. p \in InGroups(groups') /\ Member(groups', p) = Member(groups, p)
    BY <1>11, <1>12, <1>13, <1>14
  <2>2. Used(groups, Member(groups, p).slot) BY DEF Used
  <2> QED BY <1>8, <2>1, <2>2
<1>17. OneUser(groups')
  <2> SUFFICES ASSUME NEW p \in InGroups(groups'), NEW q \in InGroups(groups'),
                      Member(groups', p).slot = Member(groups', q).slot
               PROVE  p = q BY DEF OneUser
  <2>1. CASE p \in InGroups(groups) /\ q \in InGroups(groups) BY <1>1, <1>16, <2>1 DEF OneUser
  <2>2. CASE p[1] = last /\ p[2] \in 1 .. Len(new.ms) /\ Member(groups', p).slot = Nth(FreeSlots, p[2])
             /\ q[1] = last /\ q[2] \in 1 .. Len(new.ms) /\ Member(groups', q).slot = Nth(FreeSlots, q[2])
    <3>1. p[2] = q[2] BY <1>7, <2>2
    <3> QED BY <1>14, <2>2, <3>1
  <2>3. ASSUME NEW x \in InGroups(groups), NEW y \in InGroups(groups'), y[2] \in 1 .. Len(new.ms),
               Member(groups', y).slot = Nth(FreeSlots, y[2]), Member(groups', x).slot = Member(groups', y).slot
        PROVE  FALSE
    <3>1. Member(groups', x).slot \in FreeSlots BY <1>7, <2>3
    <3> QED BY <1>16, <3>1
  <2> QED BY <1>15, <2>1, <2>2, <2>3
<1>18. GroupsHold(kv, groups)'
  <2>1. ASSUME NEW g \in DOMAIN groups
        PROVE  Led(groups[g]) /\ \A i \in On(groups[g]) : MemberHolds(kv, groups[g], i)'
    <3>1. ASSUME NEW i \in On(groups[g]) PROVE MemberHolds(kv, groups[g], i)'
      <4>1. MemberHolds(kv, groups[g], i) BY <1>1 DEF GroupsHold
      <4>2. groups[g].ms[i].slot \in Pool /\ groups[g].ms[i].slot # first
        <5>1. <<g, i>> \in InGroups(groups) /\ Member(groups, <<g, i>>) = groups[g].ms[i] BY <1>13
        <5>2. groups[g].ms[i].slot \in Pool /\ groups[g].ms[i].slot \notin FreeSlots
          BY <1>13, <1>16, <5>1
        <5> QED BY <1>9, <5>2
      <4>3. kv'[groups[g].ms[i].slot] = kv[groups[g].ms[i].slot] BY <1>10, <4>2
      <4>4. groups'[g] = groups[g] BY <1>11
      <4> QED BY <4>1, <4>3, <4>4 DEF MemberHolds, Progress, Carries, Span, Token, CacheKey
    <3> QED BY <1>1, <3>1 DEF GroupsHold
  <2>2. 1 \in On(new) BY <1>3, <1>4
  <2>3. Led(new) BY <1>3, <2>2 DEF Led
  <2>4. ASSUME NEW i \in On(new) PROVE MemberHolds(kv', new, i)
    <3>1. i \in 1 .. Len(new.ms) /\ new.ms[i].slot = Nth(FreeSlots, i) /\ new.ms[i].gen = 0
      BY <1>3, <1>4
    <3>2. Progress(new, i) /\ Span(new, i) = IF i = 1 THEN hit.len ELSE 0
      BY <1>3, <1>5, <1>6, <3>1 DEF Progress, Span
    <3>3. CASE i = 1
      <4>1. new.ms[i].slot = first BY <3>1, <3>3 DEF first
      <4>2. DOMAIN kv'[first] = 1 .. hit.len
        <5>1. kv'[first] \in Seq(CellSet) BY <1>2, <1>8, <1>9 DEF PoolFn
        <5> QED BY <1>10, <5>1
      <4>3. \A n \in 1 .. hit.len : Token(new, n) = prompt[n] BY <1>3, <1>5, <1>6 DEF Token
      <4>4. Carries(kv'[first], new) BY <1>10, <4>2, <4>3 DEF Carries
      <4> QED BY <1>10, <3>2, <3>3, <4>1, <4>4 DEF MemberHolds
    <3>4. CASE i # 1
      <4>1. new.ms[i].slot \in FreeSlots /\ new.ms[i].slot # first
        <5>1. Nth(FreeSlots, i) \in FreeSlots /\ 1 \in 1 .. Len(new.ms) BY <1>4, <1>7, <3>1
        <5> QED BY <1>7, <3>1, <3>4, <5>1 DEF first
      <4>2. kv'[new.ms[i].slot] = <<>> BY <1>8, <1>10, <4>1
      <4>3. Carries(kv'[new.ms[i].slot], new) BY <4>2 DEF Carries
      <4> QED BY <3>2, <3>4, <4>2, <4>3 DEF MemberHolds
    <3> QED BY <3>3, <3>4
  <2>5. ASSUME NEW g \in DOMAIN groups'
        PROVE  Led(groups'[g]) /\ \A i \in On(groups'[g]) : MemberHolds(kv', groups'[g], i)
    <3>1. CASE g \in DOMAIN groups BY <1>11, <2>1, <3>1 DEF MemberHolds, Carries, CacheKey
    <3>2. CASE g = last BY <1>11, <2>3, <2>4, <3>2
    <3> QED BY <1>12, <3>1, <3>2
  <2> QED BY <2>5 DEF GroupsHold, MemberHolds, Carries, CacheKey
<1>19. \A s : s \in DormantSlots' <=> s \in DormantSlots BY <1>2 DEF DormantSlots
<1>20. NodesHold(kv)'
  <2>1. Apart(dormant')
    <3>1. hit.node = None \/ hit.node \in Range(dormant) BY <1>6 DEF Cold, HitsNode, hit
    <3>2. dormant' = Renewed(hit.node) BY DEF Place, hit, prompt
    <3> QED BY <1>1, <3>1, <3>2, RenewedFits
  <2>2. ASSUME NEW d \in Range(dormant) PROVE NodeHolds(kv, d)'
    <3>1. NodeHolds(kv, d) /\ d \in NodeSet /\ d.slot \in DormantSlots
      <4>1. d \in NodeSet BY <1>1, RangeFinite
      <4> QED BY <1>1, <4>1 DEF NodesHold, DormantSlots
    <3>2. kv'[d.slot] = kv[d.slot] BY <1>8, <1>9, <1>10, <3>1 DEF NodeSet
    <3> QED BY <3>1, <3>2 DEF NodeHolds
  <2> QED BY <1>2, <2>1, <2>2 DEF NodesHold
<1>21. Separate(kv, groups)'
  <2>1. ASSUME NEW s \in Pool, Used(groups', s) PROVE s \notin DormantSlots
    <3>1. PICK p \in InGroups(groups') : Member(groups', p).slot = s BY <2>1 DEF Used
    <3>2. CASE p \in InGroups(groups) /\ Member(groups', p) = Member(groups, p)
      BY <1>1, <3>1, <3>2 DEF Separate, Used
    <3>3. CASE p[2] \in 1 .. Len(new.ms) /\ Member(groups', p).slot = Nth(FreeSlots, p[2])
      BY <1>7, <1>8, <3>1, <3>3
    <3> QED BY <1>15, <3>2, <3>3
  <2>2. ASSUME NEW s \in Pool, ~Used(groups', s), s \notin DormantSlots PROVE kv'[s] = <<>>
    <3>1. ~Used(groups, s)
      <4> SUFFICES ASSUME NEW p \in InGroups(groups), Member(groups, p).slot = s PROVE FALSE
        BY DEF Used
      <4> QED BY <1>16, <2>2 DEF Used
    <3>2. s # first
      <4> SUFFICES ASSUME s = first PROVE FALSE OBVIOUS
      <4>1. last \in DOMAIN groups' /\ 1 \in On(groups'[last]) BY <1>3, <1>4, <1>11, <1>12
      <4>2. <<last, 1>> \in InGroups(groups') /\ Member(groups', <<last, 1>>) = new.ms[1]
        BY <1>11, <1>14, <4>1
      <4>3. new.ms[1].slot = s BY <1>3, <1>4, <1>11, <4>1 DEF first
      <4> QED BY <2>2, <4>2, <4>3 DEF Used
    <3>3. kv[s] = <<>> BY <1>1, <2>2, <3>1 DEF Separate
    <3> QED BY <1>10, <3>2, <3>3
  <2> QED BY <1>19, <2>1, <2>2 DEF Separate
<1>22. KeyFits' BY DEF KeyFits, CacheKey
<1> QED BY <1>17, <1>18, <1>20, <1>21, <1>22 DEF SlotInv

\* A request is admitted, or some of the wave.
LEMMA AdmissionHolds == ASSUME Types, SlotInv, AdmitFront \/ PlaceWave PROVE SlotInv'
<1>1. key = CacheKey /\ UNCHANGED <<key, adapter, weights>>
  BY DEF AdmitFront, PlaceWave, FrontFits, MayPlace, SlotInv, KeyFits
<1>2. CASE AdmitFront
  <2>1. Place(<<Head(Candidates)>>) /\ Placeable(<<Head(Candidates)>>)
    BY <1>2, FrontPlaced DEF AdmitFront
  <2> QED BY <1>1, <2>1, PlaceHolds
<1>3. CASE PlaceWave
  <2>1. PICK rs : Placeable(rs) /\ Place(rs) BY <1>3, WaveParts
  <2> QED BY <1>1, <2>1, PlaceHolds
<1> QED BY <1>2, <1>3

-----------------------------------------------------------------------------
\* What a copy of whole slots leaves in one.
LEMMA CopyAllIs ==
    ASSUME NEW pool, NEW pairs, NEW s \in Pool
    PROVE  /\ (\A c \in pairs : c[2] # s) => CopyAll(pool, pairs)[s] = pool[s]
           /\ \A c \in pairs :
                c[2] = s /\ (\A d \in pairs : d[2] = s => d[1] = c[1]) => CopyAll(pool, pairs)[s] = pool[c[1]]
<1>1. CopyAll(pool, pairs)[s] =
        IF \E c \in pairs : c[2] = s THEN pool[(CHOOSE c \in pairs : c[2] = s)[1]] ELSE pool[s]
  BY DEF CopyAll
<1>2. ASSUME NEW c \in pairs, c[2] = s, \A d \in pairs : d[2] = s => d[1] = c[1]
      PROVE  CopyAll(pool, pairs)[s] = pool[c[1]]
  <2>1. /\ (CHOOSE d \in pairs : d[2] = s) \in pairs
        /\ (CHOOSE d \in pairs : d[2] = s)[2] = s BY <1>2
  <2> QED BY <1>1, <1>2, <2>1
<1> QED BY <1>1, <1>2

\* Copies between the slots of members leave the tree and the free slots alone.
LEMMA CopiesApart ==
    ASSUME NEW pairs, NEW gs, NodesHold(kv), Separate(kv, groups), dormant \in Seq(NodeSet),
           \A c \in pairs : Used(groups, c[2]), \A s : Used(gs, s) <=> Used(groups, s)
    PROVE  NodesHold(CopyAll(kv, pairs)) /\ Separate(CopyAll(kv, pairs), gs)
<1> DEFINE pool == CopyAll(kv, pairs)
<1>1. \A s \in Pool : ~Used(groups, s) => pool[s] = kv[s] BY CopyAllIs
<1> HIDE DEF pool
<1>2. Separate(pool, gs) BY <1>1 DEF Separate
<1>3. ASSUME NEW d \in Range(dormant) PROVE NodeHolds(pool, d)
  <2>1. d \in NodeSet /\ d.slot \in DormantSlots BY RangeFinite DEF DormantSlots
  <2>2. d.slot \in Pool /\ NodeHolds(kv, d) BY <2>1 DEF NodesHold, NodeSet
  <2>3. pool[d.slot] = kv[d.slot] BY <1>1, <2>1, <2>2 DEF Separate
  <2> QED BY <2>2, <2>3 DEF NodeHolds
<1>4. NodesHold(pool) BY <1>3 DEF NodesHold
<1> QED BY <1>2, <1>4 DEF pool

\* A group whose leader is cancelled follows a member that stays.
LEMMA HandedOverIs ==
    ASSUME GroupTypes
    PROVE  \A g \in DOMAIN groups :
             /\ HandedOver[g].ms = groups[g].ms /\ HandedOver[g].phase = groups[g].phase
             /\ HandedOver[g].pos = groups[g].pos /\ PromptOf(HandedOver[g]) = PromptOf(groups[g])
             /\ On(HandedOver[g]) = On(groups[g])
             /\ ~Inherits(groups[g]) => HandedOver[g] = groups[g]
             /\ Inherits(groups[g]) => HandedOver[g].leader \in Staying(groups[g], cancelled)
<1> SUFFICES ASSUME NEW g \in DOMAIN groups
             PROVE  /\ HandedOver[g].ms = groups[g].ms /\ HandedOver[g].phase = groups[g].phase
                    /\ HandedOver[g].pos = groups[g].pos
                    /\ ~Inherits(groups[g]) => HandedOver[g] = groups[g]
                    /\ Inherits(groups[g]) => HandedOver[g].leader \in Staying(groups[g], cancelled)
  BY DEF PromptOf, On
<1> DEFINE x == groups[g]
           S == Staying(x, cancelled)
           h == [x EXCEPT !.leader = Min(S)]
<1>1. x \in Groups BY DEF GroupTypes
<1>2. HandedOver[g] = IF Inherits(x) THEN h ELSE x BY DEF HandedOver
<1>3. CASE ~Inherits(x) BY <1>2, <1>3
<1>4. CASE Inherits(x)
  <2>1. x \in GroupSet /\ DOMAIN x.ms = 1 .. Len(x.ms) /\ Len(x.ms) \in 1 .. Slots /\ On(x) \subseteq DOMAIN x.ms
    BY <1>1, GroupParts
  <2>2. S \in SUBSET (0 .. Len(x.ms)) /\ S # {} BY <1>4, <2>1 DEF Inherits, Staying
  <2>3. Min(S) \in S
    <3> HIDE DEF S
    <3>1. Len(x.ms) \in Nat BY <2>1, Constants
    <3>2. IsFiniteSet(S) /\ S \in SUBSET Int BY <2>2, <3>1, BoundedFinite
    <3> QED BY <2>2, <3>2, MinFits
  <2>4. h.ms = x.ms /\ h.phase = x.phase /\ h.pos = x.pos /\ h.leader = Min(S) BY <2>1 DEF GroupSet
  <2> HIDE DEF h, S
  <2>5. HandedOver[g] = h BY <1>2, <1>4
  <2> QED BY <1>4, <2>3, <2>4, <2>5 DEF S
<1> QED BY <1>3, <1>4

\* What the slots hold once the prefixes are handed over.
Heir(g) == Inherits(groups[g]) /\ groups[g].pos > 0
HandPairs == {
    <<groups[g].ms[groups[g].leader].slot, HandedOver[g].ms[HandedOver[g].leader].slot>> :
    g \in {g \in DOMAIN groups : Inherits(groups[g]) /\ groups[g].pos > 0}}
\* The slot of the leader that takes over holds what the one before it held.
LEMMA HandOverIs ==
    ASSUME GroupTypes, OneUser(groups)
    PROVE  /\ HandOver = CopyAll(kv, HandPairs) /\ \A c \in HandPairs : Used(groups, c[2])
           /\ \A g \in DOMAIN groups : \A i \in On(groups[g]) :
                /\ Heir(g) /\ i = HandedOver[g].leader =>
                     HandOver[groups[g].ms[i].slot] = kv[groups[g].ms[groups[g].leader].slot]
                /\ ~(Heir(g) /\ i = HandedOver[g].leader) =>
                     HandOver[groups[g].ms[i].slot] = kv[groups[g].ms[i].slot]
<1> DEFINE lead(g) == groups[g].ms[groups[g].leader].slot
           heir(g) == HandedOver[g].leader
<1>1. HandOver = CopyAll(kv, HandPairs) BY DEF HandOver, HandPairs
<1>2. groups \in Seq(Groups) BY DEF GroupTypes
<1>3. /\ \A g \in DOMAIN groups : \A i \in On(groups[g]) :
           /\ <<g, i>> \in InGroups(groups) /\ Member(groups, <<g, i>>) = groups[g].ms[i]
           /\ groups[g].ms[i].slot \in Pool BY <1>2, InGroupsIs
<1>4. \A g \in DOMAIN groups : Heir(g) =>
        heir(g) \in On(groups[g]) /\ HandedOver[g].ms = groups[g].ms
  BY HandedOverIs DEF Heir, Staying
<1>5. \A c \in HandPairs : \E g \in DOMAIN groups :
         Heir(g) /\ c[1] = lead(g) /\ c[2] = groups[g].ms[heir(g)].slot
  <2>1. \A c \in HandPairs : \E g \in DOMAIN groups : Heir(g) /\ c = <<lead(g), HandedOver[g].ms[heir(g)].slot>>
    BY DEF HandPairs, Heir
  <2> HIDE DEF heir, lead
  <2> QED BY <1>4, <2>1
<1>6. \A g \in DOMAIN groups : Heir(g) => <<lead(g), groups[g].ms[heir(g)].slot>> \in HandPairs
  <2>1. \A g \in DOMAIN groups : Heir(g) => <<lead(g), HandedOver[g].ms[heir(g)].slot>> \in HandPairs
    BY DEF HandPairs, Heir
  <2> HIDE DEF heir, lead
  <2> QED BY <1>4, <2>1
<1> HIDE DEF heir, lead
<1>7. \A c \in HandPairs : Used(groups, c[2])
  <2> TAKE c \in HandPairs
  <2>1. PICK g \in DOMAIN groups : Heir(g) /\ c[2] = groups[g].ms[heir(g)].slot BY <1>5
  <2> QED BY <1>3, <1>4, <2>1 DEF Used
<1>8. ASSUME NEW g \in DOMAIN groups, NEW i \in On(groups[g]), NEW c \in HandPairs, c[2] = groups[g].ms[i].slot
      PROVE  Heir(g) /\ i = heir(g) /\ c[1] = lead(g)
  <2>1. PICK h \in DOMAIN groups : Heir(h) /\ c[1] = lead(h) /\ c[2] = groups[h].ms[heir(h)].slot
    BY <1>5
  <2>2. heir(h) \in On(groups[h]) BY <1>4, <2>1
  <2>3. <<h, heir(h)>> = <<g, i>>
    <3>1. <<h, heir(h)>> \in InGroups(groups) /\ Member(groups, <<h, heir(h)>>).slot = c[2]
      BY <1>3, <2>1, <2>2
    <3>2. <<g, i>> \in InGroups(groups) /\ Member(groups, <<g, i>>).slot = c[2] BY <1>3, <1>8
    <3> QED BY <3>1, <3>2 DEF OneUser
  <2>4. h = g /\ heir(h) = i BY <2>3
  <2> QED BY <2>1, <2>4
<1>9. ASSUME NEW g \in DOMAIN groups, NEW i \in On(groups[g]), Heir(g), i = heir(g)
      PROVE  HandOver[groups[g].ms[i].slot] = kv[lead(g)]
  <2> DEFINE c == <<lead(g), groups[g].ms[heir(g)].slot>>
  <2>1. c \in HandPairs /\ c[1] = lead(g) /\ c[2] = groups[g].ms[i].slot BY <1>6, <1>9
  <2>2. groups[g].ms[i].slot \in Pool BY <1>3
  <2>3. \A d \in HandPairs : d[2] = groups[g].ms[i].slot => d[1] = c[1] BY <1>8, <2>1
  <2> HIDE DEF c
  <2> QED BY <1>1, <2>1, <2>2, <2>3, CopyAllIs
<1>10. ASSUME NEW g \in DOMAIN groups, NEW i \in On(groups[g]), ~(Heir(g) /\ i = heir(g))
       PROVE  HandOver[groups[g].ms[i].slot] = kv[groups[g].ms[i].slot]
  <2>1. groups[g].ms[i].slot \in Pool /\ \A c \in HandPairs : c[2] # groups[g].ms[i].slot
    BY <1>3, <1>8, <1>10
  <2> QED BY <1>1, <2>1, CopyAllIs
<1> QED BY <1>1, <1>7, <1>9, <1>10 DEF heir, lead

\* The cancelled members end, and their prefix is not lost to the others.
LEMMA RemoveCancelledHolds == ASSUME ~Torn, Types, SlotInv, RemoveCancelled PROVE SlotInv'
<1> DEFINE Q == {p \in Members : Member(groups, p).req \in cancelled}
           ps == InOrder(Q)
           gs == HandedOver
           pool == HandOver
<1>1. /\ GroupTypes /\ groups \in Seq(Groups) /\ kv \in PoolFn /\ dormant \in Seq(NodeSet)
      /\ OneUser(groups) /\ GroupsHold(kv, groups) /\ NodesHold(kv) /\ Separate(kv, groups)
  BY DEF Types, GroupTypes, TreeTypes, SlotInv
<1>2. Retire(gs, pool, ps) /\ UNCHANGED <<key, adapter, weights>> /\ at = "remove" /\ at' \in {"step", "admit"}
  <2>1. PICK late \in {{}} :
          Retire(HandedOver, HandOver, InOrder({p \in Members : Member(groups, p).req \in cancelled \cup late}))
    BY DEF RemoveCancelled
  <2>2. cancelled \cup late = cancelled BY <2>1
  <2> QED BY <2>1, <2>2 DEF RemoveCancelled
<1>3. /\ gs \in Seq(Groups) /\ DOMAIN gs = DOMAIN groups /\ pool \in PoolFn
      /\ \A g \in DOMAIN groups : gs[g].ms = groups[g].ms
      /\ InGroups(gs) = InGroups(groups) BY <1>1, HandedOverFits, HandOverFits, SameOf
<1>4. ps \in Seq(InGroups(gs)) /\ Differ(ps) /\ Range(ps) = Q
  <2>1. Q \in SUBSET InGroups(groups) /\ Q \in SUBSET ((DOMAIN groups) \X Pool)
    BY DEF Members, InGroups
  <2>2. IsFiniteSet(Q) /\ Q \in SUBSET (Int \X Int)
    <3> HIDE DEF Q
    <3> QED BY <1>1, <2>1, PairsFinite
  <2> HIDE DEF Q, gs
  <2>3. ps \in Seq(Q) /\ DOMAIN ps = 1 .. Len(ps) /\ Differ(ps) /\ \A p \in Q : \E k \in DOMAIN ps : ps[k] = p
    BY <2>2, InOrderFits
  <2> HIDE DEF ps
  <2>4. Range(ps) = Q BY <2>3 DEF Range
  <2> QED BY <1>3, <2>1, <2>3, <2>4
<1>5. /\ \A p \in InGroups(groups) : /\ p[1] \in DOMAIN groups /\ p[2] \in On(groups[p[1]]) /\ p = <<p[1], p[2]>>
                                     /\ Member(groups, p) = groups[p[1]].ms[p[2]]
      /\ \A g \in DOMAIN groups : \A i \in On(groups[g]) :
           <<g, i>> \in InGroups(groups) /\ Member(groups, <<g, i>>) = groups[g].ms[i]
  BY <1>1, InGroupsIs
<1>6. \A p : p \in Q <=> p \in InGroups(groups) /\ Member(groups, p).req \in cancelled
  BY DEF Members, InGroups
<1> HIDE DEF ps, Q
<1>7. \A p \in InGroups(groups) : Member(gs, p) = Member(groups, p) BY <1>3, <1>5 DEF Member
<1>8. OneUser(gs) /\ \A s : Used(gs, s) <=> Used(groups, s) BY <1>1, <1>3, <1>7 DEF OneUser, Used
<1>9. /\ \A c \in HandPairs : Used(groups, c[2]) /\ pool = CopyAll(kv, HandPairs)
      /\ \A g \in DOMAIN groups : \A i \in On(groups[g]) :
           /\ Heir(g) /\ i = gs[g].leader =>
                pool[groups[g].ms[i].slot] = kv[groups[g].ms[groups[g].leader].slot]
           /\ ~(Heir(g) /\ i = gs[g].leader) =>
                pool[groups[g].ms[i].slot] = kv[groups[g].ms[i].slot] BY <1>1, HandOverIs
<1>10. NodesHold(pool) /\ Separate(pool, gs)
  <2>1. pool = CopyAll(kv, HandPairs) /\ \A c \in HandPairs : Used(groups, c[2])
    BY <1>1, HandOverIs
  <2> HIDE DEF pool, gs
  <2> QED BY <1>1, <1>8, <2>1, CopiesApart
<1>11. \A g \in DOMAIN groups :
         /\ gs[g].phase = groups[g].phase /\ gs[g].pos = groups[g].pos /\ PromptOf(gs[g]) = PromptOf(groups[g])
         /\ On(gs[g]) = On(groups[g])
         /\ ~Inherits(groups[g]) => gs[g] = groups[g]
         /\ Inherits(groups[g]) => gs[g].leader \in Staying(groups[g], cancelled)
  BY <1>1, HandedOverIs
<1> HIDE DEF gs, pool
<1>12. ASSUME NEW g \in DOMAIN groups, Inherits(groups[g])
       PROVE  /\ groups[g].phase = "prefill" /\ groups[g].leader \in On(groups[g])
              /\ MemberHolds(kv, groups[g], groups[g].leader)
              /\ groups[g].ms[groups[g].leader].req \in cancelled
              /\ groups[g].pos # Len(PromptOf(groups[g]))
  <2> DEFINE x == groups[g]
  <2>1. x.phase = "prefill" /\ x.ms[x.leader].req \in cancelled BY <1>12 DEF Inherits
  <2>2. x.leader \in On(x) BY <1>1, <2>1 DEF GroupsHold, Led
  <2>3. MemberHolds(kv, x, x.leader) BY <1>1, <2>2 DEF GroupsHold
  <2>4. PICK i \in On(x) : x.ms[i].req \notin cancelled BY <1>12 DEF Inherits, Staying
  <2>5. x \in Groups BY <1>1
  <2>6. /\ DOMAIN x.ms = 1 .. Len(x.ms) /\ On(x) \subseteq DOMAIN x.ms
        /\ PrefixEnd(x) = Len(PromptOf(x)) <=> Len(x.ms) = 1
        /\ PrefixEnd(x) <= Len(PromptOf(x)) /\ PrefixEnd(x) \in Nat /\ Len(PromptOf(x)) \in Nat
        /\ GroupFits(x) /\ x.pos \in Nat BY <2>5, GroupParts
  <2>7. x.pos <= PrefixEnd(x) BY <2>1, <2>6 DEF GroupFits, PosFits
  <2>8. i # x.leader /\ i \in DOMAIN x.ms /\ x.leader \in DOMAIN x.ms BY <2>1, <2>2, <2>4, <2>6
  <2>9. Len(x.ms) # 1
    <3> SUFFICES ASSUME Len(x.ms) = 1 PROVE FALSE OBVIOUS
    <3>1. DOMAIN x.ms = 1 .. 1 BY <2>6
    <3> QED BY <2>8, <3>1
  <2>10. x.pos # Len(PromptOf(x)) BY <2>6, <2>7, <2>9
  <2> QED BY <2>1, <2>2, <2>3, <2>10
\* The members that stay hold what they held, the heir what its leader did.
<1>13. ASSUME NEW p \in InGroups(gs), p \notin Range(ps) PROVE MemberHolds(pool, gs[p[1]], p[2])
  <2> DEFINE g == p[1]
             i == p[2]
             x == groups[g]
             y == gs[g]
  <2>1. g \in DOMAIN groups /\ i \in On(x) /\ x.ms[i].req \notin cancelled /\ MemberHolds(kv, x, i)
    BY <1>1, <1>3, <1>4, <1>5, <1>6, <1>13 DEF GroupsHold
  <2>2. y.ms = x.ms /\ y.phase = x.phase /\ y.pos = x.pos /\ PromptOf(y) = PromptOf(x)
    BY <1>3, <1>11, <2>1
  <2>3. CASE ~Inherits(x)
    <3>1. y = x /\ ~Heir(g) BY <1>11, <2>1, <2>3 DEF Heir
    <3>2. pool[x.ms[i].slot] = kv[x.ms[i].slot] BY <1>9, <2>1, <3>1
    <3> QED BY <2>1, <3>1, <3>2 DEF MemberHolds
  <2>4. CASE Inherits(x)
    <3>1. /\ x.phase = "prefill" /\ MemberHolds(kv, x, x.leader) /\ x.pos # Len(PromptOf(x))
          /\ x.ms[x.leader].req \in cancelled BY <1>12, <2>1, <2>4
    <3>2. i # x.leader BY <2>1, <3>1
    <3>3. Progress(x, i) /\ x.ms[i].gen = 0 BY <2>1, <3>1, <3>2 DEF MemberHolds, Progress
    <3>4. Progress(y, i) BY <2>2, <3>1, <3>3 DEF Progress
    <3>5. Len(kv[x.ms[i].slot]) = 0 /\ Carries(kv[x.ms[i].slot], x)
      BY <2>1, <3>1, <3>2 DEF MemberHolds, Span
    <3>6. Len(kv[x.ms[x.leader].slot]) = x.pos /\ Carries(kv[x.ms[x.leader].slot], x)
      BY <3>1 DEF MemberHolds, Span
    <3>7. Span(y, i) = IF i = y.leader THEN x.pos ELSE 0 BY <2>2, <3>1 DEF Span
    <3>8. x.pos \in Nat BY <1>1, <2>1, GroupParts
    <3>9. CASE i = y.leader /\ x.pos > 0
      <4>1. pool[x.ms[i].slot] = kv[x.ms[x.leader].slot] BY <1>9, <2>1, <2>4, <3>9 DEF Heir
      <4>2. Carries(pool[y.ms[i].slot], y) BY <2>2, <3>6, <4>1 DEF Carries, Token
      <4> QED BY <2>2, <3>4, <3>6, <3>7, <3>9, <4>1, <4>2 DEF MemberHolds
    <3>10. CASE ~(i = y.leader /\ x.pos > 0)
      <4>1. pool[x.ms[i].slot] = kv[x.ms[i].slot] BY <1>9, <2>1, <3>10 DEF Heir
      <4>2. Carries(pool[y.ms[i].slot], y) BY <2>2, <3>5, <4>1 DEF Carries, Token
      <4>3. Span(y, i) = 0 BY <3>7, <3>8, <3>10
      <4> QED BY <2>2, <3>4, <3>5, <4>1, <4>2, <4>3 DEF MemberHolds
    <3> QED BY <3>9, <3>10
  <2> QED BY <2>3, <2>4
<1>14. ASSUME NEW k \in DOMAIN ps PROVE Carries(pool[Member(gs, ps[k]).slot], gs[ps[k][1]])
  <2> DEFINE p == ps[k]
             x == groups[p[1]]
  <2>1. p \in Range(ps) BY DEF Range
  <2>2. p \in InGroups(groups) /\ Member(groups, p).req \in cancelled BY <1>4, <1>6, <2>1
  <2>3. p[1] \in DOMAIN groups /\ p[2] \in On(x) /\ Member(gs, p) = x.ms[p[2]] /\ MemberHolds(kv, x, p[2])
        /\ x.ms[p[2]].req \in cancelled BY <1>1, <1>5, <1>7, <2>2 DEF GroupsHold
  <2>4. ~(Heir(p[1]) /\ p[2] = gs[p[1]].leader) BY <1>11, <2>3 DEF Heir, Staying
  <2>5. pool[x.ms[p[2]].slot] = kv[x.ms[p[2]].slot] BY <1>9, <2>3, <2>4
  <2>6. Carries(kv[x.ms[p[2]].slot], x) /\ PromptOf(gs[p[1]]) = PromptOf(x)
    BY <1>11, <2>3 DEF MemberHolds
  <2> QED BY <2>3, <2>5, <2>6 DEF Carries, Token
<1>15. ASSUME NEW g \in DOMAIN gs PROVE LedAfter(gs, ps, g)
  <2> SUFFICES ASSUME groups[g].phase = "prefill", NEW i \in On(groups[g]), <<g, i>> \notin Range(ps)
               PROVE  gs[g].leader \in On(groups[g]) /\ <<g, gs[g].leader>> \notin Range(ps)
    BY <1>3, <1>11 DEF LedAfter
  <2>1. \A j \in On(groups[g]) : <<g, j>> \in Range(ps) <=> groups[g].ms[j].req \in cancelled
    BY <1>3, <1>4, <1>5, <1>6
  <2>2. CASE Inherits(groups[g]) BY <1>3, <1>11, <2>1, <2>2 DEF Staying
  <2>3. CASE ~Inherits(groups[g])
    <3>1. gs[g] = groups[g] /\ groups[g].leader \in On(groups[g])
      BY <1>1, <1>3, <1>11, <2>3 DEF GroupsHold, Led
    <3>2. i \in Staying(groups[g], cancelled) BY <2>1 DEF Staying
    <3> QED BY <2>1, <2>3, <3>1, <3>2 DEF Inherits
  <2> QED BY <2>2, <2>3
<1>16. InGroups(gs) # {} => key = CacheKey
  <2>1. InGroups(groups) # {} => groups # <<>> BY DEF InGroups
  <2> QED BY <1>3, <2>1 DEF SlotInv, KeyFits
<1>17. OneUser(groups') /\ GroupsHold(kv, groups)' /\ NodesHold(kv)' /\ Separate(kv, groups)'
  BY <1>1, <1>2, <1>3, <1>4, <1>8, <1>10, <1>13, <1>14, <1>15, <1>16, RetireHolds
<1>18. KeyFits'
  <2> SUFFICES ASSUME groups' # <<>> PROVE key = CacheKey BY <1>2 DEF KeyFits, CacheKey
  <2>1. groups # <<>>
    <3> SUFFICES ASSUME groups = <<>> PROVE FALSE OBVIOUS
    <3>1. groups' = StillLive(EndIn(gs, ps)) /\ DOMAIN gs = {} BY <1>2, <1>3 DEF Retire
    <3>2. groups' \in Seq(Groups) /\ \A k \in DOMAIN groups' : Home(gs, ps, groups', k) \in DOMAIN gs
      BY <1>3, <3>1, Retired
    <3> QED BY <3>1, <3>2
  <2> QED BY <2>1 DEF SlotInv, KeyFits
<1> QED BY <1>17, <1>18 DEF SlotInv

-----------------------------------------------------------------------------
\* How a group is moved on before a step.
LEMMA AdvancedIs ==
    ASSUME NEW x \in Groups
    PROVE  LET h == Advanced(x) IN
           \/ Prefilled(x) /\ Len(x.ms) > 1 /\ h.phase = "terminal" /\ h.pos = 1
           \/ Prefilled(x) /\ Len(x.ms) = 1 /\ h.phase = "decode" /\ h.pos = x.pos
           \/ x.phase = "terminal" /\ (\A i \in On(x) : i < x.pos) /\ h.phase = "decode" /\ h.pos = x.pos
           \/ ~Prefilled(x) /\ h = x
<1>1. x \in GroupSet /\ Len(x.ms) \in 1 .. Slots /\ Slots \in Nat BY GroupParts, Constants
<1>2. CASE Prefilled(x) /\ Len(x.ms) > 1
  <2>1. Advanced(x) = [x EXCEPT !.phase = "terminal", !.pos = 1]
    <3>1. Len(x.ms) # 1 /\ x.phase # "terminal"
      <4>1. PICK n \in Nat : n = Len(x.ms) BY <1>1
      <4>2. n > 1 => n # 1 OBVIOUS
      <4> QED BY <1>2, <4>1, <4>2 DEF Prefilled
    <3> QED BY <1>2, <3>1 DEF Advanced
  <2>2. [x EXCEPT !.phase = "terminal", !.pos = 1].phase = "terminal"
        /\ [x EXCEPT !.phase = "terminal", !.pos = 1].pos = 1 BY <1>1 DEF GroupSet
  <2> QED BY <1>2, <2>1, <2>2
<1>3. CASE Prefilled(x) /\ Len(x.ms) = 1
  <2>1. Advanced(x) = [x EXCEPT !.phase = "decode"] BY <1>3 DEF Advanced, Prefilled
  <2>2. [x EXCEPT !.phase = "decode"].phase = "decode" /\ [x EXCEPT !.phase = "decode"].pos = x.pos
    BY <1>1 DEF GroupSet
  <2> QED BY <1>3, <2>1, <2>2
<1>4. CASE x.phase = "terminal" /\ \A i \in On(x) : i < x.pos
  <2>1. Advanced(x) = [x EXCEPT !.phase = "decode"] BY <1>4 DEF Advanced, Prefilled
  <2>2. [x EXCEPT !.phase = "decode"].phase = "decode" /\ [x EXCEPT !.phase = "decode"].pos = x.pos
    BY <1>1 DEF GroupSet
  <2> QED BY <1>4, <2>1, <2>2
<1>5. CASE ~Prefilled(x) /\ ~(x.phase = "terminal" /\ \A i \in On(x) : i < x.pos)
  <2>1. Advanced(x) = x BY <1>5 DEF Advanced
  <2> QED BY <1>5, <2>1
<1>6. Len(x.ms) > 1 \/ Len(x.ms) = 1
  <2>1. PICK n \in Nat : n = Len(x.ms) /\ n > 0 BY <1>1
  <2>2. \A k \in Nat : k > 0 => k > 1 \/ k = 1 OBVIOUS
  <2>3. n > 1 \/ n = 1 BY <2>1, <2>2, Zenon
  <2> QED BY <2>1, <2>3
<1> QED BY <1>2, <1>3, <1>4, <1>5, <1>6

\* What the slots hold once the prefixes are copied.
ReadyPairs == {<<groups[p[1]].ms[groups[p[1]].leader].slot, Member(groups, p).slot>> :
    p \in {p \in Members : Prefilled(groups[p[1]])}}
\* Where a prefix is complete, the slot of each member holds it.
LEMMA ReadyPoolIs ==
    ASSUME GroupTypes, OneUser(groups)
    PROVE  /\ ReadyPool = CopyAll(kv, ReadyPairs) /\ \A c \in ReadyPairs : Used(groups, c[2])
           /\ \A g \in DOMAIN groups : \A i \in On(groups[g]) :
                ReadyPool[groups[g].ms[i].slot] =
                    IF Prefilled(groups[g]) THEN kv[groups[g].ms[groups[g].leader].slot]
                    ELSE kv[groups[g].ms[i].slot]
<1> DEFINE lead(g) == groups[g].ms[groups[g].leader].slot
<1>1. ReadyPool = CopyAll(kv, ReadyPairs) BY DEF ReadyPool, ReadyPairs
<1>2. groups \in Seq(Groups) /\ Members = InGroups(groups) BY DEF GroupTypes, Members, InGroups
<1>3. /\ \A g \in DOMAIN groups : \A i \in On(groups[g]) :
           /\ <<g, i>> \in InGroups(groups) /\ Member(groups, <<g, i>>) = groups[g].ms[i]
           /\ groups[g].ms[i].slot \in Pool BY <1>2, InGroupsIs
<1>4. \A c \in ReadyPairs : \E p \in InGroups(groups) :
         Prefilled(groups[p[1]]) /\ c[1] = lead(p[1]) /\ c[2] = Member(groups, p).slot
  BY <1>2 DEF ReadyPairs
<1>5. \A p \in InGroups(groups) : Prefilled(groups[p[1]]) => <<lead(p[1]), Member(groups, p).slot>> \in ReadyPairs
  BY <1>2 DEF ReadyPairs
<1> HIDE DEF lead
<1>6. \A c \in ReadyPairs : Used(groups, c[2]) BY <1>4 DEF Used
<1>7. ASSUME NEW g \in DOMAIN groups, NEW i \in On(groups[g]), NEW c \in ReadyPairs, c[2] = groups[g].ms[i].slot
      PROVE  Prefilled(groups[g]) /\ c[1] = lead(g)
  <2>1. PICK p \in InGroups(groups) : Prefilled(groups[p[1]]) /\ c[1] = lead(p[1]) /\ c[2] = Member(groups, p).slot
    BY <1>4
  <2>2. <<g, i>> \in InGroups(groups) /\ Member(groups, <<g, i>>).slot = c[2] BY <1>3, <1>7
  <2>3. p = <<g, i>> BY <2>1, <2>2 DEF OneUser
  <2>4. p[1] = g BY <2>3
  <2> QED BY <2>1, <2>4
<1>8. ASSUME NEW g \in DOMAIN groups, NEW i \in On(groups[g]), Prefilled(groups[g])
      PROVE  ReadyPool[groups[g].ms[i].slot] = kv[lead(g)]
  <2> DEFINE c == <<lead(g), groups[g].ms[i].slot>>
  <2>1. c \in ReadyPairs
    <3>1. <<g, i>>[1] = g /\ <<g, i>> \in InGroups(groups) /\ Member(groups, <<g, i>>) = groups[g].ms[i]
      BY <1>3
    <3> QED BY <1>5, <1>8, <3>1
  <2>2. c[1] = lead(g) /\ c[2] = groups[g].ms[i].slot OBVIOUS
  <2>3. groups[g].ms[i].slot \in Pool BY <1>3
  <2>4. \A d \in ReadyPairs : d[2] = groups[g].ms[i].slot => d[1] = c[1] BY <1>7, <2>2
  <2> HIDE DEF c
  <2> QED BY <1>1, <2>1, <2>2, <2>3, <2>4, CopyAllIs
<1>9. ASSUME NEW g \in DOMAIN groups, NEW i \in On(groups[g]), ~Prefilled(groups[g])
      PROVE  ReadyPool[groups[g].ms[i].slot] = kv[groups[g].ms[i].slot]
  <2>1. groups[g].ms[i].slot \in Pool /\ \A c \in ReadyPairs : c[2] # groups[g].ms[i].slot
    BY <1>3, <1>7, <1>9
  <2> QED BY <1>1, <2>1, CopyAllIs
<1> QED BY <1>1, <1>6, <1>8, <1>9 DEF lead

\* Made ready, the slots hold what the phases say.
LEMMA ReadyHolds ==
    ASSUME GroupTypes, dormant \in Seq(NodeSet),
           OneUser(groups), GroupsHold(kv, groups), NodesHold(kv), Separate(kv, groups)
    PROVE  /\ OneUser(Ready) /\ GroupsHold(ReadyPool, Ready) /\ NodesHold(ReadyPool) /\ Separate(ReadyPool, Ready)
           /\ \A g \in DOMAIN Ready : Ready[g].phase = "prefill" => Ready[g].pos < PrefixEnd(Ready[g])
<1> DEFINE gs == Ready
           pool == ReadyPool
<1>1. /\ gs \in Seq(Groups) /\ DOMAIN gs = DOMAIN groups /\ InGroups(gs) = InGroups(groups)
      /\ \A g \in DOMAIN groups : /\ gs[g] = Advanced(groups[g]) /\ gs[g].ms = groups[g].ms
                                  /\ On(gs[g]) = On(groups[g]) /\ PromptOf(gs[g]) = PromptOf(groups[g])
  BY ReadyFits, SameOf
<1>2. groups \in Seq(Groups) BY DEF GroupTypes
<1>3. \A p \in InGroups(groups) : Member(gs, p) = Member(groups, p)
  BY <1>1, <1>2, InGroupsIs DEF Member
<1>4. OneUser(gs) /\ \A s : Used(gs, s) <=> Used(groups, s) BY <1>1, <1>3 DEF OneUser, Used
<1>5. /\ pool = CopyAll(kv, ReadyPairs) /\ \A c \in ReadyPairs : Used(groups, c[2])
      /\ \A g \in DOMAIN groups : \A i \in On(groups[g]) :
           pool[groups[g].ms[i].slot] =
               IF Prefilled(groups[g]) THEN kv[groups[g].ms[groups[g].leader].slot]
               ELSE kv[groups[g].ms[i].slot] BY ReadyPoolIs
<1> HIDE DEF gs, pool
<1>6. NodesHold(pool) /\ Separate(pool, gs) BY <1>4, <1>5, CopiesApart
<1>7. ASSUME NEW g \in DOMAIN groups
      PROVE  /\ Led(gs[g]) /\ \A i \in On(gs[g]) : MemberHolds(pool, gs[g], i)
             /\ gs[g].phase = "prefill" => gs[g].pos < PrefixEnd(gs[g])
  <2> DEFINE x == groups[g]
             y == gs[g]
             last == Len(PromptOf(x))
  <2>1. /\ x \in Groups /\ Led(x) /\ y.ms = x.ms /\ On(y) = On(x) /\ PromptOf(y) = PromptOf(x)
        /\ \A i \in On(x) : MemberHolds(kv, x, i) BY <1>1, <1>2 DEF GroupsHold
  <2>2. /\ x.pos \in Nat /\ last \in Nat /\ PrefixEnd(x) \in Nat /\ On(x) \subseteq DOMAIN x.ms
        /\ DOMAIN x.ms = 1 .. Len(x.ms) /\ GroupFits(x)
        /\ (PrefixEnd(x) = last) <=> (Len(x.ms) = 1)
        /\ Len(x.ms) > 1 => PrefixEnd(x) = last - 1
        /\ \A i \in DOMAIN x.ms : x.ms[i].gen \in Nat BY <2>1, GroupParts
  <2>3. \/ Prefilled(x) /\ Len(x.ms) > 1 /\ y.phase = "terminal" /\ y.pos = 1
        \/ Prefilled(x) /\ Len(x.ms) = 1 /\ y.phase = "decode" /\ y.pos = x.pos
        \/ x.phase = "terminal" /\ (\A i \in On(x) : i < x.pos) /\ y.phase = "decode" /\ y.pos = x.pos
        \/ ~Prefilled(x) /\ y = x BY <1>1, <2>1, AdvancedIs
  <2>4. \A i \in On(x) : pool[x.ms[i].slot] =
               IF Prefilled(x) THEN kv[x.ms[x.leader].slot] ELSE kv[x.ms[i].slot] BY <1>5
  <2>5. Prefilled(x) => /\ x.phase = "prefill" /\ x.pos = PrefixEnd(x) /\ x.leader \in On(x)
                        /\ Len(kv[x.ms[x.leader].slot]) = x.pos /\ Carries(kv[x.ms[x.leader].slot], x)
    BY <2>1 DEF Prefilled, Led, MemberHolds, Span
  <2> HIDE DEF x, y, last
  <2>6. \A i \in On(x) : i \in Nat /\ i > 0 /\ x.ms[i].gen \in Nat BY <2>2
  <2>7. \A i \in On(x) : Carries(pool[y.ms[i].slot], y)
    <3> TAKE i \in On(x)
    <3>1. Carries(kv[x.ms[i].slot], x) BY <2>1 DEF MemberHolds
    <3>2. Carries(pool[y.ms[i].slot], x) BY <2>1, <2>4, <2>5, <3>1
    <3> QED BY <2>1, <3>2 DEF Carries, Token
  <2>8. CASE Prefilled(x) /\ Len(x.ms) > 1 /\ y.phase = "terminal" /\ y.pos = 1
    <3>1. ASSUME NEW i \in On(x) PROVE MemberHolds(pool, y, i)
      <4>1. x.pos = last - 1 BY <2>2, <2>5, <2>8
      <4>2. Progress(x, i) BY <2>1 DEF MemberHolds
      <4>3. y.ms[i].gen = 0 BY <2>1, <2>2, <2>5, <2>8, <4>1, <4>2 DEF Progress, last
      <4>4. Progress(y, i) /\ Span(y, i) = last - 1
        BY <2>1, <2>2, <2>6, <2>8, <4>3 DEF Progress, Span, last
      <4>5. Len(pool[y.ms[i].slot]) = x.pos BY <2>1, <2>4, <2>5, <2>8
      <4> QED BY <2>7, <4>1, <4>4, <4>5 DEF MemberHolds
    <3> QED BY <2>1, <2>8, <3>1 DEF Led, x, y
  <2>9. CASE Prefilled(x) /\ Len(x.ms) = 1 /\ y.phase = "decode" /\ y.pos = x.pos
    <3>1. ASSUME NEW i \in On(x) PROVE MemberHolds(pool, y, i)
      <4>1. i = x.leader
        <5>1. DOMAIN x.ms = 1 .. 1 BY <2>2, <2>9
        <5> QED BY <2>2, <2>5, <2>9, <5>1
      <4>2. x.pos = last /\ Progress(x, i) BY <2>1, <2>2, <2>5, <2>9 DEF MemberHolds
      <4>3. y.ms[i].gen = 1 BY <2>1, <2>5, <2>9, <4>1, <4>2 DEF Progress, last
      <4>4. Progress(y, i) BY <2>9, <4>3 DEF Progress
      <4>5. Span(y, i) = last BY <2>1, <2>2, <2>9, <4>3 DEF Span, last
      <4>6. Len(pool[y.ms[i].slot]) = x.pos BY <2>1, <2>4, <2>5, <2>9
      <4> QED BY <2>7, <4>2, <4>4, <4>5, <4>6 DEF MemberHolds
    <3> QED BY <2>1, <2>9, <3>1 DEF Led, x, y
  <2>10. CASE x.phase = "terminal" /\ (\A i \in On(x) : i < x.pos) /\ y.phase = "decode" /\ y.pos = x.pos
    <3>1. ASSUME NEW i \in On(x) PROVE MemberHolds(pool, y, i)
      <4>1. Progress(x, i) /\ Len(kv[x.ms[i].slot]) = Span(x, i) BY <2>1 DEF MemberHolds
      <4>2. y.ms[i].gen = 1 /\ Progress(y, i) BY <2>1, <2>10, <4>1 DEF Progress
      <4>3. Span(y, i) = Span(x, i) BY <2>1, <2>10 DEF Span
      <4>4. pool[y.ms[i].slot] = kv[x.ms[i].slot] BY <2>1, <2>4, <2>5, <2>10
      <4> QED BY <2>7, <4>1, <4>2, <4>3, <4>4 DEF MemberHolds
    <3> QED BY <2>1, <2>10, <3>1 DEF Led, x, y
  <2>11. CASE ~Prefilled(x) /\ y = x
    <3>1. ASSUME NEW i \in On(x) PROVE MemberHolds(pool, y, i)
      BY <2>1, <2>4, <2>11, <3>1 DEF MemberHolds
    <3>2. y.phase = "prefill" => y.pos < PrefixEnd(y)
      BY <2>2, <2>11 DEF Prefilled, GroupFits, PosFits
    <3> QED BY <2>1, <2>11, <3>1, <3>2 DEF x, y
  <2> QED BY <2>3, <2>8, <2>9, <2>10, <2>11
<1>8. GroupsHold(pool, gs) /\ \A g \in DOMAIN gs : gs[g].phase = "prefill" => gs[g].pos < PrefixEnd(gs[g])
  BY <1>1, <1>7 DEF GroupsHold
<1> QED BY <1>4, <1>6, <1>8 DEF gs, pool

-----------------------------------------------------------------------------
\* Whose a token of a step is, where it goes and what it is.
FedFor(gs, f) ==
    /\ f.of \in InGroups(gs) /\ f.slot = Member(gs, f.of).slot
    /\ f.tok = Token(gs[f.of[1]], f.pos + 1)
    /\ gs[f.of[1]].phase = "decode" =>
         /\ f.of \in Decodes(gs) /\ f.sample
         /\ f.pos = Len(PromptOf(gs[f.of[1]])) + Member(gs, f.of).gen - 1
    /\ gs[f.of[1]].phase = "terminal" =>
         f.of \in Taken(gs) /\ f.sample /\ f.pos = Len(PromptOf(gs[f.of[1]])) - 1
    /\ gs[f.of[1]].phase = "prefill" =>
         /\ f.of[2] = gs[f.of[1]].leader /\ <<f.of[1], f.pos + 1>> \in Taken(gs)
         /\ f.sample <=> f.pos + 1 = Len(PromptOf(gs[f.of[1]]))
\* The token a decoding completion is fed is the next for its slot.
LEMMA FeedDecodeIs ==
    ASSUME NEW gs \in Seq(Groups), NEW p \in Decodes(gs), Member(gs, p).gen > 0
    PROVE  FedFor(gs, FeedDecode(gs, p)) /\ FeedDecode(gs, p).of = p
<1> DEFINE f == FeedDecode(gs, p)
           x == gs[p[1]]
           n == Len(PromptOf(x)) + Member(gs, p).gen - 1
<1>1. p \in InGroups(gs) /\ x.phase = "decode" BY DEF Decodes, InGroups
<1>2. Member(gs, p).gen \in Nat /\ x \in Groups BY <1>1, MemberParts
<1>3. Len(PromptOf(x)) \in Nat BY <1>2, GroupParts
<1>4. f = [of |-> p, slot |-> Member(gs, p).slot, pos |-> n, tok |-> Word, sample |-> TRUE]
  BY DEF FeedDecode, Feed
<1>5. n + 1 = Len(PromptOf(x)) + Member(gs, p).gen /\ ~(n + 1 <= Len(PromptOf(x))) BY <1>2, <1>3
<1> HIDE DEF n
<1>6. f.of = p /\ f.slot = Member(gs, p).slot /\ f.pos = n /\ f.tok = Word /\ f.sample BY <1>4
<1> HIDE DEF f
<1>7. f.tok = Token(x, f.pos + 1) BY <1>5, <1>6 DEF Token
<1>8. f.pos = Len(PromptOf(x)) + Member(gs, p).gen - 1 BY <1>6 DEF n
<1> HIDE DEF x
<1> QED BY <1>1, <1>6, <1>7, <1>8 DEF FedFor, f, x

\* A token of a prompt: the leader's, or the last one of a member that has not
\* sampled.
LEMMA FeedPromptIs ==
    ASSUME NEW gs \in Seq(Groups), \A g \in DOMAIN gs : On(gs[g]) # {}, NEW p \in Taken(gs), Led(gs[p[1]])
    PROVE  /\ FedFor(gs, FeedPrompt(gs, p)) /\ p[1] \in DOMAIN gs
           /\ gs[p[1]].phase = "prefill" =>
                FeedPrompt(gs, p).of = <<p[1], gs[p[1]].leader>> /\ FeedPrompt(gs, p).pos = p[2] - 1
           /\ gs[p[1]].phase # "prefill" => FeedPrompt(gs, p).of = p
<1> DEFINE g == gs[p[1]]
           f == FeedPrompt(gs, p)
           n == Len(PromptOf(g))
<1>1. p \in Wanted(gs) /\ p \in Int \X Int BY WantedFits
<1>2. p[1] \in DOMAIN gs /\ g \in Groups /\ On(g) # {} /\ p[2] \in Wants(g) /\ p[2] \in Int /\ p = <<p[1], p[2]>>
  <2>1. p[1] \in DOMAIN gs /\ p[2] \in Wants(gs[p[1]]) BY <1>1, WantedFits
  <2>2. p[2] \in Int /\ p = <<p[1], p[2]>> BY <1>1
  <2> QED BY <2>1, <2>2
<1>3. /\ On(g) \subseteq DOMAIN g.ms /\ DOMAIN g.ms \subseteq Pool
      /\ PromptOf(g) \in Seq(Int) /\ n \in Nat /\ n > 0 BY <1>2, GroupParts
<1>4. /\ g.phase = "prefill" => p[2] \in 1 .. n
      /\ g.phase # "prefill" => g.phase = "terminal" /\ p[2] \in On(g) BY <1>2, WantsFits
<1>5. CASE g.phase = "prefill"
  <2> DEFINE q == <<p[1], g.leader>>
  <2>1. f = [of |-> q, slot |-> g.ms[g.leader].slot, pos |-> p[2] - 1,
             tok |-> PromptOf(g)[p[2]], sample |-> (p[2] = n)] BY <1>5 DEF FeedPrompt, Feed, Member
  <2>2. f.of = q /\ f.slot = g.ms[g.leader].slot /\ f.pos = p[2] - 1 /\ f.tok = PromptOf(g)[p[2]]
        /\ (f.sample <=> p[2] = n)
    <3>1. (p[2] = n) \in BOOLEAN OBVIOUS
    <3>2. f \in Feeds(gs) BY <1>1, FeedPromptFits
    <3> HIDE DEF f, q, n, g
    <3>3. f.of = q /\ f.slot = g.ms[g.leader].slot /\ f.pos = p[2] - 1 /\ f.tok = PromptOf(g)[p[2]]
      BY <2>1
    <3>4. f.sample <=> p[2] = n BY <2>1, <3>1, <3>2 DEF Feeds, FeedSet
    <3> QED BY <3>3, <3>4
  <2> HIDE DEF f
  <2>3. f.pos + 1 = p[2] /\ p[2] <= n BY <1>2, <1>3, <1>4, <1>5, <2>2
  <2>4. q[1] = p[1] /\ q[2] = g.leader /\ Member(gs, q) = g.ms[g.leader] BY DEF Member
  <2>5. q \in InGroups(gs)
    <3>1. g.leader \in On(g) /\ g.leader \in Pool BY <1>3, <1>5 DEF Led
    <3> QED BY <1>2, <2>4, <3>1 DEF InGroups
  <2>6. f.tok = Token(g, f.pos + 1) BY <2>2, <2>3 DEF Token
  <2>7. <<p[1], f.pos + 1>> \in Taken(gs) BY <1>2, <2>3
  <2> HIDE DEF q, g, n
  <2>8. FedFor(gs, f)
    <3>1. gs[f.of[1]] = g /\ f.of[2] = g.leader /\ f.of[1] = p[1] BY <2>2, <2>4 DEF g
    <3>2. f.of \in InGroups(gs) /\ f.slot = Member(gs, f.of).slot BY <2>2, <2>4, <2>5
    <3>3. f.sample <=> f.pos + 1 = Len(PromptOf(g)) BY <2>2, <2>3 DEF n
    <3> QED BY <1>5, <2>6, <2>7, <3>1, <3>2, <3>3 DEF FedFor
  <2> QED BY <1>2, <1>5, <2>2, <2>8 DEF f, g, q
<1>6. CASE g.phase # "prefill"
  <2>1. f = [of |-> p, slot |-> g.ms[p[2]].slot, pos |-> n - 1, tok |-> PromptOf(g)[n], sample |-> TRUE]
    BY <1>6 DEF FeedPrompt, Feed, Member
  <2>2. f.of = p /\ f.slot = g.ms[p[2]].slot /\ f.pos = n - 1 /\ f.tok = PromptOf(g)[n] /\ f.sample
    BY <2>1
  <2> HIDE DEF f
  <2>3. f.pos + 1 = n BY <1>3, <2>2
  <2>4. p \in InGroups(gs) /\ Member(gs, p) = g.ms[p[2]]
    BY <1>2, <1>3, <1>4, <1>6 DEF InGroups, Member
  <2>5. f.tok = Token(g, f.pos + 1) BY <1>3, <2>2, <2>3 DEF Token
  <2>6. f.pos = Len(PromptOf(g)) - 1 BY <2>2
  <2> HIDE DEF g, n
  <2>7. FedFor(gs, f)
    <3>1. gs[f.of[1]] = g BY <2>2 DEF g
    <3> QED BY <1>4, <1>6, <2>2, <2>4, <2>5, <2>6, <3>1 DEF FedFor
  <2> QED BY <1>2, <1>6, <2>2, <2>7 DEF f, g
<1> QED BY <1>5, <1>6

\* The tokens of a step are those of the decoding members, then those taken, each
\* once and in their order.
Composes(gs, ds, ts, m, k) ==
    /\ DOMAIN Compose(gs) = 1 .. m + k
    /\ \A n \in 1 .. m : Compose(gs)[n] = FeedDecode(gs, ds[n]) /\ ds[n] \in Decodes(gs)
    /\ \A n \in 1 .. k : Compose(gs)[m + n] = FeedPrompt(gs, ts[n]) /\ ts[n] \in Taken(gs)
    /\ DOMAIN ds = 1 .. m /\ Differ(ds) /\ \A p \in Decodes(gs) : \E n \in 1 .. m : ds[n] = p
    /\ DOMAIN ts = 1 .. k /\ Differ(ts) /\ \A p \in Taken(gs) : \E n \in 1 .. k : ts[n] = p
    /\ \A i, j \in 1 .. k : i < j => Before(ts[i], ts[j])
\* What a step feeds, token by token.
LEMMA ComposeIs ==
    ASSUME NEW gs \in Seq(Groups), \A g \in DOMAIN gs : On(gs[g]) # {}
    PROVE  \E m, k \in Nat : Composes(gs, InOrder(Decodes(gs)), InOrder(Taken(gs)), m, k)
<1> DEFINE ds == InOrder(Decodes(gs))
           ts == InOrder(Taken(gs))
           a == [n \in DOMAIN ds |-> FeedDecode(gs, ds[n])]
           b == [n \in DOMAIN ts |-> FeedPrompt(gs, ts[n])]
           fed == Compose(gs)
<1>1. Decodes(gs) \in SUBSET ((DOMAIN gs) \X Pool) BY DEF Decodes
<1>2. IsFiniteSet(Decodes(gs)) /\ Decodes(gs) \in SUBSET (Int \X Int) BY <1>1, PairsFinite
<1>3. IsFiniteSet(Taken(gs)) /\ Taken(gs) \in SUBSET (Int \X Int) /\ Taken(gs) \in SUBSET Wanted(gs)
  BY WantedFits
<1>4. /\ ds \in Seq(Decodes(gs)) /\ Differ(ds) /\ \A p \in Decodes(gs) : \E n \in DOMAIN ds : ds[n] = p
      /\ ts \in Seq(Taken(gs)) /\ Differ(ts) /\ \A p \in Taken(gs) : \E n \in DOMAIN ts : ts[n] = p
      /\ \A i, j \in DOMAIN ts : i < j => Before(ts[i], ts[j]) BY <1>2, <1>3, InOrderFits
<1>5. fed = a \o b BY DEF Compose
<1> HIDE DEF ds, ts
<1>6. (\A n \in DOMAIN ds : ds[n] \in Decodes(gs)) /\ \A n \in DOMAIN ts : ts[n] \in Taken(gs)
  BY <1>4
<1>7. DOMAIN a = DOMAIN ds /\ DOMAIN b = DOMAIN ts
      /\ (\A n \in DOMAIN ds : a[n] = FeedDecode(gs, ds[n])) /\ \A n \in DOMAIN ts : b[n] = FeedPrompt(gs, ts[n])
  OBVIOUS
<1>8. a \in Seq(Feeds(gs)) /\ b \in Seq(Feeds(gs))
  <2>1. \A n \in DOMAIN ds : FeedDecode(gs, ds[n]) \in Feeds(gs) BY <1>6, FeedDecodeFits
  <2>2. \A n \in DOMAIN ts : FeedPrompt(gs, ts[n]) \in Feeds(gs) BY <1>3, <1>6, FeedPromptFits
  <2>3. a \in [DOMAIN ds -> Feeds(gs)] /\ b \in [DOMAIN ts -> Feeds(gs)] BY <2>1, <2>2, Zenon
  <2> HIDE DEF a, b
  <2> QED BY <1>4, <2>3
<1> HIDE DEF a, b
<1>9. PICK m \in Nat, k \in Nat : m = Len(a) /\ k = Len(b) /\ DOMAIN ds = 1 .. m /\ DOMAIN ts = 1 .. k
  BY <1>7, <1>8
<1>10. /\ fed \in Seq(Feeds(gs)) /\ Len(fed) = m + k
       /\ \A n \in 1 .. m + k : fed[n] = IF n <= m THEN a[n] ELSE b[n - m]
  <2>1. /\ a \o b \in Seq(Feeds(gs)) /\ Len(a \o b) = Len(a) + Len(b)
        /\ \A n \in 1 .. Len(a) + Len(b) : (a \o b)[n] = IF n <= Len(a) THEN a[n] ELSE b[n - Len(a)]
    BY <1>8, Concatenated
  <2> HIDE DEF fed
  <2> QED BY <1>5, <1>9, <2>1
<1> HIDE DEF fed
<1>11. DOMAIN fed = 1 .. m + k BY <1>10
<1>12. \A n \in 1 .. m : fed[n] = a[n] BY <1>10
<1>13. \A n \in 1 .. k : fed[m + n] = b[n]
  <2> TAKE n \in 1 .. k
  <2>1. m + n \in 1 .. m + k /\ ~(m + n <= m) /\ (m + n) - m = n OBVIOUS
  <2> QED BY <1>10, <2>1
<1>14. /\ \A n \in 1 .. m : fed[n] = FeedDecode(gs, ds[n]) /\ ds[n] \in Decodes(gs)
       /\ \A n \in 1 .. k : fed[m + n] = FeedPrompt(gs, ts[n]) /\ ts[n] \in Taken(gs)
  <2>1. \A n \in 1 .. m : a[n] = FeedDecode(gs, ds[n]) /\ ds[n] \in Decodes(gs) BY <1>6, <1>7, <1>9
  <2>2. \A n \in 1 .. k : b[n] = FeedPrompt(gs, ts[n]) /\ ts[n] \in Taken(gs) BY <1>6, <1>7, <1>9
  <2> QED BY <1>12, <1>13, <2>1, <2>2
<1>15. Composes(gs, ds, ts, m, k) BY <1>4, <1>9, <1>11, <1>14, Zenon DEF Composes, fed
<1> QED BY <1>15 DEF ds, ts

\* What a step feeds to each member that decodes, and for each place taken.
FeedsOf(gs) ==
    /\ \A p \in Decodes(gs) :
         FedFor(gs, FeedDecode(gs, p)) /\ FeedDecode(gs, p).of = p /\ gs[p[1]].phase = "decode"
    /\ \A p \in Taken(gs) :
         /\ FedFor(gs, FeedPrompt(gs, p)) /\ p[1] \in DOMAIN gs /\ gs[p[1]].phase # "decode"
         /\ p = <<p[1], p[2]>> /\ p[1] \in Int /\ p[2] \in Int
         /\ gs[p[1]].phase = "prefill" =>
              FeedPrompt(gs, p).of = <<p[1], gs[p[1]].leader>> /\ FeedPrompt(gs, p).pos = p[2] - 1
         /\ gs[p[1]].phase # "prefill" => FeedPrompt(gs, p).of = p
\* Each is fed its own next token.
LEMMA FeedsAre ==
    ASSUME NEW gs \in Seq(Groups), \A g \in DOMAIN gs : On(gs[g]) # {}, NEW pool, GroupsHold(pool, gs)
    PROVE  FeedsOf(gs)
<1>1. ASSUME NEW p \in Decodes(gs)
      PROVE  FedFor(gs, FeedDecode(gs, p)) /\ FeedDecode(gs, p).of = p /\ gs[p[1]].phase = "decode"
  <2>1. p[1] \in DOMAIN gs /\ p[2] \in On(gs[p[1]]) /\ gs[p[1]].phase = "decode" BY DEF Decodes
  <2>2. Member(gs, p).gen > 0 BY <2>1 DEF GroupsHold, MemberHolds, Progress, Member
  <2> QED BY <2>1, <2>2, FeedDecodeIs
<1>2. ASSUME NEW p \in Taken(gs)
      PROVE  /\ Led(gs[p[1]]) /\ p[1] \in DOMAIN gs /\ gs[p[1]].phase # "decode"
             /\ p = <<p[1], p[2]>> /\ p[1] \in Int /\ p[2] \in Int
  <2>1. p[1] \in DOMAIN gs /\ p[2] \in Wants(gs[p[1]]) /\ p \in Int \X Int BY WantedFits
  <2>2. Led(gs[p[1]]) BY <2>1 DEF GroupsHold
  <2> QED BY <2>1, <2>2 DEF Wants
<1>3. \A p \in Taken(gs) :
        /\ FedFor(gs, FeedPrompt(gs, p))
        /\ gs[p[1]].phase = "prefill" =>
             FeedPrompt(gs, p).of = <<p[1], gs[p[1]].leader>> /\ FeedPrompt(gs, p).pos = p[2] - 1
        /\ gs[p[1]].phase # "prefill" => FeedPrompt(gs, p).of = p BY <1>2, FeedPromptIs
<1> QED BY <1>1, <1>2, <1>3 DEF FeedsOf

\* The tokens of a step are these, and each member and place has its own.
LEMMA FedIs ==
    ASSUME NEW gs \in Seq(Groups), \A g \in DOMAIN gs : On(gs[g]) # {}, NEW pool, GroupsHold(pool, gs)
    PROVE  /\ \A n \in DOMAIN Compose(gs) : FedFor(gs, Compose(gs)[n])
           /\ \A p \in Decodes(gs) : \E n \in DOMAIN Compose(gs) : Compose(gs)[n].of = p
           /\ \A p \in Taken(gs) : p[1] \in DOMAIN gs /\ \E n \in DOMAIN Compose(gs) :
                /\ gs[p[1]].phase = "prefill" =>
                     Compose(gs)[n].of = <<p[1], gs[p[1]].leader>> /\ Compose(gs)[n].pos = p[2] - 1
                /\ gs[p[1]].phase # "prefill" => Compose(gs)[n].of = p
<1> DEFINE ds == InOrder(Decodes(gs))
           ts == InOrder(Taken(gs))
           fed == Compose(gs)
<1>1. PICK m \in Nat, k \in Nat : Composes(gs, ds, ts, m, k) BY ComposeIs
<1> HIDE DEF ds, ts
<1>0. FeedsOf(gs) BY FeedsAre
<1>2. \A n \in DOMAIN fed : \/ n \in 1 .. m
                            \/ \E j \in 1 .. k : n = m + j
  <2> TAKE n \in DOMAIN fed
  <2>1. n \in 1 .. m + k BY <1>1 DEF Composes
  <2>2. n \in 1 .. m \/ (n - m \in 1 .. k /\ n = m + (n - m)) BY <2>1
  <2> QED BY <2>2
<1>3. /\ \A n \in 1 .. m : n \in DOMAIN fed
      /\ \A n \in 1 .. k : m + n \in DOMAIN fed
  <2>1. DOMAIN fed = 1 .. m + k BY <1>1 DEF Composes
  <2> HIDE DEF fed
  <2> QED BY <2>1
<1>4. \A n \in DOMAIN fed : FedFor(gs, fed[n])
  <2>1. \A n \in 1 .. m : FedFor(gs, fed[n]) BY <1>0, <1>1 DEF Composes, FeedsOf
  <2>2. \A j \in 1 .. k : FedFor(gs, fed[m + j]) BY <1>0, <1>1 DEF Composes, FeedsOf
  <2> HIDE DEF fed
  <2> QED BY <1>2, <2>1, <2>2
<1>5. \A p \in Decodes(gs) : \E n \in DOMAIN fed : fed[n].of = p
  BY <1>0, <1>1, <1>3 DEF Composes, FeedsOf
<1>6. \A p \in Taken(gs) : \E n \in DOMAIN fed : fed[n] = FeedPrompt(gs, p)
  BY <1>1, <1>3 DEF Composes
<1> HIDE DEF fed
<1>7. \A p \in Taken(gs) : p[1] \in DOMAIN gs /\ \E n \in DOMAIN fed :
        /\ gs[p[1]].phase = "prefill" =>
             fed[n].of = <<p[1], gs[p[1]].leader>> /\ fed[n].pos = p[2] - 1
        /\ gs[p[1]].phase # "prefill" => fed[n].of = p
  <2> TAKE p \in Taken(gs)
  <2>1. PICK n \in DOMAIN fed : fed[n] = FeedPrompt(gs, p) BY <1>6
  <2> QED BY <1>0, <2>1, Zenon DEF FeedsOf
<1> QED BY <1>4, <1>5, <1>7 DEF fed

\* A step is composed for groups whose slots hold what they are to.
Composing(gs, pool, fed) ==
    /\ gs \in Seq(Groups) /\ \A g \in DOMAIN gs : On(gs[g]) # {}
    /\ pool \in PoolFn /\ OneUser(gs) /\ GroupsHold(pool, gs)
    /\ fed = Compose(gs) /\ fed \in Seq(Feeds(gs))
\* Two tokens are of one member only where it is a leader that prefills, and then
\* the earlier one comes first.
LEMMA ComposeOrder ==
    ASSUME NEW gs, NEW pool, NEW fed, Composing(gs, pool, fed),
           NEW x \in DOMAIN fed, NEW y \in DOMAIN fed, x < y, fed[x].of = fed[y].of
    PROVE  gs[fed[x].of[1]].phase = "prefill" /\ fed[x].pos < fed[y].pos
<1>1. gs \in Seq(Groups) /\ (\A g \in DOMAIN gs : On(gs[g]) # {}) /\ GroupsHold(pool, gs) /\ fed = Compose(gs)
  BY DEF Composing
<1> DEFINE ds == InOrder(Decodes(gs))
           ts == InOrder(Taken(gs))
<1>2. PICK m \in Nat, k \in Nat : Composes(gs, ds, ts, m, k) BY <1>1, ComposeIs
<1> HIDE DEF ds, ts
<1>0. FeedsOf(gs) BY <1>1, FeedsAre
<1>3. \A n \in 1 .. m : fed[n].of = ds[n] /\ gs[ds[n][1]].phase = "decode"
  <2> TAKE n \in 1 .. m
  <2>1. ds[n] \in Decodes(gs) /\ fed[n] = FeedDecode(gs, ds[n]) BY <1>1, <1>2 DEF Composes
  <2> QED BY <1>0, <2>1 DEF FeedsOf
<1>4. \A n \in 1 .. k :
        /\ ts[n] = <<ts[n][1], ts[n][2]>> /\ ts[n][1] \in Int /\ ts[n][2] \in Int
        /\ fed[m + n].of[1] = ts[n][1] /\ gs[ts[n][1]].phase # "decode"
        /\ gs[ts[n][1]].phase = "prefill" => fed[m + n].pos = ts[n][2] - 1
        /\ gs[ts[n][1]].phase # "prefill" => fed[m + n].of = ts[n]
  <2> TAKE n \in 1 .. k
  <2>1. ts[n] \in Taken(gs) /\ fed[m + n] = FeedPrompt(gs, ts[n]) BY <1>1, <1>2 DEF Composes
  <2> QED BY <1>0, <2>1 DEF FeedsOf
<1>5. x \in Nat /\ y \in Nat /\ x \in 1 .. m + k /\ y \in 1 .. m + k BY <1>1, <1>2 DEF Composes
<1>6. CASE y <= m
  <2>1. x \in 1 .. m /\ y \in 1 .. m /\ x # y BY <1>5, <1>6
  <2>2. ds[x] = ds[y] BY <1>3, <2>1
  <2> QED BY <1>2, <2>1, <2>2 DEF Composes, Differ
<1>7. CASE x <= m /\ ~(y <= m)
  <2>1. y - m \in 1 .. k /\ y = m + (y - m) /\ x \in 1 .. m BY <1>5, <1>7
  <2>2. fed[y].of[1] = ts[y - m][1] /\ gs[ts[y - m][1]].phase # "decode" BY <1>4, <2>1
  <2> QED BY <1>3, <2>1, <2>2
<1>8. CASE ~(x <= m)
  <2>1. PICK i \in 1 .. k, j \in 1 .. k : x = m + i /\ y = m + j /\ i < j /\ i # j
    <3>1. x - m \in 1 .. k /\ x = m + (x - m) /\ y - m \in 1 .. k /\ y = m + (y - m) /\ x - m < y - m
      BY <1>5, <1>8
    <3> QED BY <3>1
  <2>2. ts[i] # ts[j] /\ Before(ts[i], ts[j]) BY <1>2, <2>1 DEF Composes, Differ
  <2>3. fed[x].of[1] = ts[i][1] /\ fed[y].of[1] = ts[j][1] /\ ts[i][1] = ts[j][1] BY <1>4, <2>1
  <2>4. gs[ts[i][1]].phase = "prefill" BY <1>4, <2>1, <2>2, <2>3
  <2>5. fed[x].pos = ts[i][2] - 1 /\ fed[y].pos = ts[j][2] - 1 BY <1>4, <2>1, <2>3, <2>4
  <2>6. ts[i][2] < ts[j][2] /\ ts[i][2] \in Int /\ ts[j][2] \in Int
    BY <1>4, <2>1, <2>2, <2>3 DEF Before
  <2> QED BY <2>3, <2>4, <2>5, <2>6
<1> QED BY <1>5, <1>6, <1>7, <1>8

-----------------------------------------------------------------------------
\* What an accepted step writes into a slot: the tokens that are for it, each at
\* its place, after what it held.
Rows(fed, s) == {n \in DOMAIN fed : fed[n].slot = s}
\* A slot keeps what it held, and grows by its rows of the step.
LEMMA WrittenIs ==
    ASSUME NEW pool \in PoolFn, NEW gs, NEW fed \in Seq(Feeds(gs)), Accepted(pool, fed), NEW s \in Pool
    PROVE  /\ Len(pool[s]) \in Nat /\ Len(Written(pool, fed)[s]) \in Nat
           /\ DOMAIN Written(pool, fed)[s] = 1 .. Len(Written(pool, fed)[s])
           /\ Len(pool[s]) <= Len(Written(pool, fed)[s])
           /\ Rows(fed, s) = {} => Len(Written(pool, fed)[s]) = Len(pool[s])
           /\ \A j \in 1 .. Len(Written(pool, fed)[s]) :
                \/ j \in DOMAIN pool[s] /\ Written(pool, fed)[s][j] = pool[s][j]
                \/ /\ j > Len(pool[s])
                   /\ \E n \in Rows(fed, s) :
                        /\ fed[n].pos = j - 1
                        /\ Written(pool, fed)[s][j].tok = <<CacheKey, fed[n].tok>>
           /\ \A n \in Rows(fed, s) :
                /\ fed[n].pos \in Nat /\ Len(pool[s]) <= fed[n].pos
                /\ fed[n].pos < Len(Written(pool, fed)[s])
           /\ \A m, n \in Rows(fed, s) : fed[m].pos = fed[n].pos => m = n
<1> DEFINE K == Rows(fed, s)
           old == pool[s]
           w == Written(pool, fed)[s]
           cells == [n \in DOMAIN fed |-> [cell |-> Nth(FreeCells(pool), n), tok |-> <<CacheKey, fed[n].tok>>]]
           add == Kept(cells, K)
           c == Cardinality(K)
           place(k) == fed[Nth(K, k)]
<1>1. DOMAIN fed = 1 .. Len(fed) /\ Len(fed) \in Nat /\ K \in SUBSET (1 .. Len(fed)) BY DEF Rows
<1>2. w = old \o add BY DEF Written, Rows
<1>3. /\ IsFiniteSet(K) /\ c \in Nat
      /\ \A n \in K : Rank(K, n) \in 0 .. c - 1
      /\ \A i, j \in K : i < j => Rank(K, i) < Rank(K, j)
  <2> HIDE DEF K
  <2>1. /\ IsFiniteSet(K) /\ c \in 0 .. Len(fed)
        /\ \A n \in K : Rank(K, n) \in 0 .. c - 1
        /\ \A i, j \in K : i < j => Rank(K, i) < Rank(K, j) BY <1>1, RankFits
  <2> HIDE DEF c
  <2> QED BY <1>1, <2>1
<1>4. \A k \in 1 .. c : Nth(K, k) \in K /\ Rank(K, Nth(K, k)) = k - 1
  <2> HIDE DEF K
  <2> QED BY <1>1, NthFits
<1>5. \A n \in K : fed[n].pos = Len(old) + Rank(K, n)
  <2> TAKE n \in K
  <2>1. n \in DOMAIN fed /\ fed[n].slot = s BY DEF Rows
  <2>2. fed[n].pos = Len(pool[fed[n].slot]) + Cardinality({m \in 1 .. n - 1 : fed[m].slot = fed[n].slot})
    BY <2>1 DEF Accepted
  <2>3. {m \in 1 .. n - 1 : fed[m].slot = s} = {j \in K : j < n}
    <3>1. n \in 1 .. Len(fed) BY <1>1, <2>1
    <3>2. \A m : m \in 1 .. n - 1 <=> m \in 1 .. Len(fed) /\ m < n BY <1>1, <3>1
    <3>3. \A m : m \in K <=> m \in 1 .. Len(fed) /\ fed[m].slot = s BY <1>1 DEF Rows
    <3> HIDE DEF K
    <3> QED BY <3>2, <3>3
  <2>4. {m \in 1 .. n - 1 : fed[m].slot = fed[n].slot} = {j \in K : j < n} BY <2>1, <2>3
  <2> QED BY <2>1, <2>2, <2>4 DEF Rank
<1>6. old \in Seq(CellSet) BY DEF PoolFn
<1>7. DOMAIN add = 1 .. c /\ \A k \in 1 .. c : add[k] = cells[Nth(K, k)] BY DEF Kept
<1>8. \A n \in DOMAIN fed : cells[n].tok = <<CacheKey, fed[n].tok>> OBVIOUS
<1>9. \A k \in 1 .. c : add[k].tok = <<CacheKey, fed[Nth(K, k)].tok>> /\ Nth(K, k) \in K
  <2> TAKE k \in 1 .. c
  <2>1. Nth(K, k) \in K /\ Nth(K, k) \in DOMAIN fed BY <1>1, <1>4
  <2> HIDE DEF cells, add, K
  <2> QED BY <1>7, <1>8, <2>1
<1>10. add \in Seq({add[k] : k \in 1 .. c})
  <2>1. add = [k \in 1 .. c |-> cells[Nth(K, k)]] BY DEF Kept
  <2>2. add \in [1 .. c -> {add[k] : k \in 1 .. c}]
    <3> HIDE DEF cells, K, c
    <3> QED BY <2>1
  <2> HIDE DEF add, c
  <2> QED BY <1>3, <2>2
<1> DEFINE T == CellSet \cup {add[k] : k \in 1 .. c}
<1>11. old \in Seq(T) /\ add \in Seq(T)
  <2> HIDE DEF add, c, old
  <2> QED BY <1>6, <1>10
<1> HIDE DEF T, cells, add, c, K, old, w
<1>12. Len(add) = c BY <1>3, <1>7, <1>11
<1>13. PICK m \in Nat : m = Len(old) /\ DOMAIN old = 1 .. m BY <1>6
<1>14. w \in Seq(T) /\ Len(w) = m + c /\ \A j \in 1 .. m + c : w[j] = IF j <= m THEN old[j] ELSE add[j - m]
  <2>1. /\ old \o add \in Seq(T) /\ Len(old \o add) = Len(old) + Len(add)
        /\ \A j \in 1 .. Len(old) + Len(add) : (old \o add)[j] = IF j <= Len(old) THEN old[j] ELSE add[j - Len(old)]
    BY <1>11, Concatenated
  <2> QED BY <1>2, <1>12, <1>13, <2>1
<1>15. DOMAIN w = 1 .. m + c /\ Len(w) = m + c /\ m + c \in Nat /\ m <= m + c BY <1>3, <1>14
<1>16. K = {} => c = 0 BY FS_EmptySet DEF c
<1>17. ASSUME NEW j \in 1 .. m + c
       PROVE  \/ j \in DOMAIN old /\ w[j] = old[j]
              \/ j > m /\ \E n \in K : fed[n].pos = j - 1 /\ w[j].tok = <<CacheKey, fed[n].tok>>
  <2>1. CASE j <= m BY <1>13, <1>14, <2>1
  <2>2. CASE ~(j <= m)
    <3>1. PICK k \in 1 .. c : k = j - m BY <1>3, <2>2
    <3>2. w[j] = add[k] /\ Nth(K, k) \in K /\ add[k].tok = <<CacheKey, fed[Nth(K, k)].tok>>
      BY <1>9, <1>14, <2>2, <3>1
    <3>3. fed[Nth(K, k)].pos = j - 1
      <4>1. Rank(K, Nth(K, k)) = k - 1 BY <1>4
      <4>2. fed[Nth(K, k)].pos = m + (k - 1) BY <1>5, <1>13, <3>2, <4>1
      <4>3. m + (k - 1) = j - 1 BY <3>1
      <4> QED BY <4>2, <4>3
    <3>4. w[j].tok = <<CacheKey, fed[Nth(K, k)].tok>> BY <3>2
    <3>5. j > m BY <2>2
    <3> QED BY <3>2, <3>3, <3>4, <3>5
  <2> QED BY <2>1, <2>2
<1>18. ASSUME NEW n \in K PROVE fed[n].pos \in Nat /\ m <= fed[n].pos /\ fed[n].pos < m + c
  <2>1. PICK r \in 0 .. c - 1 : r = Rank(K, n) BY <1>3
  <2>2. fed[n].pos = m + r BY <1>5, <1>13, <2>1
  <2>3. m + r \in Nat /\ m <= m + r /\ m + r < m + c BY <1>3
  <2> QED BY <2>2, <2>3
<1>19. ASSUME NEW i \in K, NEW n \in K, fed[i].pos = fed[n].pos PROVE i = n
  <2>1. PICK a \in Nat, b \in Nat : a = Rank(K, i) /\ b = Rank(K, n) BY <1>3
  <2>2. m + a = m + b BY <1>5, <1>13, <1>19, <2>1
  <2>3. a = b BY <2>2
  <2>4. i \in Nat /\ n \in Nat BY <1>1
  <2>5. ~(a < a) OBVIOUS
  <2>6. i < n => Rank(K, i) < Rank(K, n) BY <1>3, Zenon
  <2>7. n < i => Rank(K, n) < Rank(K, i) BY <1>3, Zenon
  <2>8. ~(i < n) /\ ~(n < i) BY <2>1, <2>3, <2>5, <2>6, <2>7, Zenon
  <2> QED BY <2>4, <2>8
<1> QED BY <1>13, <1>15, <1>16, <1>17, <1>18, <1>19 DEF K, old, w

\* The slots a step writes to are those of live members.
LEMMA FedSlots ==
    ASSUME GroupTypes, GroupsHold(ReadyPool, Ready)
    PROVE  \A n \in DOMAIN Fed : FedFor(Ready, Fed[n]) /\ Used(groups, Fed[n].slot)
<1>1. /\ Ready \in Seq(Groups) /\ DOMAIN Ready = DOMAIN groups /\ InGroups(Ready) = InGroups(groups)
      /\ \A g \in DOMAIN Ready : On(Ready[g]) # {} /\ Ready[g].ms = groups[g].ms
  BY ReadyFits, SameOf
<1>2. \A n \in DOMAIN Fed : FedFor(Ready, Fed[n]) BY <1>1, FedIs DEF Fed
<1>3. ASSUME NEW n \in DOMAIN Fed PROVE Used(groups, Fed[n].slot)
  <2>1. Fed[n].of \in InGroups(Ready) /\ Fed[n].slot = Member(Ready, Fed[n].of).slot
    BY <1>2 DEF FedFor
  <2>2. Fed[n].of[1] \in DOMAIN Ready BY <1>1, <2>1, InGroupsIs
  <2>3. Member(Ready, Fed[n].of) = Member(groups, Fed[n].of) BY <1>1, <2>2 DEF Member
  <2> QED BY <1>1, <2>1, <2>3 DEF Used
<1> QED BY <1>2, <1>3

\* A step that fails gives the live members' slots back empty.
LEMMA StepFailsHolds == ASSUME Types, SlotInv, StepFails PROVE SlotInv'
<1> DEFINE ss == LiveSlots(groups) \cup {f.slot : f \in Range(Fed)}
<1>1. kv' = Clear(kv, ss) /\ groups' = <<>> /\ at' = "idle" /\ UNCHANGED <<dormant, key, adapter, weights>>
  BY DEF StepFails
<1>2. /\ GroupTypes /\ groups \in Seq(Groups) /\ dormant \in Seq(NodeSet)
      /\ OneUser(groups) /\ GroupsHold(kv, groups) /\ NodesHold(kv) /\ Separate(kv, groups)
  BY DEF Types, TreeTypes, GroupTypes, SlotInv
<1>3. \A n \in DOMAIN Fed : Used(groups, Fed[n].slot) BY <1>2, ReadyHolds, FedSlots
<1>4. \A s : s \in ss <=> Used(groups, s)
  <2>1. \A s : s \in LiveSlots(groups) <=> Used(groups, s) BY <1>2, UsedIs
  <2>2. \A s : s \in {f.slot : f \in Range(Fed)} => \E n \in DOMAIN Fed : s = Fed[n].slot
    BY DEF Range
  <2> QED BY <1>3, <2>1, <2>2
<1>5. \A s \in Pool : kv'[s] = IF s \in ss THEN <<>> ELSE kv[s]
  <2> HIDE DEF ss
  <2> QED BY <1>1 DEF Clear
<1> HIDE DEF ss
<1>6. \A s : ~Used(groups', s) BY <1>1 DEF Used, InGroups
<1>7. DormantSlots' = DormantSlots /\ Range(dormant') = Range(dormant) /\ Apart(dormant')
  BY <1>1, <1>2 DEF DormantSlots, NodesHold
<1>8. \A s \in Pool : ~(Used(groups, s) /\ s \in DormantSlots) BY <1>2 DEF Separate
<1>9. KeyFits' BY <1>1 DEF KeyFits
<1>10. \A s \in Pool : /\ s \in ss => ~Used(groups', s) /\ s \notin DormantSlots'
                       /\ Used(groups, s) => Used(groups', s) \/ s \in ss
                       /\ s \in DormantSlots => s \in DormantSlots' \/ s \in ss
  BY <1>4, <1>6, <1>7, <1>8
<1> QED BY <1>1, <1>5, <1>7, <1>9, <1>10, EmptiedHolds

-----------------------------------------------------------------------------
(* An accepted step.                                                        *)

\* Groups and a pool that a step is composed of.
Stepping(gs, pool, fed) ==
    /\ Composing(gs, pool, fed) /\ Accepted(pool, fed)
    /\ \A g \in DOMAIN gs : gs[g].phase = "prefill" => gs[g].pos < PrefixEnd(gs[g])

\* What comes before a place that gets into the step gets in too.
LEMMA TakenDown ==
    ASSUME NEW gs \in Seq(Groups), \A g \in DOMAIN gs : On(gs[g]) # {},
           NEW p \in Taken(gs), NEW q \in Wanted(gs), Before(q, p)
    PROVE  q \in Taken(gs)
<1> DEFINE W == Wanted(gs)
           ahead(x) == {r \in W : Before(r, x)}
           room == Batch - Cardinality(Decodes(gs))
<1>1. IsFiniteSet(W) /\ W \in SUBSET (Int \X Int) /\ p \in W BY WantedFits
<1>2. Taken(gs) = {x \in W : Cardinality(ahead(x)) < room} BY DEF Taken
<1>3. room \in Int
  <2>1. PICK c \in Nat : c = Cardinality(Decodes(gs)) BY ComposeFits
  <2> QED BY <2>1, Constants
<1>4. Cardinality(ahead(p)) < room
  <2> HIDE DEF W, ahead, room
  <2> QED BY <1>2
<1>5. ahead(q) \in SUBSET ahead(p) /\ ahead(p) \in SUBSET W
  <2>1. q \in Int \X Int /\ p \in Int \X Int /\ \A r \in W : r \in Int \X Int BY <1>1
  <2> HIDE DEF W
  <2>2. ASSUME NEW r \in W, Before(r, q) PROVE Before(r, p) BY <2>1, <2>2 DEF Before
  <2> QED BY <2>2
<1> HIDE DEF W, ahead, room
<1>6. IsFiniteSet(ahead(p)) /\ IsFiniteSet(ahead(q)) /\ Cardinality(ahead(q)) <= Cardinality(ahead(p))
  <2>1. IsFiniteSet(ahead(p)) BY <1>1, <1>5, FS_Subset, Zenon
  <2> QED BY <1>5, <2>1, FS_Subset, Zenon
<1>7. Cardinality(ahead(p)) \in Nat /\ Cardinality(ahead(q)) \in Nat BY <1>6, FS_CardinalityType
<1>8. Cardinality(ahead(q)) < room BY <1>3, <1>4, <1>6, <1>7
<1> QED BY <1>2, <1>8 DEF W

\* The tokens for a member's slot are those fed to the member.
LEMMA RowsAre ==
    ASSUME NEW gs, NEW pool, NEW fed, Composing(gs, pool, fed), NEW g \in DOMAIN gs, NEW i \in On(gs[g])
    PROVE  /\ \A n \in Rows(fed, gs[g].ms[i].slot) :
                n \in DOMAIN fed /\ FedFor(gs, fed[n]) /\ fed[n].of = <<g, i>> /\ fed[n].pos \in Int
           /\ \A n \in DOMAIN fed : fed[n].of = <<g, i>> => n \in Rows(fed, gs[g].ms[i].slot)
<1>1. gs \in Seq(Groups) /\ OneUser(gs) BY DEF Composing
<1>2. \A n \in DOMAIN fed : FedFor(gs, fed[n]) /\ fed[n].pos \in Int
  <2>1. \A n \in DOMAIN fed : FedFor(gs, fed[n]) BY FedIs DEF Composing
  <2>2. \A n \in DOMAIN fed : fed[n] \in Feeds(gs) BY DEF Composing
  <2> QED BY <2>1, <2>2 DEF Feeds, FeedSet
<1>3. <<g, i>> \in InGroups(gs) /\ Member(gs, <<g, i>>) = gs[g].ms[i] BY <1>1, InGroupsIs
<1>4. ASSUME NEW n \in DOMAIN fed PROVE fed[n].slot = gs[g].ms[i].slot <=> fed[n].of = <<g, i>>
  <2>1. fed[n].of \in InGroups(gs) /\ fed[n].slot = Member(gs, fed[n].of).slot BY <1>2 DEF FedFor
  <2> QED BY <1>1, <1>3, <2>1 DEF OneUser
<1> QED BY <1>2, <1>4 DEF Rows

\* Tokens that all go to the same place of a slot are one.
LEMMA OneMore ==
    ASSUME NEW pool \in PoolFn, NEW gs, NEW fed \in Seq(Feeds(gs)), Accepted(pool, fed), NEW s \in Pool,
           Rows(fed, s) # {}, \A n \in Rows(fed, s) : fed[n].pos = Len(pool[s])
    PROVE  Len(Written(pool, fed)[s]) = Len(pool[s]) + 1
<1>1. PICK m \in Nat, l \in Nat : m = Len(pool[s]) /\ l = Len(Written(pool, fed)[s]) BY WrittenIs
<1>2. m < l BY <1>1, WrittenIs
<1>3. \A j \in 1 .. l : j \in DOMAIN pool[s] \/ \E n \in Rows(fed, s) : fed[n].pos = j - 1
  BY <1>1, WrittenIs
<1>4. DOMAIN pool[s] = 1 .. m BY <1>1 DEF PoolFn
<1>5. l \in 1 .. l /\ l \notin 1 .. m BY <1>2
<1>6. l - 1 = m BY <1>1, <1>3, <1>4, <1>5
<1> QED BY <1>1, <1>6

\* The places of its prompt a group gets, and how far that moves it on.
LEMMA FedToIs ==
    ASSUME NEW gs \in Seq(Groups), \A g \in DOMAIN gs : On(gs[g]) # {}, NEW g \in DOMAIN gs
    PROVE  LET ks == FedTo(gs, Taken(gs), g) IN
           /\ \A k : <<g, k>> \in Taken(gs) <=> k \in ks
           /\ \A k \in ks : k \in Nat /\ k \in Wants(gs[g])
           /\ ks = {} => MovedOn(gs[g], ks) = gs[g].pos
           /\ ks # {} => /\ Max(ks) \in ks /\ \A k \in ks : k <= Max(ks)
                         /\ MovedOn(gs[g], ks) = Max(ks) + (IF gs[g].phase = "prefill" THEN 0 ELSE 1)
<1> DEFINE ks == FedTo(gs, Taken(gs), g)
           x == gs[g]
<1>1. /\ Taken(gs) \in SUBSET Wanted(gs) /\ \A p \in Wanted(gs) : p[2] \in Wants(gs[p[1]])
  BY WantedFits
<1>2. IsFiniteSet(Wants(x)) /\ \A k \in Wants(x) : k \in Nat BY WantsFits
<1>3. \A k : <<g, k>> \in Taken(gs) <=> k \in ks
  <2> SUFFICES ASSUME NEW k, <<g, k>> \in Taken(gs) PROVE k \in Wants(x) BY DEF FedTo
  <2>1. <<g, k>> \in Wanted(gs) /\ <<g, k>>[1] = g /\ <<g, k>>[2] = k BY <1>1
  <2> QED BY <1>1, <2>1
<1>4. ks \in SUBSET Wants(x) BY DEF FedTo
<1>5. IsFiniteSet(ks) /\ ks \in SUBSET Int
  <2>1. IsFiniteSet(ks) BY <1>2, <1>4, FS_Subset, Zenon
  <2> QED BY <1>2, <1>4, <2>1
<1>6. ks # {} => Max(ks) \in ks /\ \A k \in ks : k <= Max(ks)
  <2> HIDE DEF ks
  <2> QED BY <1>5, MaxFits
<1> HIDE DEF ks
<1>7. /\ ks = {} => MovedOn(x, ks) = x.pos
      /\ ks # {} => MovedOn(x, ks) = Max(ks) + (IF x.phase = "prefill" THEN 0 ELSE 1)
  BY DEF MovedOn
<1> QED BY <1>2, <1>3, <1>4, <1>6, <1>7 DEF ks

\* A group that does not prefill feeds a member what it samples from, at the end
\* of its slot, and before its first sample once.
LEMMA RowsNext ==
    ASSUME NEW gs, NEW pool, NEW fed, Composing(gs, pool, fed), NEW g \in DOMAIN gs, NEW i \in On(gs[g]),
           gs[g].phase # "prefill", NEW n \in Rows(fed, gs[g].ms[i].slot)
    PROVE  /\ fed[n].pos = Len(pool[gs[g].ms[i].slot]) /\ fed[n].sample
           /\ gs[g].phase = "terminal" => gs[g].ms[i].gen = 0 /\ <<g, i>> \in Taken(gs)
<1> DEFINE x == gs[g]
           p == <<g, i>>
<1>1. gs \in Seq(Groups) /\ x \in Groups /\ (\A h \in DOMAIN gs : On(gs[h]) # {}) /\ MemberHolds(pool, x, i)
  BY DEF Composing, GroupsHold
<1>2. /\ Len(PromptOf(x)) \in Nat /\ x.ms[i].gen \in Nat /\ x.pos \in Nat /\ x.phase \in Phases /\ i \in Nat
      /\ Member(gs, p) = x.ms[i]
  <2>1. Pool \in SUBSET Nat BY DEF Pool
  <2> QED BY <1>1, <2>1, GroupParts, InGroupsIs
<1>3. FedFor(gs, fed[n]) /\ fed[n].of = p /\ gs[fed[n].of[1]] = x BY RowsAre
<1> HIDE DEF x, p
<1>4. Len(pool[x.ms[i].slot]) = Len(PromptOf(x)) + x.ms[i].gen - 1 /\ Progress(x, i)
  BY <1>1 DEF MemberHolds, Span, x
<1>5. CASE x.phase = "decode"
  <2>1. fed[n].pos = Len(PromptOf(x)) + Member(gs, p).gen - 1 /\ fed[n].sample
    BY <1>3, <1>5 DEF FedFor
  <2> QED BY <1>2, <1>4, <1>5, <2>1 DEF x
<1>6. CASE x.phase = "terminal"
  <2>1. p \in Taken(gs) /\ fed[n].pos = Len(PromptOf(x)) - 1 /\ fed[n].sample
    BY <1>3, <1>6 DEF FedFor
  <2>2. <<g, i>> \in Taken(gs) BY <2>1 DEF p
  <2>3. i \in Wants(x) BY <1>1, <2>2, FedToIs DEF x
  <2>4. i >= x.pos BY <1>6, <2>3 DEF Wants
  <2>5. x.ms[i].gen = 0
    <3>1. x.ms[i].gen = IF i < x.pos THEN 1 ELSE 0 BY <1>4, <1>6 DEF Progress
    <3> QED BY <1>2, <2>4, <3>1
  <2>6. fed[n].pos = Len(pool[x.ms[i].slot]) BY <1>2, <1>4, <2>1, <2>5
  <2> QED BY <2>1, <2>5, <2>6 DEF x, p
<1> QED BY <1>2, <1>5, <1>6 DEF Phases, x

\* What a member's slot is to hold after the step: it has decoded, has sampled
\* its first token, or leads the prefill of its group.
Wrote(gs, fed, g, i, y) ==
    /\ PromptOf(y) = PromptOf(gs[g]) /\ y.phase = gs[g].phase /\ y.leader = gs[g].leader
    /\ y.pos = MovedOn(gs[g], FedTo(gs, Taken(gs), g)) /\ y.ms[i].slot = gs[g].ms[i].slot
    /\ y.ms[i].gen = gs[g].ms[i].gen + (IF <<g, i>> \in Sampling(fed) THEN 1 ELSE 0)
Reaches(pool, fed, g, i, y) ==
    Progress(y, i) /\ Len(Written(pool, fed)[y.ms[i].slot]) = Span(y, i)

\* One that has sampled, or is to sample its first token from the last one of
\* the prompt.
LEMMA SampleReaches ==
    ASSUME NEW gs, NEW pool, NEW fed, Stepping(gs, pool, fed), NEW g \in DOMAIN gs, NEW i \in On(gs[g]),
           NEW y, Wrote(gs, fed, g, i, y), gs[g].phase # "prefill"
    PROVE  Reaches(pool, fed, g, i, y)
<1> DEFINE x == gs[g]
           p == <<g, i>>
           s == x.ms[i].slot
           last == Len(PromptOf(x))
           ks == FedTo(gs, Taken(gs), g)
           w == Len(Written(pool, fed)[s])
<1>1. /\ gs \in Seq(Groups) /\ \A h \in DOMAIN gs : On(gs[h]) # {}
      /\ pool \in PoolFn /\ GroupsHold(pool, gs) /\ fed = Compose(gs)
      /\ fed \in Seq(Feeds(gs)) /\ Accepted(pool, fed) /\ Composing(gs, pool, fed)
  BY DEF Stepping, Composing
<1>2. /\ s \in Pool /\ last \in Nat /\ x.ms[i].gen \in Nat /\ x.pos \in Nat /\ i \in Nat
      /\ x.phase \in {"terminal", "decode"} /\ x = gs[g]
  <2>1. x \in Groups /\ Pool \in SUBSET Nat BY <1>1 DEF Pool
  <2> QED BY <1>1, <2>1, GroupParts DEF Phases
<1>3. Progress(x, i) /\ Len(pool[s]) = last + x.ms[i].gen - 1
  BY <1>1 DEF GroupsHold, MemberHolds, Span
<1>4. \A n \in Rows(fed, s) :
        /\ n \in DOMAIN fed /\ fed[n].of = p /\ fed[n].pos = Len(pool[s]) /\ fed[n].sample
        /\ x.phase = "terminal" => x.ms[i].gen = 0 /\ p \in Taken(gs)
  <2> TAKE n \in Rows(fed, s)
  <2>1. n \in DOMAIN fed /\ fed[n].of = p BY <1>1, RowsAre
  <2> QED BY <1>1, <2>1, RowsNext
<1>5. \A n \in DOMAIN fed : fed[n].of = p => n \in Rows(fed, s) BY <1>1, RowsAre
<1>6. y.ms[i].slot = s /\ y.phase = x.phase /\ PromptOf(y) = PromptOf(x) /\ y.pos = MovedOn(x, ks)
      /\ y.ms[i].gen = x.ms[i].gen + (IF p \in Sampling(fed) THEN 1 ELSE 0) BY DEF Wrote
<1>7. /\ \A k : <<g, k>> \in Taken(gs) <=> k \in ks
      /\ \A k \in ks : k \in Nat /\ k \in Wants(x)
      /\ ks = {} => MovedOn(x, ks) = x.pos
      /\ ks # {} => Max(ks) \in ks /\ (\A k \in ks : k <= Max(ks)) /\ MovedOn(x, ks) = Max(ks) + 1
  BY <1>1, FedToIs
<1>8. x.phase = "terminal" => \A k : k \in Wants(x) <=> k \in On(x) /\ k >= x.pos BY DEF Wants
<1> HIDE DEF x, s, last, ks, w
<1>9. p \in Sampling(fed) <=> Rows(fed, s) # {} BY <1>4, <1>5 DEF Sampling
<1>10. w = last + y.ms[i].gen - 1
  <2>1. CASE Rows(fed, s) = {}
    <3>1. w = Len(pool[s]) /\ y.ms[i].gen = x.ms[i].gen
      BY <1>1, <1>2, <1>6, <1>9, <2>1, WrittenIs DEF w
    <3> QED BY <1>3, <3>1
  <2>2. CASE Rows(fed, s) # {}
    <3>1. w = Len(pool[s]) + 1 /\ y.ms[i].gen = x.ms[i].gen + 1
      BY <1>1, <1>2, <1>4, <1>6, <1>9, <2>2, OneMore DEF w
    <3> QED BY <1>2, <1>3, <3>1
  <2> QED BY <2>1, <2>2
<1>11. CASE x.phase = "decode"
  <2>1. y.ms[i].gen > 0 BY <1>2, <1>3, <1>6, <1>11 DEF Progress
  <2> QED BY <1>6, <1>10, <1>11, <2>1 DEF Reaches, Progress, Span, last, w
<1>12. CASE x.phase = "terminal"
  <2>1. y.ms[i].gen = IF i < y.pos THEN 1 ELSE 0
    <3>1. x.ms[i].gen = IF i < x.pos THEN 1 ELSE 0 BY <1>3, <1>12 DEF Progress
    <3>2. CASE Rows(fed, s) # {}
      <4>1. x.ms[i].gen = 0 /\ i \in ks BY <1>4, <1>7, <1>12, <3>2
      <4>2. PICK m \in Nat : m = Max(ks) /\ y.pos = m + 1 /\ i <= m BY <1>6, <1>7, <4>1
      <4> QED BY <1>2, <1>6, <1>9, <3>2, <4>1, <4>2
    <3>3. CASE Rows(fed, s) = {} /\ ks = {} BY <1>2, <1>6, <1>7, <1>9, <3>1, <3>3
    <3>4. CASE Rows(fed, s) = {} /\ ks # {}
      <4>1. PICK m \in Nat : m = Max(ks) /\ m \in ks /\ y.pos = m + 1 /\ m >= x.pos
        BY <1>6, <1>7, <1>8, <1>12, <3>4
      <4>2. p \notin Taken(gs) BY <1>1, <1>2, <1>5, <1>12, <3>4, FedIs
      <4>3. i # m /\ <<g, m>> \in Taken(gs) BY <1>7, <4>1, <4>2
      <4>4. ~(i >= x.pos /\ i < m)
        <5> SUFFICES ASSUME i >= x.pos, i < m PROVE FALSE OBVIOUS
        <5>1. p \in Wanted(gs)
          <6>1. i \in Wants(x) BY <1>8, <1>12 DEF x
          <6> QED BY <1>1, <6>1, WantedFits DEF x
        <5>2. Before(p, <<g, m>>) BY DEF Before
        <5> QED BY <1>1, <4>2, <4>3, <5>1, <5>2, TakenDown
      <4> QED BY <1>2, <1>6, <1>9, <3>1, <3>4, <4>1, <4>3, <4>4
    <3> QED BY <3>2, <3>3, <3>4
  <2> QED BY <1>6, <1>10, <1>12, <2>1 DEF Reaches, Progress, Span, last, w
<1> QED BY <1>2, <1>11, <1>12

\* One in a group that prefills: the leader's slot has the prompt so far.
LEMMA PrefillReaches ==
    ASSUME NEW gs, NEW pool, NEW fed, Stepping(gs, pool, fed), NEW g \in DOMAIN gs, NEW i \in On(gs[g]),
           NEW y, Wrote(gs, fed, g, i, y), gs[g].phase = "prefill"
    PROVE  Reaches(pool, fed, g, i, y)
<1> DEFINE x == gs[g]
           p == <<g, i>>
           s == x.ms[i].slot
           last == Len(PromptOf(x))
           ks == FedTo(gs, Taken(gs), g)
<1>1. /\ gs \in Seq(Groups) /\ \A h \in DOMAIN gs : On(gs[h]) # {}
      /\ pool \in PoolFn /\ GroupsHold(pool, gs) /\ fed = Compose(gs)
      /\ fed \in Seq(Feeds(gs)) /\ Accepted(pool, fed) /\ Composing(gs, pool, fed)
  BY DEF Stepping, Composing
<1>2. /\ s \in Pool /\ last \in Nat /\ x.ms[i].gen \in Nat /\ x.pos \in Nat /\ i \in Nat
      /\ x.pos < last /\ \A k \in Wants(x) : k \in Nat /\ k <= last
  <2>1. x \in Groups BY <1>1
  <2>2. Pool \in SUBSET Nat BY DEF Pool
  <2>3. /\ s \in Pool /\ last \in Nat /\ x.ms[i].gen \in Nat /\ x.pos \in Nat /\ i \in Nat
        /\ PrefixEnd(x) \in Nat /\ PrefixEnd(x) <= last BY <1>1, <2>1, <2>2, GroupParts
  <2>4. x.pos < PrefixEnd(x) BY DEF Stepping
  <2>5. \A k \in Wants(x) : k \in 1 .. last BY <1>1, <2>1, WantsFits
  <2> HIDE DEF x, last
  <2> QED BY <2>3, <2>4, <2>5
<1>3. x.ms[i].gen = (IF i = x.leader /\ x.pos = last THEN 1 ELSE 0)
      /\ Len(pool[s]) = IF i = x.leader THEN x.pos ELSE 0
  BY <1>1 DEF GroupsHold, MemberHolds, Progress, Span
<1>4. \A n \in Rows(fed, s) :
         /\ n \in DOMAIN fed /\ fed[n].of = p /\ i = x.leader /\ <<g, fed[n].pos + 1>> \in Taken(gs)
         /\ fed[n].pos \in Int /\ (fed[n].sample <=> fed[n].pos + 1 = last)
  <2> TAKE n \in Rows(fed, s)
  <2>1. n \in DOMAIN fed /\ FedFor(gs, fed[n]) /\ fed[n].of = p /\ fed[n].pos \in Int
    BY <1>1, RowsAre
  <2>2. gs[fed[n].of[1]] = x /\ fed[n].of[1] = g /\ fed[n].of[2] = i BY <2>1
  <2> HIDE DEF x, p
  <2>3. i = x.leader /\ <<g, fed[n].pos + 1>> \in Taken(gs)
        /\ (fed[n].sample <=> fed[n].pos + 1 = Len(PromptOf(x))) BY <2>1, <2>2 DEF FedFor, x
  <2> QED BY <2>1, <2>3
<1>5. \A n \in DOMAIN fed : fed[n].of = p => n \in Rows(fed, s) BY <1>1, RowsAre
<1>6. y.ms[i].slot = s /\ y.phase = "prefill" /\ PromptOf(y) = PromptOf(x) /\ y.pos = MovedOn(x, ks)
      /\ y.ms[i].gen = x.ms[i].gen + (IF p \in Sampling(fed) THEN 1 ELSE 0) /\ y.leader = x.leader
  BY DEF Wrote
<1>7. /\ \A k : <<g, k>> \in Taken(gs) <=> k \in ks
      /\ \A k \in ks : k \in Nat /\ k \in Wants(x)
      /\ ks = {} => MovedOn(x, ks) = x.pos
      /\ ks # {} => Max(ks) \in ks /\ (\A k \in ks : k <= Max(ks)) /\ MovedOn(x, ks) = Max(ks) + 0
  BY <1>1, FedToIs
<1>8. x.phase = "prefill" /\ x = gs[g] OBVIOUS
<1> HIDE DEF x, s, last, ks
<1>9. x.ms[i].gen = 0 BY <1>2, <1>3
<1>10. CASE Rows(fed, s) = {}
  <2>1. p \notin Sampling(fed) BY <1>5, <1>10 DEF Sampling
  <2>2. Len(Written(pool, fed)[s]) = Len(pool[s]) BY <1>1, <1>2, <1>10, WrittenIs
  <2>3. y.ms[i].gen = 0 BY <1>6, <1>9, <2>1
  <2>4. i = x.leader => y.pos = x.pos
    <3> SUFFICES ASSUME i = x.leader, ks # {} PROVE FALSE BY <1>6, <1>7
    <3>1. PICK k \in ks : <<g, k>> \in Taken(gs) BY <1>7
    <3>2. <<g, k>>[1] = g /\ p = <<g, x.leader>> OBVIOUS
    <3>3. PICK n \in DOMAIN fed : fed[n].of = p BY <1>1, <1>8, <3>1, <3>2, FedIs
    <3> QED BY <1>5, <1>10, <3>3
  <2>5. Len(Written(pool, fed)[s]) = IF i = y.leader THEN y.pos ELSE 0 BY <1>3, <1>6, <2>2, <2>4
  <2>6. y.ms[i].gen = IF i = y.leader /\ y.pos = last THEN 1 ELSE 0 BY <1>2, <1>6, <2>3, <2>4
  <2> QED BY <1>6, <2>5, <2>6 DEF Reaches, Progress, Span, last
<1>11. CASE Rows(fed, s) # {}
  <2>1. i = x.leader /\ ks # {} BY <1>4, <1>7, <1>11
  <2>2. PICK m \in Nat : m = Max(ks) /\ m \in ks /\ (\A k \in ks : k <= m) /\ y.pos = m /\ m <= last
    BY <1>2, <1>6, <1>7, <2>1
  <2>3. PICK n \in DOMAIN fed : fed[n].of = p /\ fed[n].pos = m - 1
    <3>1. <<g, m>> \in Taken(gs) /\ <<g, m>>[1] = g /\ <<g, m>>[2] = m /\ p = <<g, x.leader>>
      BY <1>7, <2>1, <2>2
    <3> QED BY <1>1, <1>8, <3>1, FedIs
  <2>4. n \in Rows(fed, s) /\ (fed[n].sample <=> m = last)
    <3>1. n \in Rows(fed, s) BY <1>5, <2>3
    <3>2. fed[n].sample <=> fed[n].pos + 1 = last BY <1>4, <3>1
    <3>3. (m - 1) + 1 = m OBVIOUS
    <3> QED BY <2>3, <3>1, <3>2, <3>3
  <2>5. PICK l \in Nat : l = Len(Written(pool, fed)[s]) BY <1>1, <1>2, WrittenIs
  <2>6. x.pos <= m - 1 /\ m - 1 < l
    <3>1. Len(pool[s]) <= fed[n].pos /\ fed[n].pos < Len(Written(pool, fed)[s])
      BY <1>1, <1>2, <2>4, WrittenIs
    <3> QED BY <1>3, <2>1, <2>3, <2>5, <3>1
  <2>7. l <= m
    <3>1. l \in 1 .. l BY <1>2, <2>6
    <3>2. l \in DOMAIN pool[s] \/ \E j \in Rows(fed, s) : fed[j].pos = l - 1
      <4>1. \A j \in 1 .. Len(Written(pool, fed)[s]) :
              j \in DOMAIN pool[s] \/ \E k \in Rows(fed, s) : fed[k].pos = j - 1
        BY <1>1, <1>2, WrittenIs
      <4> QED BY <2>5, <3>1, <4>1
    <3>3. l \notin DOMAIN pool[s]
      <4>1. DOMAIN pool[s] = 1 .. x.pos BY <1>1, <1>2, <1>3, <2>1 DEF PoolFn
      <4> QED BY <1>2, <2>2, <2>6, <4>1
    <3>4. PICK j \in Rows(fed, s) : fed[j].pos = l - 1 BY <3>2, <3>3
    <3>5. fed[j].pos + 1 = l BY <3>4
    <3> QED BY <1>4, <1>7, <2>2, <3>5
  <2>8. l = m BY <2>2, <2>6, <2>7
  <2>9. p \in Sampling(fed) <=> m = last
    <3>1. ASSUME p \in Sampling(fed) PROVE m = last
      <4>1. PICK j \in DOMAIN fed : fed[j].sample /\ fed[j].of = p BY <3>1 DEF Sampling
      <4>2. <<g, last>> \in Taken(gs) BY <1>4, <1>5, <4>1
      <4>3. last <= m BY <1>7, <2>2, <4>2
      <4> QED BY <1>2, <2>2, <4>3
    <3>2. ASSUME m = last PROVE p \in Sampling(fed) BY <2>3, <2>4, <3>2 DEF Sampling
    <3> QED BY <3>1, <3>2
  <2>10. y.ms[i].gen = IF y.pos = last THEN 1 ELSE 0 BY <1>6, <1>9, <2>2, <2>9
  <2> QED BY <1>6, <2>1, <2>2, <2>5, <2>8, <2>10 DEF Reaches, Progress, Span, last
<1> QED BY <1>10, <1>11

\* What is written for a member is its own.
LEMMA WrittenCarries ==
    ASSUME NEW gs, NEW pool, NEW fed, Stepping(gs, pool, fed), NEW g \in DOMAIN gs, NEW i \in On(gs[g]),
           NEW y, PromptOf(y) = PromptOf(gs[g]), y.ms[i].slot = gs[g].ms[i].slot
    PROVE  Carries(Written(pool, fed)[y.ms[i].slot], y)
<1> DEFINE x == gs[g]
           s == x.ms[i].slot
           w == Written(pool, fed)[s]
<1>1. /\ gs \in Seq(Groups) /\ pool \in PoolFn /\ GroupsHold(pool, gs)
      /\ fed \in Seq(Feeds(gs)) /\ Accepted(pool, fed) /\ Composing(gs, pool, fed)
  BY DEF Stepping, Composing
<1>2. s \in Pool
  <2>1. x \in Groups BY <1>1
  <2>2. /\ On(x) \subseteq DOMAIN x.ms
        /\ \A j \in DOMAIN x.ms : x.ms[j].slot \in Pool BY <2>1, GroupParts
  <2> QED BY <2>2
<1>3. \A n \in DOMAIN pool[s] : pool[s][n].tok = <<CacheKey, Token(x, n)>>
  BY <1>1 DEF GroupsHold, MemberHolds, Carries
<1>4. \A n \in Rows(fed, s) : fed[n].tok = Token(x, fed[n].pos + 1) /\ fed[n].pos \in Int
  <2> TAKE n \in Rows(fed, s)
  <2>1. n \in DOMAIN fed /\ FedFor(gs, fed[n]) /\ fed[n].of = <<g, i>> /\ fed[n].pos \in Int
    BY <1>1, RowsAre
  <2>2. gs[fed[n].of[1]] = x BY <2>1
  <2> HIDE DEF x
  <2> QED BY <2>1, <2>2 DEF FedFor
<1>5. y.ms[i].slot = s /\ PromptOf(y) = PromptOf(x) OBVIOUS
<1> HIDE DEF x, s
<1>6. \A n : Token(y, n) = Token(x, n) BY <1>5 DEF Token
<1>7. ASSUME NEW j \in DOMAIN w PROVE w[j].tok = <<CacheKey, Token(y, j)>>
  <2>1. j \in 1 .. Len(w) /\ j \in Int
    <3>1. DOMAIN w = 1 .. Len(w) /\ Len(w) \in Nat BY <1>1, <1>2, WrittenIs
    <3> HIDE DEF w
    <3> QED BY <3>1
  <2>2. \/ j \in DOMAIN pool[s] /\ w[j] = pool[s][j]
        \/ \E n \in Rows(fed, s) : fed[n].pos = j - 1 /\ w[j].tok = <<CacheKey, fed[n].tok>>
    <3>1. \A k \in 1 .. Len(Written(pool, fed)[s]) :
            \/ k \in DOMAIN pool[s] /\ Written(pool, fed)[s][k] = pool[s][k]
            \/ \E n \in Rows(fed, s) :
                 fed[n].pos = k - 1 /\ Written(pool, fed)[s][k].tok = <<CacheKey, fed[n].tok>>
      BY <1>1, <1>2, WrittenIs
    <3> QED BY <2>1, <3>1
  <2>3. CASE j \in DOMAIN pool[s] /\ w[j] = pool[s][j] BY <1>3, <1>6, <2>3
  <2>4. ASSUME NEW n \in Rows(fed, s), fed[n].pos = j - 1, w[j].tok = <<CacheKey, fed[n].tok>>
        PROVE  w[j].tok = <<CacheKey, Token(y, j)>>
    <3>1. fed[n].pos + 1 = j BY <2>1, <2>4
    <3> QED BY <1>4, <1>6, <2>4, <3>1
  <2> QED BY <2>2, <2>3, <2>4
<1> QED BY <1>5, <1>7 DEF Carries

\* So it has, after the step, what it is to hold.
LEMMA WrittenHolds ==
    ASSUME NEW gs, NEW pool, NEW fed, Stepping(gs, pool, fed), NEW g \in DOMAIN gs, NEW i \in On(gs[g]),
           NEW y, Wrote(gs, fed, g, i, y)
    PROVE  MemberHolds(Written(pool, fed), y, i)
<1>1. Carries(Written(pool, fed)[y.ms[i].slot], y) BY WrittenCarries DEF Wrote
<1>2. gs[g].phase \in {"prefill", "terminal", "decode"}
  <2>1. gs[g] \in Groups BY DEF Stepping, Composing
  <2> QED BY <2>1, GroupParts DEF Phases
<1>3. Reaches(pool, fed, g, i, y) BY <1>2, SampleReaches, PrefillReaches
<1> QED BY <1>1, <1>3 DEF MemberHolds, Reaches

\* What no member has is not written to.
LEMMA WrittenApart ==
    ASSUME NEW gs, NEW pool, NEW fed, Stepping(gs, pool, fed), Written(pool, fed) \in PoolFn,
           dormant \in Seq(NodeSet), NodesHold(pool), Separate(pool, gs)
    PROVE  NodesHold(Written(pool, fed)) /\ Separate(Written(pool, fed), gs)
<1> DEFINE room == Written(pool, fed)
<1>1. /\ gs \in Seq(Groups) /\ pool \in PoolFn /\ fed = Compose(gs)
      /\ fed \in Seq(Feeds(gs)) /\ Accepted(pool, fed) /\ \A h \in DOMAIN gs : On(gs[h]) # {}
      /\ GroupsHold(pool, gs) BY DEF Stepping, Composing
<1>2. \A n \in DOMAIN fed : Used(gs, fed[n].slot)
  <2> TAKE n \in DOMAIN fed
  <2>1. FedFor(gs, fed[n]) BY <1>1, FedIs
  <2> QED BY <2>1 DEF FedFor, Used
<1>3. ASSUME NEW s \in Pool, ~Used(gs, s) PROVE room[s] = pool[s]
  <2>1. Rows(fed, s) = {} BY <1>2, <1>3 DEF Rows
  <2>2. Len(room[s]) = Len(pool[s]) BY <1>1, <2>1, WrittenIs
  <2>3. \A j \in 1 .. Len(room[s]) : room[s][j] = pool[s][j]
    <3>1. pool \in PoolFn /\ fed \in Seq(Feeds(gs)) /\ Accepted(pool, fed) BY <1>1
    <3>2. \A j \in 1 .. Len(Written(pool, fed)[s]) :
            \/ j \in DOMAIN pool[s] /\ Written(pool, fed)[s][j] = pool[s][j]
            \/ /\ j > Len(pool[s])
               /\ \E n \in Rows(fed, s) :
                    /\ fed[n].pos = j - 1
                    /\ Written(pool, fed)[s][j].tok = <<CacheKey, fed[n].tok>> BY <3>1, WrittenIs
    <3> QED BY <2>1, <3>2
  <2>4. room[s] \in Seq(CellSet) /\ pool[s] \in Seq(CellSet) BY <1>1 DEF PoolFn
  <2> HIDE DEF room
  <2> QED BY <2>2, <2>3, <2>4, SameSequence
<1> HIDE DEF room
<1>4. ASSUME NEW d \in Range(dormant) PROVE NodeHolds(room, d)
  <2>1. d \in NodeSet /\ NodeHolds(pool, d) /\ d.slot \in DormantSlots
    BY RangeFinite DEF NodesHold, DormantSlots
  <2>2. d.slot \in Pool BY <2>1 DEF NodeSet
  <2>3. room[d.slot] = pool[d.slot] BY <1>3, <2>1, <2>2 DEF Separate
  <2> QED BY <2>1, <2>3 DEF NodeHolds
<1>5. NodesHold(room) BY <1>4 DEF NodesHold
<1>6. Separate(room, gs) BY <1>3 DEF Separate
<1> QED BY <1>5, <1>6 DEF room

\* The members that end, in the order of the step's tokens: each once.
EndsOf(fed, E) ==
    Kept([n \in DOMAIN fed |-> fed[n].of], {n \in DOMAIN fed : fed[n].sample /\ fed[n].of \in E})
\* The members that end are exactly those chosen, no one of them twice.
LEMMA EndsAre ==
    ASSUME NEW gs, NEW pool, NEW fed, Composing(gs, pool, fed), NEW E, E \subseteq Sampling(fed)
    PROVE  /\ EndsOf(fed, E) \in Seq(InGroups(gs)) /\ Range(EndsOf(fed, E)) = E /\ Differ(EndsOf(fed, E))
           /\ Sampling(fed) \subseteq InGroups(gs)
<1> DEFINE ofs == [n \in DOMAIN fed |-> fed[n].of]
           K == {n \in DOMAIN fed : fed[n].sample /\ fed[n].of \in E}
           ps == Kept(ofs, K)
<1>1. /\ gs \in Seq(Groups) /\ \A h \in DOMAIN gs : On(gs[h]) # {}
      /\ GroupsHold(pool, gs) /\ fed = Compose(gs) /\ fed \in Seq(Feeds(gs)) BY DEF Composing
<1>2. \A n \in DOMAIN fed : FedFor(gs, fed[n]) /\ fed[n].pos \in Int /\ fed[n].of \in InGroups(gs)
  <2>1. \A n \in DOMAIN fed : FedFor(gs, fed[n]) BY <1>1, FedIs
  <2>2. \A n \in DOMAIN fed : fed[n] \in Feeds(gs) BY <1>1
  <2>3. \A n \in DOMAIN fed : fed[n].of \in InGroups(gs) BY <2>1 DEF FedFor
  <2> QED BY <2>1, <2>2, <2>3 DEF Feeds, FeedSet
<1>3. ASSUME NEW n \in K, NEW m \in K, n < m, fed[n].of = fed[m].of PROVE FALSE
  <2> DEFINE x == gs[fed[n].of[1]]
  <2>1. n \in DOMAIN fed /\ m \in DOMAIN fed /\ fed[n].sample /\ fed[m].sample OBVIOUS
  <2>2. x.phase = "prefill" /\ fed[n].pos < fed[m].pos BY <1>3, <2>1, ComposeOrder
  <2>3. gs[fed[m].of[1]] = x BY <1>3
  <2>4. fed[n].pos + 1 = Len(PromptOf(x)) /\ fed[m].pos + 1 = Len(PromptOf(x))
    <3>1. FedFor(gs, fed[n]) /\ FedFor(gs, fed[m]) BY <1>2, <2>1
    <3> QED BY <2>1, <2>2, <2>3, <3>1 DEF FedFor
  <2>5. fed[n].pos \in Int /\ fed[m].pos \in Int BY <1>2, <2>1
  <2>6. fed[n].pos + 1 = fed[m].pos + 1 BY <2>4
  <2> HIDE DEF K, x
  <2> QED BY <2>2, <2>5, <2>6
<1>4. K \in SUBSET (DOMAIN ofs) /\ \A n \in K : n \in Int /\ ofs[n] = fed[n].of /\ ofs[n] \in E
  BY <1>1
<1>5. \A p \in E : \E n \in K : ofs[n] = p BY DEF Sampling
<1>6. ofs \in Seq(InGroups(gs)) BY <1>1, <1>2
<1>7. Sampling(fed) \subseteq InGroups(gs) BY <1>2 DEF Sampling
<1> HIDE DEF K, ofs
<1>8. PICK c \in Nat : c = Cardinality(K)
  <2>1. Cardinality(K) \in 0 .. Len(ofs) /\ Len(ofs) \in Nat BY <1>4, <1>6, KeptFits
  <2> QED BY <2>1
<1>9. /\ ps \in Seq(InGroups(gs)) /\ DOMAIN ps = 1 .. c
      /\ \A k \in 1 .. c : Nth(K, k) \in K /\ ps[k] = ofs[Nth(K, k)]
      /\ \A i \in K : \E k \in 1 .. c : Nth(K, k) = i
      /\ \A k, l \in 1 .. c : k < l => Nth(K, k) < Nth(K, l) BY <1>4, <1>6, <1>8, KeptFits
<1> HIDE DEF ps
<1>10. Range(ps) = E BY <1>4, <1>5, <1>9 DEF Range
<1>11. ASSUME NEW k \in 1 .. c, NEW l \in 1 .. c, k < l, ps[k] = ps[l] PROVE FALSE
  <2>1. Nth(K, k) \in K /\ Nth(K, l) \in K /\ Nth(K, k) < Nth(K, l) BY <1>9, <1>11
  <2>2. fed[Nth(K, k)].of = fed[Nth(K, l)].of BY <1>4, <1>9, <1>11, <2>1
  <2> QED BY <1>3, <2>1, <2>2
<1>12. Differ(ps)
  <2> SUFFICES ASSUME NEW k \in 1 .. c, NEW l \in 1 .. c, ps[k] = ps[l], k # l PROVE FALSE
    BY <1>9 DEF Differ
  <2>1. k < l \/ l < k OBVIOUS
  <2> QED BY <1>11, <2>1
<1> QED BY <1>7, <1>9, <1>10, <1>12 DEF ps, K, ofs, EndsOf

\* A step ends some of those that sample, among them all that nobody listens to.
LEMMA StepEnds ==
    ASSUME Step
    PROVE  \E E \in SUBSET Sampling(Fed) :
             /\ \A p \in Sampling(Fed) : p \notin E => p \in Emitting(Fed)
             /\ Retire(Emitted(Ready, Taken(Ready), Emitting(Fed)), Written(ReadyPool, Fed), EndsOf(Fed, E))
<1> DEFINE fed == Fed
           emitting == Emitting(fed)
           after == Emitted(Ready, Taken(Ready), emitting)
           spent == {p \in emitting : BudgetSpent(Member(after, p))}
<1>1. PICK stops \in SUBSET (emitting \ spent) :
        LET finish == stops \cup spent
            ends == {p \in Sampling(fed) : p \in emitting => p \in finish}
        IN  Retire(after, Written(ReadyPool, fed),
                   Kept([n \in DOMAIN fed |-> fed[n].of],
                        {n \in DOMAIN fed : fed[n].sample /\ fed[n].of \in ends})) BY DEF Step
<1> DEFINE E == {p \in Sampling(fed) : p \in emitting => p \in stops \cup spent}
<1>2. Retire(after, Written(ReadyPool, fed), EndsOf(fed, E)) BY <1>1 DEF EndsOf
<1>3. E \in SUBSET Sampling(fed) /\ \A p \in Sampling(fed) : p \notin E => p \in emitting OBVIOUS
<1> HIDE DEF E, after, emitting, fed
<1>4. E \in SUBSET Sampling(Fed) BY <1>3 DEF fed
<1> WITNESS E \in SUBSET Sampling(Fed)
<1> QED BY <1>2, <1>3, <1>4 DEF after, emitting, fed

\* The tokens are composed for what the slots hold.
LEMMA ReadyComposes == ASSUME Types, SlotInv PROVE Composing(Ready, ReadyPool, Fed) /\ \A g \in DOMAIN Ready : Alive(Ready[g])
<1>1. GroupTypes /\ kv \in PoolFn /\ dormant \in Seq(NodeSet) BY DEF Types, TreeTypes
<1>2. /\ Ready \in Seq(Groups) /\ DOMAIN Ready = DOMAIN groups
      /\ \A g \in DOMAIN groups : Ready[g].ms = groups[g].ms /\ On(Ready[g]) = On(groups[g]) /\ On(Ready[g]) # {}
  BY <1>1, ReadyFits
<1>3. OneUser(Ready) /\ GroupsHold(ReadyPool, Ready) BY <1>1, ReadyHolds DEF SlotInv
<1>4. ReadyPool \in PoolFn BY <1>1, ReadyPoolFits
<1>5. Fed = Compose(Ready) /\ Fed \in Seq(Feeds(Ready)) BY <1>2, ComposeFits DEF Fed
<1>6. \A g \in DOMAIN Ready : Alive(Ready[g]) BY <1>1, <1>2 DEF GroupTypes, Alive
<1> QED BY <1>2, <1>3, <1>4, <1>5, <1>6 DEF Composing

\* A step writes to each member what is its own, and ends some.
LEMMA StepTakes == ASSUME Types, SlotInv, Step PROVE SlotInv'
<1> DEFINE gs == Ready
           pool == ReadyPool
           fed == Fed
           emitting == Emitting(fed)
           after == Emitted(gs, Taken(gs), emitting)
           room == Written(pool, fed)
<1>1. /\ GroupTypes /\ groups \in Seq(Groups) /\ dormant \in Seq(NodeSet)
      /\ kv \in PoolFn /\ adapter \in Adapters /\ weights \in 0 .. Updates
      /\ OneUser(groups) /\ GroupsHold(kv, groups) /\ NodesHold(kv) /\ Separate(kv, groups)
  BY DEF Types, TreeTypes, GroupTypes, SlotInv
<1>2. /\ gs \in Seq(Groups) /\ DOMAIN gs = DOMAIN groups /\ InGroups(gs) = InGroups(groups)
      /\ \A g \in DOMAIN gs : On(gs[g]) # {} /\ Alive(gs[g])
  BY <1>1, ReadyComposes, ReadyFits, SameOf DEF Composing
<1>3. /\ OneUser(gs) /\ GroupsHold(pool, gs) /\ NodesHold(pool) /\ Separate(pool, gs)
      /\ \A g \in DOMAIN gs : gs[g].phase = "prefill" => gs[g].pos < PrefixEnd(gs[g])
  BY <1>1, ReadyHolds
<1>4. /\ Accepted(pool, fed) /\ UNCHANGED <<key, adapter, weights>> /\ at' = "idle" BY DEF Step
<1>5. Composing(gs, pool, fed) /\ fed \in Seq(Feeds(gs)) /\ fed = Compose(gs) /\ pool \in PoolFn
  BY ReadyComposes DEF Composing
<1> HIDE DEF gs, pool, fed
<1>7. Stepping(gs, pool, fed) BY <1>3, <1>4, <1>5 DEF Stepping
<1>8. room \in PoolFn BY <1>1, <1>4, <1>5, WrittenFits DEF Accepted
<1>9. PICK E \in SUBSET Sampling(fed) :
         /\ \A p \in Sampling(fed) : p \notin E => p \in emitting
         /\ Retire(after, room, EndsOf(fed, E)) BY StepEnds DEF gs, pool, fed
<1> DEFINE ps == EndsOf(fed, E)
<1>10. ps \in Seq(InGroups(gs)) /\ Range(ps) = E /\ Differ(ps) /\ Sampling(fed) \subseteq InGroups(gs)
  BY <1>5, <1>9, EndsAre
<1>11. emitting \in SUBSET InGroups(gs) /\ emitting \subseteq Sampling(fed) BY <1>10 DEF Emitting
<1> HIDE DEF emitting, ps, room
<1>12. /\ after \in Seq(Groups) /\ SameSeats(gs, after) /\ DOMAIN after = DOMAIN gs
       /\ \A g \in DOMAIN gs :
            /\ PromptOf(after[g]) = PromptOf(gs[g]) /\ after[g].phase = gs[g].phase
            /\ after[g].leader = gs[g].leader /\ On(after[g]) = On(gs[g])
            /\ after[g].pos = MovedOn(gs[g], FedTo(gs, Taken(gs), g))
            /\ \A i \in DOMAIN gs[g].ms : after[g].ms[i] = Grown(gs, emitting, g, i)
  <2>1. \A g \in DOMAIN gs : Alive(gs[g]) BY <1>2
  <2>2. /\ after \in Seq(Groups) /\ SameSeats(gs, after)
        /\ \A g \in DOMAIN gs :
             /\ PromptOf(after[g]) = PromptOf(gs[g]) /\ after[g].phase = gs[g].phase
             /\ after[g].leader = gs[g].leader
             /\ after[g].pos = MovedOn(gs[g], FedTo(gs, Taken(gs), g))
             /\ \A i \in DOMAIN gs[g].ms : after[g].ms[i] = Grown(gs, emitting, g, i)
    BY <1>2, <1>11, <2>1, EmittedFits
  <2> HIDE DEF after
  <2>3. DOMAIN after = DOMAIN gs /\ \A g \in DOMAIN gs : On(after[g]) = On(gs[g])
    BY <2>2 DEF SameSeats
  <2> QED BY <2>2, <2>3
<1> HIDE DEF after
<1>13. InGroups(after) = InGroups(gs) /\ \A p \in InGroups(gs) : Member(after, p).slot = Member(gs, p).slot
  <2>1. InGroups(after) = InGroups(gs) BY <1>12, SameOf
  <2>2. \A p \in InGroups(gs) : p[1] \in DOMAIN gs /\ p[2] \in On(gs[p[1]]) BY <1>2, InGroupsIs
  <2> QED BY <1>12, <2>1, <2>2 DEF SameSeats, Member
<1>14. OneUser(after) /\ \A s : Used(after, s) <=> Used(gs, s) BY <1>3, <1>13 DEF OneUser, Used
<1>15. NodesHold(room) /\ Separate(room, after)
  <2>1. NodesHold(room) /\ Separate(room, gs) BY <1>1, <1>3, <1>7, <1>8, WrittenApart DEF room
  <2> QED BY <1>14, <2>1 DEF Separate
<1>16. ASSUME NEW g \in DOMAIN gs, NEW i \in On(gs[g])
       PROVE  /\ PromptOf(after[g]) = PromptOf(gs[g]) /\ after[g].ms[i].slot = gs[g].ms[i].slot
              /\ after[g].ms[i].gen = gs[g].ms[i].gen + (IF <<g, i>> \in emitting THEN 1 ELSE 0)
  <2> DEFINE m == gs[g].ms[i]
  <2>1. m \in MemberSet /\ m.gen \in Nat /\ i \in DOMAIN gs[g].ms
    <3>1. gs[g] \in Groups BY <1>2
    <3> QED BY <3>1, GroupParts
  <2>2. after[g].ms[i] = Grown(gs, emitting, g, i) BY <1>12, <2>1
  <2> HIDE DEF m
  <2>3. CASE <<g, i>> \in emitting
    <3>1. after[g].ms[i] = [m EXCEPT !.gen = m.gen + 1] BY <2>2, <2>3 DEF Grown, Sampled, m
    <3>2. PICK n \in Nat : n = m.gen + 1 BY <2>1
    <3>3. [m EXCEPT !.gen = n].gen = n /\ [m EXCEPT !.gen = n].slot = m.slot BY <2>1 DEF MemberSet
    <3> QED BY <1>12, <2>3, <3>1, <3>2, <3>3 DEF m
  <2>4. CASE <<g, i>> \notin emitting
    <3>1. after[g].ms[i] = m /\ m.gen + 0 = m.gen BY <2>1, <2>2, <2>4 DEF Grown, m
    <3> QED BY <1>12, <2>4, <3>1 DEF m
  <2> QED BY <2>3, <2>4
<1>17. ASSUME NEW g \in DOMAIN gs, NEW i \in On(gs[g]), <<g, i>> \in Sampling(fed) => <<g, i>> \in emitting
       PROVE  Wrote(gs, fed, g, i, after[g]) BY <1>11, <1>12, <1>16, <1>17 DEF Wrote
<1>18. \A p \in InGroups(after) : p \notin Range(ps) => MemberHolds(room, after[p[1]], p[2])
  <2> SUFFICES ASSUME NEW p \in InGroups(gs), p \notin E PROVE MemberHolds(room, after[p[1]], p[2])
    BY <1>10, <1>13
  <2>1. p[1] \in DOMAIN gs /\ p[2] \in On(gs[p[1]]) /\ p = <<p[1], p[2]>> BY <1>2, InGroupsIs
  <2>2. Wrote(gs, fed, p[1], p[2], after[p[1]]) BY <1>9, <1>17, <2>1
  <2> QED BY <1>7, <2>1, <2>2, WrittenHolds DEF room
<1>19. \A k \in DOMAIN ps : Carries(room[Member(after, ps[k]).slot], after[ps[k][1]])
  <2> TAKE k \in DOMAIN ps
  <2> DEFINE p == ps[k]
             g == p[1]
             i == p[2]
  <2>1. p \in InGroups(gs) /\ p \in Sampling(fed) BY <1>9, <1>10 DEF Range
  <2>2. g \in DOMAIN gs /\ i \in On(gs[g]) /\ p = <<g, i>> /\ Member(gs, p) = gs[g].ms[i]
    BY <1>2, <2>1, InGroupsIs
  <2> HIDE DEF p, g, i
  <2>3. PromptOf(after[g]) = PromptOf(gs[g]) /\ after[g].ms[i].slot = gs[g].ms[i].slot
        /\ Member(after, p) = after[g].ms[i] BY <1>16, <2>2 DEF Member
  <2>4. Carries(room[after[g].ms[i].slot], after[g]) BY <1>7, <2>2, <2>3, WrittenCarries DEF room
  <2>5. Carries(room[Member(after, p).slot], after[g]) BY <2>3, <2>4
  <2> QED BY <2>5 DEF p, g
<1>20. ASSUME NEW g \in DOMAIN after PROVE LedAfter(after, ps, g)
  <2> SUFFICES ASSUME after[g].phase = "prefill", NEW i \in On(after[g]), <<g, i>> \notin Range(ps)
               PROVE  after[g].leader \in On(after[g]) /\ <<g, after[g].leader>> \notin Range(ps)
    BY DEF LedAfter
  <2> DEFINE x == gs[g]
             q == <<g, x.leader>>
  <2>1. g \in DOMAIN gs /\ x \in Groups /\ x.phase = "prefill" /\ after[g].leader = x.leader
        /\ On(after[g]) = On(x) /\ i \in On(x) /\ Led(x) BY <1>2, <1>3, <1>12 DEF GroupsHold
  <2>2. x.leader \in On(x) BY <2>1 DEF Led
  <2>3. ASSUME q \in Range(ps) PROVE FALSE
    <3>1. PICK n \in DOMAIN fed : fed[n].sample /\ fed[n].of = q BY <1>9, <1>10, <2>3 DEF Sampling
    <3>2. FedFor(gs, fed[n]) /\ gs[fed[n].of[1]] = x /\ fed[n].of[1] = g
      <4>1. FedFor(gs, fed[n]) BY <1>2, <1>3, <1>5, FedIs
      <4>2. fed[n].of[1] = g BY <3>1
      <4> QED BY <4>1, <4>2
    <3> DEFINE k == fed[n].pos + 1
    <3> HIDE DEF x
    <3>3. k = Len(PromptOf(x)) /\ <<g, k>> \in Taken(gs) BY <2>1, <3>1, <3>2 DEF FedFor
    <3> HIDE DEF k
    <3>4. <<g, k>> \in Wanted(gs) /\ <<g, k>>[1] = g /\ <<g, k>>[2] = k BY <1>2, <3>3, WantedFits
    <3>5. k \in Wants(x) BY <1>2, <3>4, WantedFits DEF x
    <3>6. k <= PrefixEnd(x) /\ On(x) # {} BY <1>2, <2>1, <3>5, WantsFits DEF x
    <3>7. Len(x.ms) = 1
      <4>1. PrefixEnd(x) \in Nat /\ PrefixEnd(x) <= Len(PromptOf(x)) /\ Len(PromptOf(x)) \in Nat
            /\ (PrefixEnd(x) = Len(PromptOf(x)) <=> Len(x.ms) = 1) BY <2>1, GroupParts
      <4> QED BY <3>3, <3>6, <4>1
    <3>8. DOMAIN x.ms = 1 .. Len(x.ms) /\ On(x) \subseteq DOMAIN x.ms BY <2>1, GroupParts
    <3>9. i = x.leader BY <2>1, <2>2, <3>7, <3>8
    <3> QED BY <2>3, <3>9
  <2> QED BY <2>1, <2>2, <2>3
<1>21. InGroups(after) # {} => key = CacheKey
  <2>1. InGroups(groups) # {} => groups # <<>> BY DEF InGroups
  <2> QED BY <1>2, <1>13, <2>1 DEF SlotInv, KeyFits
<1>22. ps \in Seq(InGroups(after)) BY <1>10, <1>13
<1>23. OneUser(groups') /\ GroupsHold(kv, groups)' /\ NodesHold(kv)' /\ Separate(kv, groups)'
  <2>1. Retire(after, room, ps) /\ Differ(ps) BY <1>9, <1>10 DEF ps
  <2> QED BY <1>1, <1>4, <1>8, <1>12, <1>14, <1>15, <1>18, <1>19, <1>20, <1>21, <1>22, <2>1, RetireHolds
<1>24. KeyFits'
  <2> SUFFICES ASSUME groups' # <<>> PROVE key = CacheKey BY <1>4 DEF KeyFits, CacheKey
  <2>1. groups # <<>>
    <3> SUFFICES ASSUME groups = <<>> PROVE FALSE OBVIOUS
    <3>1. groups' = StillLive(EndIn(after, ps)) /\ DOMAIN after = {}
      BY <1>2, <1>9, <1>12 DEF Retire, ps
    <3>2. groups' \in Seq(Groups) /\ \A k \in DOMAIN groups' : Home(after, ps, groups', k) \in DOMAIN after
      BY <1>12, <3>1, Retired
    <3>3. DOMAIN groups' = {} BY <3>1, <3>2
    <3> QED BY <3>2, <3>3
  <2> QED BY <2>1 DEF SlotInv, KeyFits
<1> QED BY <1>23, <1>24 DEF SlotInv

-----------------------------------------------------------------------------
(* The slots, in every state.                                               *)

\* Every step keeps them.
LEMMA SlotSteps == ASSUME ~Torn, Types, SlotInv, [Next]_vars PROVE SlotInv'
<1>1. CASE UNCHANGED vars
  <2>1. UNCHANGED <<at, groups, kv, dormant, adapter, weights, key>> BY <1>1 DEF vars
  <2>2. KeyFits' BY <2>1 DEF SlotInv, KeyFits, CacheKey
  <2> QED BY <2>1, <2>2, QuietHolds
<1>2. CASE (\E r \in Requests : Submit(r) \/ Cancel(r)) \/ Update \/ Sweep \/ NoStep \/ EndSelection
  BY <1>2, CallersHold
<1>3. CASE RemoveCancelled BY <1>3, RemoveCancelledHolds
<1>4. CASE ChooseAdapter BY <1>4, ChooseAdapterHolds
<1>5. CASE AdmitFront \/ PlaceWave BY <1>5, AdmissionHolds
<1>6. CASE SelectFront BY <1>6, SelectFrontHolds
<1>7. CASE Evict BY <1>7, EvictHolds
<1>8. CASE Step BY <1>8, StepTakes
<1>9. CASE StepFails BY <1>9, StepFailsHolds
<1> QED BY <1>1, <1>2, <1>3, <1>4, <1>5, <1>6, <1>7, <1>8, <1>9 DEF Next, Pump

\* A member's slot holds its own tokens, and one less than all while it decodes.
LEMMA MemberSuffices ==
    ASSUME Types, SlotInv, NEW p \in InGroups(groups)
    PROVE  /\ Holds(Member(groups, p).slot, Own(groups, p), CacheKey)
           /\ groups[p[1]].phase = "decode" =>
                Len(kv[Member(groups, p).slot]) = Len(Own(groups, p)) - 1
<1> DEFINE x == groups[p[1]]
           own == Own(groups, p)
           s == Member(groups, p).slot
           gen == Member(groups, p).gen
           last == Len(PromptOf(x))
<1>1. groups \in Seq(Groups) /\ kv \in PoolFn /\ GroupsHold(kv, groups)
  BY DEF Types, TreeTypes, GroupTypes, SlotInv
<1>2. p[1] \in DOMAIN groups /\ p[2] \in On(x) /\ x \in Groups /\ s \in Pool /\ gen \in Nat /\ own \in Seq(Int)
  BY <1>1, MemberParts
<1>3. MemberHolds(kv, x, p[2]) /\ Member(groups, p) = x.ms[p[2]]
  BY <1>1, <1>2 DEF GroupsHold, Member
<1>4. Len(own) = last + gen /\ \A n \in 1 .. Len(own) : own[n] = Token(x, n) BY <1>1, OwnIs
<1>5. /\ last \in Nat /\ last > 0 /\ x.pos \in Nat /\ x.phase \in {"prefill", "terminal", "decode"}
      /\ x.phase = "prefill" => x.pos <= last
  <2>1. /\ last \in Nat /\ last > 0 /\ x.pos \in Nat /\ x.phase \in Phases
        /\ PrefixEnd(x) \in Nat /\ PrefixEnd(x) <= last /\ GroupFits(x) BY <1>2, GroupParts
  <2>2. x.phase = "prefill" => x.pos <= PrefixEnd(x) BY <2>1 DEF GroupFits, PosFits
  <2>3. \A a \in Nat : a <= PrefixEnd(x) => a <= last
    <3> HIDE DEF x, last
    <3> QED BY <2>1
  <2> QED BY <2>1, <2>2, <2>3 DEF Phases
<1>6. Len(kv[s]) = Span(x, p[2]) /\ Carries(kv[s], x) BY <1>3 DEF MemberHolds
<1>7. Span(x, p[2]) = IF x.phase = "prefill" THEN (IF p[2] = x.leader THEN x.pos ELSE 0) ELSE last + gen - 1
  BY <1>3 DEF Span
<1> HIDE DEF x, own, s, gen, last
<1>8. PICK m \in Nat : m = Len(kv[s]) /\ DOMAIN kv[s] = 1 .. m
  <2>1. kv[s] \in Seq(CellSet) BY <1>1, <1>2 DEF PoolFn
  <2> QED BY <2>1
<1>9. PICK n \in Nat : n = Len(own) /\ m <= n /\ (x.phase = "decode" => m = n - 1)
  <2>1. m = IF x.phase = "prefill" THEN (IF p[2] = x.leader THEN x.pos ELSE 0) ELSE last + gen - 1
    BY <1>6, <1>7, <1>8
  <2>2. PICK n \in Nat : n = Len(own) /\ n = last + gen BY <1>2, <1>4
  <2>3. m <= n BY <1>2, <1>5, <2>1, <2>2
  <2>4. ASSUME x.phase = "decode" PROVE m = n - 1
    <3>1. m = last + gen - 1 BY <2>1, <2>4
    <3> QED BY <1>2, <1>5, <2>2, <3>1
  <2> QED BY <2>2, <2>3, <2>4
<1>10. \A k \in DOMAIN kv[s] : kv[s][k].tok = <<CacheKey, own[k]>>
  <2> TAKE k \in DOMAIN kv[s]
  <2>1. k \in 1 .. Len(own) BY <1>8, <1>9
  <2>2. kv[s][k].tok = <<CacheKey, Token(x, k)>> BY <1>6 DEF Carries
  <2> QED BY <1>4, <2>1, <2>2
<1>11. Len(kv[s]) <= Len(own) BY <1>8, <1>9
<1>12. x.phase = "decode" => Len(kv[s]) = Len(own) - 1 BY <1>8, <1>9
<1>13. Holds(s, own, CacheKey) BY <1>10, <1>11 DEF Holds
<1> QED BY <1>12, <1>13 DEF x, own, s

\* So the slots hold what they are to hold, and the counts of them agree.
LEMMA SlotsSuffice == ASSUME Types, SlotInv PROVE SlotsHoldTheirOwn
<1>1. /\ groups \in Seq(Groups) /\ dormant \in Seq(NodeSet) /\ kv \in PoolFn
      /\ OneUser(groups) /\ GroupsHold(kv, groups) /\ NodesHold(kv) /\ Separate(kv, groups) /\ Apart(dormant)
  BY DEF Types, TreeTypes, GroupTypes, SlotInv, NodesHold
<1>2. Members = InGroups(groups) /\ \A s : s \in LiveSlots(groups) <=> Used(groups, s)
  BY <1>1, UsedIs DEF Members, InGroups
<1>3. \A p \in InGroups(groups) : Member(groups, p).slot \in Pool BY <1>1, InGroupsIs
<1>4. Cardinality(LiveSlots(groups)) = Cardinality(Members)
  <2> DEFINE f == [p \in InGroups(groups) |-> Member(groups, p).slot]
  <2>1. IsFiniteSet(InGroups(groups))
    <3>1. InGroups(groups) \in SUBSET ((DOMAIN groups) \X Pool) BY DEF InGroups
    <3> QED BY <1>1, <3>1, PairsFinite
  <2>2. f \in [InGroups(groups) -> LiveSlots(groups)]
    <3>1. \A p \in InGroups(groups) : Member(groups, p).slot \in LiveSlots(groups) BY <1>2 DEF Used
    <3> QED BY <3>1
  <2>3. \A p, q \in InGroups(groups) : f[p] = f[q] => p = q BY <1>1 DEF OneUser
  <2>4. \A s \in LiveSlots(groups) : \E p \in InGroups(groups) : f[p] = s BY <1>2 DEF Used
  <2> HIDE DEF f
  <2>5. Cardinality(LiveSlots(groups)) = Cardinality(InGroups(groups))
    BY <2>1, <2>2, <2>3, <2>4, Matched
  <2> QED BY <1>2, <2>5
<1>5. Cardinality(DormantSlots) = Len(dormant)
  <2> DEFINE f == [n \in 1 .. Len(dormant) |-> dormant[n].slot]
  <2>1. Len(dormant) \in Nat /\ DOMAIN dormant = 1 .. Len(dormant) BY <1>1
  <2>2. IsFiniteSet(1 .. Len(dormant)) /\ Cardinality(1 .. Len(dormant)) = Len(dormant)
    BY <2>1, UpTo
  <2>3. \A s : s \in DormantSlots <=> \E n \in 1 .. Len(dormant) : s = dormant[n].slot
    BY <2>1 DEF DormantSlots, Range
  <2>4. f \in [1 .. Len(dormant) -> DormantSlots] BY <2>3
  <2>5. \A m, n \in 1 .. Len(dormant) : f[m] = f[n] => m = n BY <1>1, <2>1 DEF Apart
  <2>6. \A s \in DormantSlots : \E n \in 1 .. Len(dormant) : f[n] = s BY <2>3
  <2> HIDE DEF f
  <2> QED BY <2>2, <2>4, <2>5, <2>6, Matched
<1>6. LiveSlots(groups) \cap DormantSlots = {} BY <1>1, <1>2, <1>3 DEF Used, Separate
<1>7. \A s \in Pool \ (LiveSlots(groups) \cup DormantSlots) : kv[s] = <<>>
  BY <1>1, <1>2 DEF Separate
<1>8. ASSUME NEW d \in Range(dormant) PROVE Len(kv[d.slot]) = Len(d.path) /\ Holds(d.slot, d.path, key)
  <2>1. NodeHolds(kv, d) BY <1>1 DEF NodesHold
  <2>2. d \in NodeSet BY <1>1, RangeFinite
  <2>3. Len(d.path) \in Nat BY <2>2 DEF NodeSet
  <2> QED BY <2>1, <2>3 DEF NodeHolds, Holds
<1> QED BY <1>2, <1>4, <1>5, <1>6, <1>7, <1>8, MemberSuffices DEF SlotsHoldTheirOwn

\* Where a cancellation finds the same flags throughout, a slot always has one
\* user and holds that user's own tokens.
THEOREM SlotsAlwaysHoldTheirOwn == ASSUME ~Torn PROVE Spec => []SlotsHoldTheirOwn
<1>1. Init => IInv /\ SlotInv BY InitHolds, InitSlots
<1>2. IInv /\ SlotInv /\ [Next]_vars => IInv' /\ SlotInv' BY StepHolds, SlotSteps DEF IInv
<1>3. IInv /\ SlotInv => SlotsHoldTheirOwn BY SlotsSuffice DEF IInv
<1> QED BY <1>1, <1>2, <1>3, PTL DEF Spec

-----------------------------------------------------------------------------
(* A step has something to feed.                                            *)

\* A group that does not decode wants tokens.
LEMMA ReadyWants ==
    ASSUME NEW x \in Groups, On(x) # {}, Advanced(x).phase # "decode"
    PROVE  Wants(Advanced(x)) # {}
<1> DEFINE h == Advanced(x)
<1>1. /\ On(x) \subseteq DOMAIN x.ms /\ DOMAIN x.ms = 1 .. Len(x.ms) /\ Len(x.ms) \in Nat /\ Len(x.ms) > 0
      /\ PrefixEnd(x) \in Nat /\ x.pos \in Nat /\ x.phase \in {"prefill", "terminal", "decode"}
      /\ x \in GroupSet BY GroupParts DEF Phases
<1>2. h.ms = x.ms /\ PrefixEnd(h) = PrefixEnd(x) BY AdvancedFits
<1>3. On(h) = On(x) BY <1>2 DEF On
<1>4. PICK i \in On(x) : i \in Nat /\ i >= 1 BY <1>1
<1>5. CASE Prefilled(x)
  <2>1. Len(x.ms) # 1 BY <1>5 DEF Advanced, GroupSet
  <2>2. h.phase = "terminal" /\ h.pos = 1
    <3>1. Len(x.ms) > 1
      <4>1. \A n \in Nat : n > 0 /\ n # 1 => n > 1 OBVIOUS
      <4> QED BY <1>1, <2>1, <4>1
    <3>2. h = [x EXCEPT !.phase = "terminal", !.pos = 1] BY <1>5, <3>1 DEF Advanced
    <3> QED BY <1>1, <3>2 DEF GroupSet
  <2>3. i \in Wants(h) BY <1>3, <1>4, <2>2 DEF Wants
  <2> QED BY <2>3
<1>6. CASE ~Prefilled(x) /\ x.phase = "terminal"
  <2>1. ~(\A j \in On(x) : j < x.pos) BY <1>1, <1>6 DEF Advanced, GroupSet
  <2>2. h = x BY <1>6, <2>1 DEF Advanced
  <2>3. PICK j \in On(x) : j \in Nat /\ j >= x.pos BY <1>1, <2>1
  <2>4. j \in Wants(h) BY <1>6, <2>2, <2>3 DEF Wants
  <2> QED BY <2>4
<1>7. CASE ~Prefilled(x) /\ x.phase = "prefill"
  <2>1. h = x BY <1>7 DEF Advanced
  <2>2. x.pos <= PrefixEnd(x) /\ x.pos # PrefixEnd(x)
    BY <1>7 DEF Prefilled, Groups, GroupFits, PosFits
  <2>3. x.pos + 1 \in x.pos + 1 .. PrefixEnd(x) BY <1>1, <2>2
  <2>4. Wants(h) = x.pos + 1 .. PrefixEnd(x) BY <1>7, <2>1 DEF Wants
  <2> QED BY <2>3, <2>4
<1>8. CASE ~Prefilled(x) /\ x.phase = "decode"
  <2>1. h = x BY <1>8 DEF Advanced
  <2> QED BY <1>8, <2>1
<1> QED BY <1>1, <1>5, <1>6, <1>7, <1>8

\* Where nobody decodes the first of what is wanted is taken.
LEMMA FirstTaken ==
    ASSUME NEW gs \in Seq(Groups), \A g \in DOMAIN gs : On(gs[g]) # {}, Wanted(gs) # {}, Decodes(gs) = {}
    PROVE  Taken(gs) # {}
<1> DEFINE W == Wanted(gs)
           p == InOrder(W)[1]
<1>1. IsFiniteSet(W) /\ W \in SUBSET (Int \X Int) BY WantedFits
<1>2. Cardinality(W) \in Nat /\ Cardinality(W) # 0 BY <1>1, FS_EmptySet, FS_CardinalityType
<1>3. 1 \in DOMAIN InOrder(W) /\ InOrder(W) \in Seq(W) /\ Cardinality(Earlier(W, p)) = 0
  <2>1. /\ DOMAIN InOrder(W) = 1 .. Cardinality(W) /\ InOrder(W) \in Seq(W)
        /\ \A k \in DOMAIN InOrder(W) : Cardinality(Earlier(W, InOrder(W)[k])) = k - 1
    BY <1>1, InOrderFits
  <2> HIDE DEF W
  <2>2. 1 \in DOMAIN InOrder(W) BY <1>2, <2>1
  <2> QED BY <2>1, <2>2
<1>4. p \in W
  <2> HIDE DEF W
  <2> QED BY <1>3
<1>5. Cardinality(Decodes(gs)) = 0 BY FS_EmptySet
<1>6. Cardinality({q \in W : Before(q, p)}) < Batch - Cardinality(Decodes(gs))
  <2>1. 0 < Batch - 0 BY Constants
  <2>2. Earlier(W, p) = {q \in W : Before(q, p)} BY DEF Earlier
  <2> HIDE DEF W, p
  <2> QED BY <1>3, <1>5, <2>1, <2>2
<1> HIDE DEF p
<1>7. p \in Taken(gs) BY <1>4, <1>6 DEF Taken
<1> QED BY <1>7

\* Some group decodes, or wants a token.
LEMMA FedSuffices == ASSUME Types PROVE LiveAreFed
<1> SUFFICES ASSUME groups # <<>> PROVE Fed # <<>> BY DEF LiveAreFed
<1>1. GroupTypes /\ groups \in Seq(Groups) /\ \A g \in DOMAIN groups : On(groups[g]) # {}
  BY DEF Types, GroupTypes, Alive
<1>2. /\ Ready \in Seq(Groups) /\ DOMAIN Ready = DOMAIN groups
      /\ \A g \in DOMAIN groups : Ready[g] = Advanced(groups[g]) /\ On(Ready[g]) # {}
  BY <1>1, ReadyFits
<1>3. 1 \in DOMAIN groups BY <1>1
<1>4. /\ Fed \in Seq(Feeds(Ready))
      /\ Cardinality(Decodes(Ready)) \in Nat /\ Cardinality(Taken(Ready)) \in Nat
      /\ Len(Fed) = Cardinality(Decodes(Ready)) + Cardinality(Taken(Ready))
  BY <1>2, ComposeFits DEF Fed
<1>5. IsFiniteSet(Decodes(Ready)) /\ IsFiniteSet(Taken(Ready))
  <2>1. Decodes(Ready) \in SUBSET ((DOMAIN Ready) \X Pool) BY DEF Decodes
  <2> QED BY <1>2, <2>1, PairsFinite, WantedFits
<1>6. Decodes(Ready) # {} \/ Taken(Ready) # {}
  <2>1. CASE \E g \in DOMAIN Ready : Ready[g].phase # "decode"
    <3>1. PICK g \in DOMAIN Ready : Ready[g].phase # "decode" BY <2>1
    <3>2. Wants(Ready[g]) # {}
      <4>1. groups[g] \in Groups BY <1>1, <1>2
      <4> QED BY <1>1, <1>2, <3>1, <4>1, ReadyWants
    <3>3. Wanted(Ready) # {} BY <1>2, <3>2, WantedFits
    <3> QED BY <1>2, <3>3, FirstTaken
  <2>2. CASE \A g \in DOMAIN Ready : Ready[g].phase = "decode"
    <3>1. PICK i \in On(Ready[1]) : i \in Pool
      <4>1. Ready[1] \in Groups BY <1>2, <1>3
      <4> QED BY <1>2, <1>3, <4>1, GroupParts
    <3>2. ~(\E g \in Range(Ready) : g.phase # "decode") BY <2>2 DEF Range
    <3>3. <<1, i>> \in Decodes(Ready) BY <1>2, <1>3, <2>2, <3>1, <3>2 DEF Decodes
    <3> QED BY <3>3
  <2> QED BY <2>1, <2>2
<1>7. Cardinality(Decodes(Ready)) # 0 \/ Cardinality(Taken(Ready)) # 0 BY <1>5, <1>6, FS_EmptySet
<1>8. Len(Fed) # 0 BY <1>4, <1>7
<1> QED BY <1>8

\* Live completions always have a token to feed, whatever flags are set when.
THEOREM LiveAreAlwaysFed == Spec => []LiveAreFed
<1>1. Types => LiveAreFed BY FedSuffices
<1> QED BY <1>1, AccountsHold, PTL DEF IInv

-----------------------------------------------------------------------------
(* Cells.                                                                   *)

\* What two copies or removals leave is a part of what there was.
LEMMA CellsPart ==
    ASSUME NEW pool, NEW room, \A s \in Pool : Range(room[s]) \subseteq UNION {Range(pool[t]) : t \in Pool}
    PROVE  CellsUsed(room) \subseteq CellsUsed(pool)
<1> SUFFICES ASSUME NEW s \in Pool, NEW c \in Range(room[s]) PROVE c.cell \in CellsUsed(pool)
  BY DEF CellsUsed
<1>1. c \in UNION {Range(pool[t]) : t \in Pool} OBVIOUS
<1> QED BY <1>1 DEF CellsUsed

\* The cells in use are some of the pool's.
LEMMA CellsCounted ==
    ASSUME NEW pool \in PoolFn
    PROVE  /\ CellsUsed(pool) \subseteq 1 .. Cells /\ IsFiniteSet(CellsUsed(pool))
           /\ Cardinality(CellsUsed(pool)) \in Nat /\ IsFiniteSet(FreeCells(pool))
           /\ Cardinality(CellsUsed(pool)) + Cardinality(FreeCells(pool)) = Cells
<1>1. CellsUsed(pool) \subseteq 1 .. Cells
  <2> SUFFICES ASSUME NEW s \in Pool, NEW c \in Range(pool[s]) PROVE c.cell \in 1 .. Cells
    BY DEF CellsUsed
  <2>1. pool[s] \in Seq(CellSet) BY DEF PoolFn
  <2>2. c \in CellSet BY <2>1 DEF Range
  <2> QED BY <2>2 DEF CellSet
<1>2. IsFiniteSet(1 .. Cells) /\ Cardinality(1 .. Cells) = Cells BY UpTo, Constants
<1>3. IsFiniteSet(CellsUsed(pool)) /\ IsFiniteSet(FreeCells(pool))
  <2>1. FreeCells(pool) \in SUBSET (1 .. Cells) /\ CellsUsed(pool) \in SUBSET (1 .. Cells)
    BY <1>1 DEF FreeCells
  <2> QED BY <1>2, <2>1, FS_Subset, Zenon
<1>4. CellsUsed(pool) \cap FreeCells(pool) = {} /\ CellsUsed(pool) \cup FreeCells(pool) = 1 .. Cells
  BY <1>1 DEF FreeCells
<1>5. Cardinality(CellsUsed(pool) \cup FreeCells(pool)) = Cardinality(CellsUsed(pool)) + Cardinality(FreeCells(pool))
  BY <1>3, <1>4, DisjointCount
<1> QED BY <1>1, <1>2, <1>3, <1>4, <1>5, FS_CardinalityType

\* Fewer cells are in use where the slots hold less.
LEMMA FewerCells ==
    ASSUME NEW pool \in PoolFn, NEW room, \A s \in Pool : Range(room[s]) \subseteq UNION {Range(pool[t]) : t \in Pool}
    PROVE  /\ IsFiniteSet(CellsUsed(room)) /\ Cardinality(CellsUsed(room)) \in Nat
           /\ Cardinality(CellsUsed(room)) <= Cardinality(CellsUsed(pool))
<1>1. CellsUsed(room) \in SUBSET CellsUsed(pool) BY CellsPart
<1>2. IsFiniteSet(CellsUsed(pool)) BY CellsCounted
<1> QED BY <1>1, <1>2, FS_Subset, FS_CardinalityType, Zenon

-----------------------------------------------------------------------------
\* How many tokens are still to be fed to a member of a group, and, at 0, to its
\* shared prefix.
Owed(g, i) ==
    IF i = 0 THEN (IF g.phase = "prefill" THEN PrefixEnd(g) - g.pos ELSE 0)
    ELSE IF i \in On(g) THEN Budget[g.ms[i].req] - g.ms[i].gen ELSE 0
Seated(gs) == (DOMAIN gs) \X (0 .. Slots)
Due(gs) == [p \in Seated(gs) |-> Owed(gs[p[1]], p[2])]
\* What is due once the members ps have ended.
DueWithout(gs, ps) == [p \in Seated(gs) |-> IF p \in Range(ps) THEN 0 ELSE Owed(gs[p[1]], p[2])]

\* It is a number for each.
LEMMA OwedFits ==
    ASSUME NEW g \in Groups, NEW i
    PROVE  /\ Owed(g, i) \in Nat /\ 0 \notin On(g)
           /\ i \in On(g) => Owed(g, i) = Budget[g.ms[i].req] - g.ms[i].gen
<1>1. /\ On(g) \subseteq DOMAIN g.ms /\ DOMAIN g.ms \subseteq Pool /\ PrefixEnd(g) \in Nat /\ g.pos \in Nat
      /\ \A j \in DOMAIN g.ms : g.ms[j].req \in Requests /\ g.ms[j].gen \in Nat BY GroupParts
<1>2. /\ g.phase = "prefill" => g.pos <= PrefixEnd(g)
      /\ \A j \in DOMAIN g.ms : g.ms[j].gen <= Budget[g.ms[j].req]
  BY DEF Groups, GroupFits, PosFits
<1>3. 0 \notin On(g) BY <1>1 DEF Pool
<1>4. CASE i = 0
  <2>1. Owed(g, i) = IF g.phase = "prefill" THEN PrefixEnd(g) - g.pos ELSE 0 BY <1>4 DEF Owed
  <2> QED BY <1>1, <1>2, <1>3, <1>4, <2>1
<1>5. CASE i # 0 /\ i \in On(g)
  <2>1. Owed(g, i) = Budget[g.ms[i].req] - g.ms[i].gen BY <1>5 DEF Owed
  <2>2. PICK b \in Nat, n \in Nat : b = Budget[g.ms[i].req] /\ n = g.ms[i].gen /\ n <= b
    BY <1>1, <1>2, <1>5, Constants
  <2> QED BY <1>3, <2>1, <2>2
<1>6. CASE i # 0 /\ i \notin On(g) BY <1>3, <1>6 DEF Owed
<1> QED BY <1>4, <1>5, <1>6

\* So the groups owe a total.
LEMMA DueFits ==
    ASSUME NEW gs \in Seq(Groups), NEW ps
    PROVE  /\ IsFiniteSet(Seated(gs)) /\ Due(gs) \in [Seated(gs) -> Nat] /\ DueWithout(gs, ps) \in [Seated(gs) -> Nat]
           /\ Total(Due(gs)) \in Nat /\ Total(DueWithout(gs, ps)) \in Nat
           /\ \A g \in DOMAIN gs : \A i \in 0 .. Slots :
                /\ <<g, i>> \in Seated(gs) /\ Due(gs)[<<g, i>>] = Owed(gs[g], i)
                /\ DueWithout(gs, ps)[<<g, i>>] = IF <<g, i>> \in Range(ps) THEN 0 ELSE Owed(gs[g], i)
           /\ \A p \in Seated(gs) : p = <<p[1], p[2]>> /\ p[1] \in DOMAIN gs /\ p[2] \in 0 .. Slots
<1>1. DOMAIN gs = 1 .. Len(gs) /\ Len(gs) \in Nat /\ Slots \in Nat /\ \A g \in DOMAIN gs : gs[g] \in Groups
  BY Constants
<1>2. IsFiniteSet(1 .. Len(gs)) /\ IsFiniteSet(0 .. Slots) BY <1>1, FS_Interval
<1>3. IsFiniteSet(Seated(gs)) BY <1>1, <1>2, FS_Product DEF Seated
<1>4. \A p \in Seated(gs) : p = <<p[1], p[2]>> /\ p[1] \in DOMAIN gs /\ p[2] \in 0 .. Slots
  BY DEF Seated
<1>5. \A p \in Seated(gs) : Owed(gs[p[1]], p[2]) \in Nat BY <1>1, <1>4, OwedFits
<1>6. Due(gs) \in [Seated(gs) -> Nat] /\ DueWithout(gs, ps) \in [Seated(gs) -> Nat]
  BY <1>5 DEF Due, DueWithout
<1>7. ASSUME NEW f \in [Seated(gs) -> Nat] PROVE Total(f) \in Nat
  <2>1. DOMAIN f = Seated(gs) /\ \A p \in Seated(gs) : f[p] \in Int OBVIOUS
  <2>2. Counted(f, Seated(gs)) BY <1>3, <2>1, UnitsOver
  <2> QED BY <2>2 DEF Counted
<1>8. ASSUME NEW g \in DOMAIN gs, NEW i \in 0 .. Slots
      PROVE  /\ <<g, i>> \in Seated(gs) /\ Due(gs)[<<g, i>>] = Owed(gs[g], i)
             /\ DueWithout(gs, ps)[<<g, i>>] = IF <<g, i>> \in Range(ps) THEN 0 ELSE Owed(gs[g], i)
  <2>1. <<g, i>> \in Seated(gs) /\ <<g, i>>[1] = g /\ <<g, i>>[2] = i BY DEF Seated
  <2> QED BY <2>1 DEF Due, DueWithout
<1> QED BY <1>3, <1>4, <1>6, <1>7, <1>8

\* Groups that owe each no more than another one of their own owe no more in all.
LEMMA DueMoves ==
    ASSUME NEW gs \in Seq(Groups), NEW hs \in Seq(Groups), NEW ps, NEW m \in [DOMAIN hs -> DOMAIN gs],
           \A k, l \in DOMAIN hs : m[k] = m[l] => k = l,
           \A k \in DOMAIN hs : \A i \in 0 .. Slots : Owed(hs[k], i) <= DueWithout(gs, ps)[<<m[k], i>>]
    PROVE  Total(Due(hs)) <= Total(DueWithout(gs, ps))
<1> DEFINE f == DueWithout(gs, ps)
           h == Due(hs)
           to == [p \in Seated(hs) |-> <<m[p[1]], p[2]>>]
<1>1. /\ IsFiniteSet(Seated(gs)) /\ f \in [Seated(gs) -> Nat]
      /\ \A g \in DOMAIN gs : \A i \in 0 .. Slots : <<g, i>> \in Seated(gs)
  <2>1. f \in [Seated(gs) -> Nat] /\ IsFiniteSet(Seated(gs)) BY DueFits, Zenon
  <2>2. \A g \in DOMAIN gs : \A i \in 0 .. Slots : <<g, i>> \in Seated(gs) BY DEF Seated
  <2> QED BY <2>1, <2>2
<1>2. /\ IsFiniteSet(Seated(hs)) /\ h \in [Seated(hs) -> Nat]
      /\ \A g \in DOMAIN hs : \A i \in 0 .. Slots : h[<<g, i>>] = Owed(hs[g], i)
      /\ \A p \in Seated(hs) : p = <<p[1], p[2]>> /\ p[1] \in DOMAIN hs /\ p[2] \in 0 .. Slots
  <2>1. /\ DueWithout(hs, <<>>) \in [Seated(hs) -> Nat] /\ h \in [Seated(hs) -> Nat]
        /\ IsFiniteSet(Seated(hs)) BY DueFits, Zenon
  <2>2. \A p \in Seated(hs) : p = <<p[1], p[2]>> /\ p[1] \in DOMAIN hs /\ p[2] \in 0 .. Slots
    BY DEF Seated
  <2>3. \A g \in DOMAIN hs : \A i \in 0 .. Slots : h[<<g, i>>] = Owed(hs[g], i) BY DEF Seated, Due
  <2> QED BY <2>1, <2>2, <2>3
<1>3. to \in [Seated(hs) -> Seated(gs)] BY <1>1, <1>2
<1>4. \A x, y \in Seated(hs) : to[x] = to[y] => x = y
  <2> SUFFICES ASSUME NEW x \in Seated(hs), NEW y \in Seated(hs), to[x] = to[y] PROVE x = y OBVIOUS
  <2>1. m[x[1]] = m[y[1]] /\ x[2] = y[2] OBVIOUS
  <2>2. x[1] = y[1] BY <1>2, <2>1
  <2> QED BY <1>2, <2>1, <2>2
<1>5. \A x \in Seated(hs) : h[x] <= f[to[x]]
  <2> TAKE x \in Seated(hs)
  <2>1. x = <<x[1], x[2]>> /\ x[1] \in DOMAIN hs /\ x[2] \in 0 .. Slots /\ to[x] = <<m[x[1]], x[2]>>
    BY <1>2
  <2>2. h[<<x[1], x[2]>>] = Owed(hs[x[1]], x[2]) BY <1>2, <2>1
  <2> HIDE DEF h, f, to
  <2>3. Owed(hs[x[1]], x[2]) <= f[<<m[x[1]], x[2]>>] BY <2>1 DEF f
  <2> QED BY <2>1, <2>2, <2>3
<1> HIDE DEF f, h, to
<1>6. DOMAIN f = Seated(gs) /\ DOMAIN h = Seated(hs) /\ (\A p \in DOMAIN f : f[p] \in Int)
      /\ \A p \in DOMAIN h : h[p] \in Int BY <1>1, <1>2
<1>7. to \in [DOMAIN h -> DOMAIN f] /\ IsFiniteSet(DOMAIN f) /\ IsFiniteSet(DOMAIN h)
      /\ (\A x, y \in DOMAIN h : to[x] = to[y] => x = y) /\ \A x \in DOMAIN h : h[x] <= f[to[x]]
  BY <1>1, <1>2, <1>3, <1>4, <1>5, <1>6
<1>8. Total(h) <= Total(f) BY <1>6, <1>7, SmallerTotal
<1> QED BY <1>8 DEF f, h

\* Every token of a step continues its slot: the place it is for is the one after
\* what the slot holds and the tokens before it fill.
LEMMA RowsContinue ==
    ASSUME NEW gs, NEW pool, NEW fed, Composing(gs, pool, fed), NEW n \in DOMAIN fed
    PROVE  fed[n].pos = Len(pool[fed[n].slot])
                          + Cardinality({m \in 1 .. n - 1 : fed[m].slot = fed[n].slot})
<1> DEFINE s == fed[n].slot
           g == fed[n].of[1]
           i == fed[n].of[2]
           rows == {m \in 1 .. n - 1 : fed[m].slot = s}
<1>1. /\ gs \in Seq(Groups) /\ (\A h \in DOMAIN gs : On(gs[h]) # {}) /\ GroupsHold(pool, gs)
      /\ fed = Compose(gs) /\ fed \in Seq(Feeds(gs)) BY DEF Composing
<1>2. FedFor(gs, fed[n]) /\ fed[n].of \in InGroups(gs) /\ s = Member(gs, fed[n].of).slot
  <2>1. FedFor(gs, fed[n]) BY <1>1, FedIs
  <2> QED BY <2>1 DEF FedFor
<1>3. /\ g \in DOMAIN gs /\ i \in On(gs[g]) /\ fed[n].of = <<g, i>> /\ s = gs[g].ms[i].slot
      /\ gs[g] \in Groups /\ Member(gs, fed[n].of) = gs[g].ms[i]
  <2>1. g \in DOMAIN gs /\ i \in On(gs[g]) /\ fed[n].of = <<g, i>> /\ Member(gs, fed[n].of) = gs[g].ms[i]
    BY <1>1, <1>2, InGroupsIs
  <2> QED BY <1>1, <1>2, <2>1
<1>4. MemberHolds(pool, gs[g], i) BY <1>1, <1>3 DEF GroupsHold
<1>5. n \in Nat /\ n > 0 /\ DOMAIN fed = 1 .. Len(fed) /\ \A m \in 1 .. n - 1 : m \in DOMAIN fed /\ m < n
  BY <1>1
<1>6. \A m \in rows : m \in DOMAIN fed /\ m < n /\ FedFor(gs, fed[m]) /\ fed[m].of = <<g, i>> /\ fed[m].pos \in Int
  <2> TAKE m \in rows
  <2>1. m \in DOMAIN fed /\ m < n /\ fed[m].slot = gs[g].ms[i].slot BY <1>3, <1>5
  <2>2. m \in Rows(fed, gs[g].ms[i].slot) BY <2>1 DEF Rows
  <2> QED BY <1>3, <2>1, <2>2, RowsAre
<1>7. \A m \in DOMAIN fed : m < n /\ fed[m].of = <<g, i>> => m \in rows
  <2> TAKE m \in DOMAIN fed
  <2> SUFFICES ASSUME m < n, fed[m].of = <<g, i>> PROVE m \in rows OBVIOUS
  <2>1. m \in Rows(fed, gs[g].ms[i].slot) BY <1>3, RowsAre
  <2>2. fed[m].slot = s BY <1>3, <2>1 DEF Rows
  <2>3. m \in 1 .. n - 1 BY <1>5
  <2> QED BY <2>2, <2>3
<1>8. fed[n].pos \in Int
  <2>1. n \in Rows(fed, gs[g].ms[i].slot) BY <1>3, RowsAre
  <2> QED BY <1>3, <2>1, RowsAre
<1>9. gs[g].pos \in Nat /\ PrefixEnd(gs[g]) \in Nat BY <1>3, GroupParts
<1>10. gs[fed[n].of[1]] = gs[g] OBVIOUS
<1> HIDE DEF s, g, i, rows
<1>11. CASE gs[g].phase # "prefill"
  <2>1. rows = {}
    <3> SUFFICES ASSUME NEW m \in rows PROVE FALSE OBVIOUS
    <3>1. fed[m].of = fed[n].of /\ m \in DOMAIN fed /\ m < n BY <1>3, <1>6
    <3>2. gs[fed[m].of[1]].phase = "prefill" BY <3>1, ComposeOrder
    <3> QED BY <1>10, <1>11, <3>1, <3>2
  <2>2. Cardinality(rows) = 0 BY <2>1, FS_EmptySet
  <2>3. fed[n].pos = Len(pool[s])
    <3>1. n \in Rows(fed, gs[g].ms[i].slot) BY <1>3, RowsAre
    <3> QED BY <1>3, <1>11, <3>1, RowsNext
  <2>4. fed[n].pos = Len(pool[s]) + 0 BY <1>8, <2>3
  <2> QED BY <2>2, <2>4 DEF s, rows
<1>12. CASE gs[g].phase = "prefill"
  <2> DEFINE from == gs[g].pos
             to == fed[n].pos
             at_ == [m \in rows |-> fed[m].pos + 1]
  <2>1. i = gs[g].leader /\ <<g, to + 1>> \in Taken(gs)
    <3>1. fed[n].of[2] = gs[g].leader /\ <<fed[n].of[1], fed[n].pos + 1>> \in Taken(gs)
      BY <1>2, <1>10, <1>12 DEF FedFor
    <3> QED BY <3>1 DEF i, g
  <2>2. Len(pool[s]) = from BY <1>3, <1>4, <1>12, <2>1 DEF MemberHolds, Span
  <2>3. \A k : <<g, k>> \in Taken(gs) => k \in from + 1 .. PrefixEnd(gs[g])
    <3>1. \A k : <<g, k>> \in Taken(gs) => k \in Wants(gs[g]) BY <1>1, <1>3, FedToIs
    <3> QED BY <1>12, <3>1 DEF Wants
  <2>4. to + 1 \in from + 1 .. PrefixEnd(gs[g]) /\ to \in Int /\ from \in Nat /\ from <= to
    BY <1>8, <1>9, <2>1, <2>3
  <2>5. ASSUME NEW m \in rows PROVE at_[m] \in from + 1 .. to
    <3>1. fed[m].of = fed[n].of /\ m \in DOMAIN fed /\ m < n /\ fed[m].pos \in Int BY <1>3, <1>6
    <3>2. fed[m].pos < to BY <3>1, ComposeOrder
    <3>3. <<g, fed[m].pos + 1>> \in Taken(gs)
      <4>1. <<fed[m].of[1], fed[m].pos + 1>> \in Taken(gs) BY <1>6, <1>10, <1>12, <3>1 DEF FedFor
      <4> QED BY <3>1, <4>1 DEF g
    <3>4. fed[m].pos + 1 \in from + 1 .. PrefixEnd(gs[g]) BY <2>3, <3>3
    <3> QED BY <1>9, <2>4, <3>1, <3>2, <3>4
  <2>6. \A x, y \in rows : at_[x] = at_[y] => x = y
    <3> SUFFICES ASSUME NEW x \in rows, NEW y \in rows, at_[x] = at_[y], x # y PROVE FALSE OBVIOUS
    <3>1. fed[x].pos \in Int /\ fed[y].pos \in Int /\ fed[x].of = fed[y].of /\ x \in DOMAIN fed /\ y \in DOMAIN fed
      BY <1>6
    <3>2. fed[x].pos = fed[y].pos BY <3>1
    <3>3. x < y \/ y < x BY <1>5, <3>1
    <3>4. fed[x].pos < fed[y].pos \/ fed[y].pos < fed[x].pos BY <3>1, <3>3, ComposeOrder
    <3> QED BY <3>1, <3>2, <3>4
  <2>7. \A k \in from + 1 .. to : \E m \in rows : at_[m] = k
    <3> TAKE k \in from + 1 .. to
    <3>1. k \in Int /\ k < to + 1 /\ k \in from + 1 .. PrefixEnd(gs[g]) BY <1>9, <2>4
    <3>2. k \in Wants(gs[g]) BY <1>12, <3>1 DEF Wants
    <3>3. <<g, k>> \in Wanted(gs) BY <1>1, <1>3, <3>2, WantedFits
    <3>4. Before(<<g, k>>, <<g, to + 1>>) BY <3>1 DEF Before
    <3>5. <<g, k>> \in Taken(gs) /\ <<g, k>>[1] = g /\ <<g, k>>[2] = k
      BY <1>1, <2>1, <3>3, <3>4, TakenDown
    <3>6. PICK m \in DOMAIN fed : fed[m].of = <<g, gs[g].leader>> /\ fed[m].pos = k - 1
      BY <1>1, <1>12, <3>5, FedIs
    <3>7. m < n
      <4>1. m # n /\ m \in Nat BY <1>5, <2>4, <3>1, <3>6
      <4>2. ~(n < m)
        <5> SUFFICES ASSUME n < m PROVE FALSE OBVIOUS
        <5>1. fed[n].of = fed[m].of BY <1>3, <2>1, <3>6
        <5>2. fed[n].pos < fed[m].pos BY <5>1, ComposeOrder
        <5> QED BY <2>4, <3>1, <3>6, <5>2
      <4> QED BY <1>5, <4>1, <4>2
    <3>8. m \in rows BY <1>7, <2>1, <3>6, <3>7
    <3>9. at_[m] = k
      <4>1. at_[m] = (k - 1) + 1 BY <3>6, <3>8
      <4> QED BY <3>1, <4>1
    <3> QED BY <3>8, <3>9
  <2> HIDE DEF at_
  <2>8. at_ \in [rows -> from + 1 .. to] BY <2>5 DEF at_
  <2>9. IsFiniteSet(rows)
    <3>1. rows \in SUBSET (1 .. n - 1) BY DEF rows
    <3>2. IsFiniteSet(1 .. n - 1) BY <1>5, FS_Interval
    <3> QED BY <3>1, <3>2, FS_Subset, Zenon
  <2> HIDE DEF from, to
  <2>10. Cardinality(from + 1 .. to) = Cardinality(rows) BY <2>6, <2>7, <2>8, <2>9, Matched
  <2>11. Cardinality(from + 1 .. to) = to - from BY <2>4, IntervalCount
  <2>12. to = from + Cardinality(rows) BY <2>4, <2>10, <2>11
  <2> QED BY <2>2, <2>12 DEF s, rows, to
<1> QED BY <1>11, <1>12

-----------------------------------------------------------------------------
\* What a wave holds for each of its requests: room for its prompts beyond what
\* they share with a pinned path, and for what may be sampled.
Room(r, h) == Copies[r] * (Len(Prompt[r]) + Budget[r] - h)
Shares(w, ps, h) ==
    /\ h \in 0 .. Len(Prompt[w.req]) - 1 /\ w.need = Room(w.req, h)
    /\ h = 0 \/ \E path \in ps : h <= Common(path, Prompt[w.req])
NeedFits(w, ps) == \E h : Shares(w, ps, h)
Needs(ws) == [i \in DOMAIN ws |-> ws[i].need]
\* In lockstep the cells in use, those still owed to the live groups and those
\* held for the wave are no more than there are.
CellInv ==
    /\ \A i \in DOMAIN wave : NeedFits(wave[i], pins)
    /\ mode = "Lockstep" =>
         Cardinality(CellsUsed(kv)) + Total(Due(groups)) + Total(Needs(wave)) <= Cells

\* What a wave holds is a total.
LEMMA NeedsFit ==
    ASSUME NEW ws \in Seq(WaveSet)
    PROVE  /\ DOMAIN Needs(ws) = DOMAIN ws /\ Needs(ws) \in [DOMAIN ws -> Int]
           /\ IsFiniteSet(DOMAIN ws) /\ Counted(Needs(ws), DOMAIN ws) /\ Total(Needs(ws)) \in Nat
<1>1. DOMAIN ws = 1 .. Len(ws) /\ Len(ws) \in Nat /\ \A i \in DOMAIN ws : ws[i].need \in Int
  <2>1. \A i \in DOMAIN ws : ws[i] \in WaveSet OBVIOUS
  <2>2. \A i \in DOMAIN ws : ws[i].need \in Int BY <2>1 DEF WaveSet
  <2>3. DOMAIN ws = 1 .. Len(ws) /\ Len(ws) \in Nat OBVIOUS
  <2> QED BY <2>2, <2>3
<1>2. IsFiniteSet(DOMAIN ws) BY <1>1, UpTo
<1>3. DOMAIN Needs(ws) = DOMAIN ws /\ Needs(ws) \in [DOMAIN ws -> Int] BY <1>1 DEF Needs
<1>4. Counted(Needs(ws), DOMAIN ws) BY <1>2, <1>3, UnitsOver
<1> QED BY <1>2, <1>3, <1>4 DEF Counted

\* The three sums are numbers.
LEMMA CellNumbers ==
    ASSUME Types
    PROVE  /\ Cardinality(CellsUsed(kv)) \in Nat /\ Total(Due(groups)) \in Nat /\ Total(Needs(wave)) \in Nat
           /\ Cells \in Nat
<1>1. kv \in PoolFn /\ groups \in Seq(Groups) /\ wave \in Seq(WaveSet)
  BY DEF Types, TreeTypes, GroupTypes, QueueTypes
<1>2. Total(Due(groups)) \in Nat
  <2>1. Total(Due(groups)) \in Nat /\ Total(DueWithout(groups, <<>>)) \in Nat
    BY <1>1, DueFits, Zenon
  <2> QED BY <2>1
<1> QED BY <1>1, <1>2, CellsCounted, NeedsFit, Constants

\* Steps that take no more cells than they spend of what is owed keep it.
LEMMA NoMore ==
    ASSUME Types, CellInv, UNCHANGED <<mode, wave, pins>>, kv' \in PoolFn, groups' \in Seq(Groups),
           Cardinality(CellsUsed(kv')) + Total(Due(groups'))
             <= Cardinality(CellsUsed(kv)) + Total(Due(groups))
    PROVE  CellInv'
<1>1. \A i \in DOMAIN wave' : NeedFits(wave'[i], pins') BY DEF CellInv
<1>2. ASSUME mode' = "Lockstep"
      PROVE  Cardinality(CellsUsed(kv')) + Total(Due(groups')) + Total(Needs(wave')) <= Cells
  <2>1. Cardinality(CellsUsed(kv)) + Total(Due(groups)) + Total(Needs(wave)) <= Cells
    BY <1>2 DEF CellInv
  <2>2. Cardinality(CellsUsed(kv')) \in Nat BY CellsCounted
  <2>3. Total(Due(groups')) \in Nat
    <3>1. Total(Due(groups')) \in Nat /\ Total(DueWithout(groups', <<>>)) \in Nat BY DueFits, Zenon
    <3> QED BY <3>1
  <2>4. Needs(wave') = Needs(wave) OBVIOUS
  <2> QED BY <2>1, <2>2, <2>3, <2>4, CellNumbers
<1>3. CellsUsed(kv)' = CellsUsed(kv') /\ Due(groups)' = Due(groups') /\ Needs(wave)' = Needs(wave')
  BY DEF CellsUsed, Pool, Due, Seated, Owed, On, PrefixEnd, PromptOf, Needs
<1> QED BY <1>1, <1>2, <1>3 DEF CellInv

\* So do steps that take no cell and add nothing that is owed.
LEMMA Shrinks ==
    ASSUME Types, CellInv, UNCHANGED <<mode, wave, pins>>, kv' \in PoolFn, groups' \in Seq(Groups),
           Cardinality(CellsUsed(kv')) <= Cardinality(CellsUsed(kv)),
           Total(Due(groups')) <= Total(Due(groups))
    PROVE  CellInv'
<1>1. Cardinality(CellsUsed(kv')) \in Nat BY CellsCounted
<1>2. Total(Due(groups')) \in Nat
  <2>1. Total(Due(groups')) \in Nat /\ Total(DueWithout(groups', <<>>)) \in Nat BY DueFits, Zenon
  <2> QED BY <2>1
<1> QED BY <1>1, <1>2, CellNumbers, NoMore

\* Slots that are cleared hold a part of what there was.
LEMMA ClearedPart ==
    ASSUME NEW pool, NEW ss, NEW s \in Pool
    PROVE  Range(Clear(pool, ss)[s]) \subseteq UNION {Range(pool[t]) : t \in Pool}
<1>1. Clear(pool, ss)[s] = IF s \in ss THEN <<>> ELSE pool[s] BY DEF Clear
<1>2. Range(<<>>) = {} BY DEF Range
<1> QED BY <1>1, <1>2

\* So do slots copied from one another.
LEMMA CopiedPart ==
    ASSUME NEW pool, NEW pairs, \A c \in pairs : c[1] \in Pool, NEW s \in Pool
    PROVE  Range(CopyAll(pool, pairs)[s]) \subseteq UNION {Range(pool[t]) : t \in Pool}
<1>1. PICK t \in Pool : CopyAll(pool, pairs)[s] = pool[t]
  <2>1. CASE \E c \in pairs : c[2] = s
    <3>1. (CHOOSE c \in pairs : c[2] = s) \in pairs BY <2>1
    <3>2. CopyAll(pool, pairs)[s] = pool[(CHOOSE c \in pairs : c[2] = s)[1]] BY <2>1 DEF CopyAll
    <3> QED BY <3>1, <3>2
  <2>2. CASE ~(\E c \in pairs : c[2] = s)
    <3>1. CopyAll(pool, pairs)[s] = pool[s] BY <2>2 DEF CopyAll
    <3> QED BY <3>1
  <2> QED BY <2>1, <2>2
<1> QED BY <1>1

\* With nobody ended all is due.
LEMMA AllDue == ASSUME NEW gs PROVE DueWithout(gs, <<>>) = Due(gs)
<1>1. Range(<<>>) = {} BY DEF Range
<1> QED BY <1>1 DEF Due, DueWithout

\* Groups that owe no more each owe no more in all.
LEMMA DueLess ==
    ASSUME NEW gs \in Seq(Groups), NEW hs \in Seq(Groups), DOMAIN hs = DOMAIN gs,
           \A g \in DOMAIN gs : \A i \in 0 .. Slots : Owed(hs[g], i) <= Owed(gs[g], i)
    PROVE  Total(Due(hs)) <= Total(Due(gs))
<1> DEFINE m == [g \in DOMAIN hs |-> g]
<1>1. /\ m \in [DOMAIN hs -> DOMAIN gs] /\ (\A k, l \in DOMAIN hs : m[k] = m[l] => k = l)
      /\ \A g \in DOMAIN hs : m[g] = g OBVIOUS
<1> HIDE DEF m
<1>2. \A g \in DOMAIN hs : \A i \in 0 .. Slots : Owed(hs[g], i) <= DueWithout(gs, <<>>)[<<m[g], i>>]
  <2>1. \A g \in DOMAIN gs : \A i \in 0 .. Slots : Due(gs)[<<g, i>>] = Owed(gs[g], i)
    BY DEF Due, Seated
  <2>2. \A g \in DOMAIN hs : \A i \in 0 .. Slots : Owed(hs[g], i) <= Due(gs)[<<m[g], i>>]
    BY <1>1, <2>1
  <2>3. DueWithout(gs, <<>>) = Due(gs) BY AllDue
  <2> QED BY <2>2, <2>3
<1>3. Total(Due(hs)) <= Total(DueWithout(gs, <<>>)) BY <1>1, <1>2, DueMoves
<1> QED BY <1>3, AllDue

\* What members who end owe no longer counts.
LEMMA EndedOwe ==
    ASSUME NEW gs \in Seq(Groups), NEW ps, Range(ps) \subseteq InGroups(gs), NEW g \in DOMAIN gs, NEW i \in 0 .. Slots
    PROVE  Owed(EndIn(gs, ps)[g], i) <= DueWithout(gs, ps)[<<g, i>>]
<1> DEFINE x == gs[g]
           h == EndIn(gs, ps)[g]
<1>1. DueWithout(gs, ps)[<<g, i>>] = IF <<g, i>> \in Range(ps) THEN 0 ELSE Owed(x, i)
  BY DEF DueWithout, Seated
<1>2. /\ h \in Groups /\ h.phase = x.phase /\ h.pos = x.pos /\ PrefixEnd(h) = PrefixEnd(x)
      /\ DOMAIN h.ms = DOMAIN x.ms /\ On(h) = {j \in On(x) : <<g, j>> \notin Range(ps)}
      /\ \A j \in DOMAIN x.ms : h.ms[j].req = x.ms[j].req /\ h.ms[j].gen = x.ms[j].gen
  <2>1. EndIn(gs, ps) \in Seq(Groups) /\ DOMAIN EndIn(gs, ps) = DOMAIN gs BY EndInFits
  <2>2. h \in Groups BY <2>1
  <2> QED BY <2>2, EndInFits
<1>3. x \in Groups /\ On(x) \subseteq DOMAIN x.ms /\ 0 \notin On(x) /\ Owed(x, i) \in Nat /\ Owed(h, i) \in Nat
  <2>1. x \in Groups OBVIOUS
  <2> HIDE DEF x, h
  <2> QED BY <1>2, <2>1, GroupParts, OwedFits
<1>4. <<g, 0>> \notin Range(ps)
  <2>1. \A p \in InGroups(gs) : p[2] \in Pool BY DEF InGroups
  <2>2. 0 \notin Pool /\ <<g, 0>>[2] = 0 BY DEF Pool
  <2> QED BY <2>1, <2>2
<1> HIDE DEF x, h
<1>5. CASE i = 0
  <2>1. Owed(h, i) = Owed(x, i) BY <1>2, <1>5 DEF Owed
  <2> QED BY <1>1, <1>3, <1>4, <1>5, <2>1 DEF h
<1>6. CASE i # 0 /\ i \in On(h)
  <2>1. i \in On(x) /\ <<g, i>> \notin Range(ps) /\ h.ms[i].req = x.ms[i].req /\ h.ms[i].gen = x.ms[i].gen
    BY <1>2, <1>3, <1>6
  <2>2. Owed(h, i) = Owed(x, i) BY <1>6, <2>1 DEF Owed
  <2> QED BY <1>1, <1>3, <2>1, <2>2 DEF h
<1>7. CASE i # 0 /\ i \notin On(h)
  <2>1. Owed(h, i) = 0 BY <1>7 DEF Owed
  <2> QED BY <1>1, <1>3, <2>1 DEF h
<1> QED BY <1>5, <1>6, <1>7

\* Retiring gives cells back, and what the ended members owed.
LEMMA RetireDue ==
    ASSUME NEW gs \in Seq(Groups), NEW pool \in PoolFn, NEW ps, Range(ps) \subseteq InGroups(gs),
           Retire(gs, pool, ps)
    PROVE  /\ groups' \in Seq(Groups) /\ Total(Due(groups')) <= Total(DueWithout(gs, ps))
           /\ kv' \in PoolFn /\ Cardinality(CellsUsed(kv')) <= Cardinality(CellsUsed(pool))
<1> DEFINE es == EndIn(gs, ps)
           hs == StillLive(es)
           m == [k \in DOMAIN hs |-> Nth(LiveAt(es), k)]
<1>1. groups' = hs BY DEF Retire
<1>2. es \in Seq(Groups) /\ DOMAIN es = DOMAIN gs BY EndInFits
<1> HIDE DEF es
<1>3. /\ hs \in Seq(Groups)
      /\ \A k \in DOMAIN hs : Nth(LiveAt(es), k) \in LiveAt(es) /\ hs[k] = es[Nth(LiveAt(es), k)]
      /\ \A k, l \in DOMAIN hs : k # l => Nth(LiveAt(es), k) # Nth(LiveAt(es), l)
  BY <1>2, StillLiveFits
<1>4. LiveAt(es) \subseteq DOMAIN gs BY <1>2 DEF LiveAt
<1> HIDE DEF hs
<1>5. /\ m \in [DOMAIN hs -> DOMAIN gs] /\ (\A k, l \in DOMAIN hs : m[k] = m[l] => k = l)
      /\ \A k \in DOMAIN hs : hs[k] = es[m[k]] BY <1>3, <1>4
<1> HIDE DEF m
<1>6. \A k \in DOMAIN hs : \A i \in 0 .. Slots : Owed(hs[k], i) <= DueWithout(gs, ps)[<<m[k], i>>]
  <2> TAKE k \in DOMAIN hs
  <2> TAKE i \in 0 .. Slots
  <2>1. m[k] \in DOMAIN gs BY <1>5
  <2>2. Owed(es[m[k]], i) <= DueWithout(gs, ps)[<<m[k], i>>] BY <2>1, EndedOwe DEF es
  <2> QED BY <1>5, <2>2
<1>7. Total(Due(hs)) <= Total(DueWithout(gs, ps)) BY <1>3, <1>5, <1>6, DueMoves
<1>8. PICK ss : kv' = Clear(pool, ss) BY DEF Retire
<1>9. kv' \in PoolFn BY <1>8, ClearFits
<1>10. \A s \in Pool : Range(kv'[s]) \subseteq UNION {Range(pool[t]) : t \in Pool}
  BY <1>8, ClearedPart
<1> QED BY <1>1, <1>3, <1>7, <1>9, <1>10, FewerCells

\* What is left once some have ended is no more than what was due.
LEMMA WithoutLess ==
    ASSUME NEW gs \in Seq(Groups), NEW ps
    PROVE  Total(DueWithout(gs, ps)) <= Total(Due(gs))
<1> DEFINE f == Due(gs)
           h == DueWithout(gs, ps)
           m == [p \in Seated(gs) |-> p]
<1>1. IsFiniteSet(Seated(gs)) /\ f \in [Seated(gs) -> Nat] /\ h \in [Seated(gs) -> Nat]
  BY DueFits, Zenon
<1>2. \A p \in Seated(gs) : h[p] = 0 \/ h[p] = f[p] BY DEF Due, DueWithout
<1> HIDE DEF f, h
<1>3. DOMAIN f = Seated(gs) /\ DOMAIN h = Seated(gs)
      /\ \A p \in Seated(gs) : f[p] \in Int /\ h[p] \in Int /\ h[p] <= f[p] BY <1>1, <1>2
<1>4. m \in [Seated(gs) -> Seated(gs)] /\ (\A p \in Seated(gs) : m[p] = p)
      /\ \A p, q \in Seated(gs) : m[p] = m[q] => p = q OBVIOUS
<1> HIDE DEF m
<1>5. /\ IsFiniteSet(DOMAIN f) /\ IsFiniteSet(DOMAIN h) /\ m \in [DOMAIN h -> DOMAIN f]
      /\ (\A p \in DOMAIN f : f[p] \in Int) /\ (\A p \in DOMAIN h : h[p] \in Int)
      /\ (\A p, q \in DOMAIN h : m[p] = m[q] => p = q) BY <1>1, <1>3, <1>4
<1>6. \A p \in DOMAIN h : h[p] <= f[m[p]] BY <1>3, <1>4
<1>7. Total(h) <= Total(f) BY <1>5, <1>6, SmallerTotal
<1> QED BY <1>7 DEF f, h

\* Steps that only clear slots, and end groups or leave them alone, keep the sum.
LEMMA ClearingKeeps ==
    ASSUME Types, CellInv, UNCHANGED <<mode, wave, pins>>, groups' = groups \/ groups' = <<>>,
           kv' = kv \/ \E ss : kv' = Clear(kv, ss)
    PROVE  CellInv'
<1>1. kv \in PoolFn /\ groups \in Seq(Groups) BY DEF Types, TreeTypes, GroupTypes
<1>2. kv' \in PoolFn /\ Cardinality(CellsUsed(kv')) <= Cardinality(CellsUsed(kv))
  <2>1. CASE kv' = kv BY <1>1, <2>1, CellNumbers
  <2>2. CASE \E ss : kv' = Clear(kv, ss)
    <3>1. PICK ss : kv' = Clear(kv, ss) BY <2>2
    <3>2. kv' \in PoolFn BY <1>1, <3>1, ClearFits
    <3>3. \A s \in Pool : Range(kv'[s]) \subseteq UNION {Range(kv[t]) : t \in Pool}
      BY <3>1, ClearedPart
    <3> QED BY <1>1, <3>2, <3>3, FewerCells
  <2> QED BY <2>1, <2>2
<1>3. groups' \in Seq(Groups) /\ Total(Due(groups')) <= Total(Due(groups))
  <2>1. CASE groups' = groups BY <1>1, <2>1, CellNumbers
  <2>2. CASE groups' = <<>>
    <3>1. DOMAIN Due(<<>>) = {} BY DEF Due, Seated
    <3>2. Total(Due(groups')) = 0 /\ groups' \in Seq(Groups) BY <2>2, <3>1, NoTotal
    <3> QED BY <3>2, CellNumbers
  <2> QED BY <2>1, <2>2
<1> QED BY <1>2, <1>3, Shrinks

\* Calls, and pumps that neither write nor admit, only clear slots.
LEMMA QuietClears ==
    ASSUME Types, CellInv,
           \/ \E r \in Requests : Submit(r) \/ Cancel(r)
           \/ Update \/ Sweep \/ ChooseAdapter \/ Evict \/ EndSelection \/ StepFails \/ NoStep
    PROVE  CellInv'
<1>1. UNCHANGED <<mode, wave, pins>> /\ (groups' = groups \/ groups' = <<>>)
      /\ (kv' = kv \/ \E ss : kv' = Clear(kv, ss))
  <2>1. CASE \E r \in Requests : Submit(r) \/ Cancel(r) BY <2>1 DEF Submit, Cancel
  <2>2. CASE Update \/ Sweep \/ EndSelection \/ NoStep
    BY <2>2 DEF Update, Sweep, EndSelection, NoStep
  <2>3. CASE ChooseAdapter
    <3>1. UNCHANGED <<mode, wave, pins, groups>> /\ Refresh(<<adapter', weights>>)
      BY <2>3 DEF ChooseAdapter
    <3> QED BY <3>1 DEF Refresh
  <2>4. CASE Evict BY <2>4 DEF Evict
  <2>5. CASE StepFails BY <2>5 DEF StepFails
  <2> QED BY <2>1, <2>2, <2>3, <2>4, <2>5
<1> QED BY <1>1, ClearingKeeps

\* Cancelled members leave, and what they owed goes with them.
LEMMA RemoveCancelledPays == ASSUME Types, CellInv, RemoveCancelled PROVE CellInv'
<1>1. GroupTypes /\ kv \in PoolFn /\ groups \in Seq(Groups) BY DEF Types, TreeTypes, GroupTypes
<1>2. PICK P \in SUBSET Members : Retire(HandedOver, HandOver, InOrder(P)) /\ UNCHANGED <<mode, wave, pins>>
  <2>1. UNCHANGED <<mode, wave, pins>> /\ \E late : Retire(HandedOver, HandOver,
                  InOrder({p \in Members : Member(groups, p).req \in cancelled \cup late}))
    BY DEF RemoveCancelled
  <2> QED BY <2>1
<1>3. HandedOver \in Seq(Groups) /\ DOMAIN HandedOver = DOMAIN groups /\ SameSeats(groups, HandedOver)
  BY <1>1, HandedOverFits
<1>4. Range(InOrder(P)) \subseteq InGroups(HandedOver)
  <2>1. Members = InGroups(groups) /\ InGroups(HandedOver) = InGroups(groups)
    BY <1>3, SameOf DEF Members, InGroups
  <2>2. P \in SUBSET ((DOMAIN groups) \X Pool) BY DEF Members
  <2>3. InOrder(P) \in Seq(P) BY <1>1, <2>2, PairsFinite, InOrderFits
  <2>4. Range(InOrder(P)) \in SUBSET P BY <2>3, RangeFinite
  <2> QED BY <2>1, <2>4
<1>5. HandOver \in PoolFn BY <1>1, HandOverFits
<1>6. /\ groups' \in Seq(Groups) /\ Total(Due(groups')) <= Total(DueWithout(HandedOver, InOrder(P)))
      /\ kv' \in PoolFn /\ Cardinality(CellsUsed(kv')) <= Cardinality(CellsUsed(HandOver))
  BY <1>2, <1>3, <1>4, <1>5, RetireDue
<1>7. Total(DueWithout(HandedOver, InOrder(P))) <= Total(Due(HandedOver)) BY <1>3, WithoutLess
<1>8. Total(Due(HandedOver)) <= Total(Due(groups))
  <2>1. ASSUME NEW g \in DOMAIN groups, NEW i \in 0 .. Slots
        PROVE  Owed(HandedOver[g], i) <= Owed(groups[g], i)
    <3>1. /\ HandedOver[g].ms = groups[g].ms /\ HandedOver[g].phase = groups[g].phase
          /\ HandedOver[g].pos = groups[g].pos BY <1>1, HandedOverIs
    <3>2. Owed(HandedOver[g], i) = Owed(groups[g], i) BY <3>1 DEF Owed, On, PrefixEnd, PromptOf
    <3>3. Owed(groups[g], i) \in Nat BY <1>1, OwedFits
    <3> QED BY <3>2, <3>3
  <2> QED BY <1>1, <1>3, <2>1, DueLess
<1>9. Cardinality(CellsUsed(HandOver)) <= Cardinality(CellsUsed(kv))
  <2>1. \A c \in HandPairs : c[1] \in Pool
    <3>1. \A g \in DOMAIN groups : groups[g].ms[groups[g].leader].slot \in Pool BY <1>1, GroupParts
    <3> QED BY <3>1 DEF HandPairs
  <2>2. HandOver = CopyAll(kv, HandPairs) BY DEF HandOver, HandPairs
  <2>3. \A s \in Pool : Range(HandOver[s]) \subseteq UNION {Range(kv[t]) : t \in Pool}
    BY <2>1, <2>2, CopiedPart
  <2> QED BY <1>1, <2>3, FewerCells
<1>10. /\ Cardinality(CellsUsed(HandOver)) \in Nat /\ Cardinality(CellsUsed(kv')) \in Nat
       /\ Total(Due(groups')) \in Nat /\ Total(Due(HandedOver)) \in Nat
       /\ Total(DueWithout(HandedOver, InOrder(P))) \in Nat
  <2>1. Total(Due(groups')) \in Nat /\ Total(DueWithout(groups', <<>>)) \in Nat
    BY <1>6, DueFits, Zenon
  <2>2. Total(Due(HandedOver)) \in Nat /\ Total(DueWithout(HandedOver, InOrder(P))) \in Nat
    BY <1>3, DueFits, Zenon
  <2> QED BY <1>5, <1>6, <2>1, <2>2, CellsCounted
<1>11. Total(Due(groups')) <= Total(Due(groups)) /\ Cardinality(CellsUsed(kv')) <= Cardinality(CellsUsed(kv))
  BY <1>6, <1>7, <1>8, <1>9, <1>10, CellNumbers
<1> QED BY <1>2, <1>6, <1>11, Shrinks

-----------------------------------------------------------------------------
\* What a step feeds to each member, and to each shared prefix.
Spent(gs) == [p \in Seated(gs) |->
    IF p[2] = 0
    THEN (IF gs[p[1]].phase = "prefill"
          THEN MovedOn(gs[p[1]], FedTo(gs, Taken(gs), p[1])) - gs[p[1]].pos ELSE 0)
    ELSE IF p \in Decodes(gs) \/ (p \in Taken(gs) /\ gs[p[1]].phase = "terminal") THEN 1 ELSE 0]

\* A prefix moves on by what it is fed.
LEMMA PrefixMoves ==
    ASSUME NEW gs \in Seq(Groups), \A g \in DOMAIN gs : On(gs[g]) # {},
           NEW g \in DOMAIN gs, gs[g].phase = "prefill"
    PROVE  LET to == MovedOn(gs[g], FedTo(gs, Taken(gs), g)) IN
           /\ to \in Nat /\ gs[g].pos \in Nat /\ gs[g].pos <= to /\ to <= PrefixEnd(gs[g])
           /\ \A k : <<g, k>> \in Taken(gs) => k \in gs[g].pos + 1 .. to
<1> DEFINE x == gs[g]
           ks == FedTo(gs, Taken(gs), g)
           to == MovedOn(x, ks)
<1>1. x \in Groups /\ x.pos \in Nat /\ On(x) # {} /\ PrefixEnd(x) \in Nat /\ x.phase = "prefill"
  BY GroupParts
<1>2. /\ \A k : <<g, k>> \in Taken(gs) <=> k \in ks
      /\ \A k \in ks : k \in Nat /\ k \in Wants(x)
      /\ ks = {} => to = x.pos
      /\ ks # {} => Max(ks) \in ks /\ (\A k \in ks : k <= Max(ks)) /\ to = Max(ks) + 0 BY FedToIs
<1>3. ks \in SUBSET Wants(x) BY <1>2
<1>4. to \in Nat /\ to <= PrefixEnd(x) BY <1>1, <1>3, MovedOnFits
<1>5. \A k \in ks : k \in x.pos + 1 .. PrefixEnd(x) BY <1>1, <1>2 DEF Wants
<1> HIDE DEF x, ks, to
<1>6. x.pos <= to /\ \A k \in ks : k \in x.pos + 1 .. to
  <2>1. CASE ks = {} BY <1>1, <1>2, <2>1
  <2>2. CASE ks # {}
    <3>1. PICK m \in Nat : m = Max(ks) /\ m \in ks /\ (\A k \in ks : k <= m) /\ to = m
      BY <1>2, <2>2
    <3> QED BY <1>1, <1>5, <3>1
  <2> QED BY <2>1, <2>2
<1> QED BY <1>1, <1>2, <1>4, <1>6 DEF x, ks, to

\* The tokens of a step are counted there.
LEMMA SpentFits ==
    ASSUME NEW gs \in Seq(Groups), \A g \in DOMAIN gs : On(gs[g]) # {}
    PROVE  /\ Spent(gs) \in [Seated(gs) -> Nat] /\ Total(Spent(gs)) \in Nat
           /\ Len(Compose(gs)) <= Total(Spent(gs)) /\ Len(Compose(gs)) \in Nat
<1> DEFINE c == Spent(gs)
           D == Decodes(gs)
           T == Taken(gs)
           spot == [p \in D \cup T |->
               IF gs[p[1]].phase = "prefill" THEN <<<<p[1], 0>>, p[2] - gs[p[1]].pos>> ELSE <<p, 1>>]
<1>1. ASSUME NEW p \in Seated(gs) PROVE c[p] \in Nat
  <2>1. p[1] \in DOMAIN gs BY DEF Seated
  <2>2. gs[p[1]].phase = "prefill" => MovedOn(gs[p[1]], FedTo(gs, T, p[1])) - gs[p[1]].pos \in Nat
    <3> SUFFICES ASSUME gs[p[1]].phase = "prefill" PROVE MovedOn(gs[p[1]], FedTo(gs, T, p[1])) - gs[p[1]].pos \in Nat
      OBVIOUS
    <3>1. PICK to \in Nat : to = MovedOn(gs[p[1]], FedTo(gs, T, p[1])) /\ gs[p[1]].pos \in Nat /\ gs[p[1]].pos <= to
      BY <2>1, PrefixMoves
    <3> QED BY <3>1
  <2> QED BY <2>2 DEF Spent
<1>2. c \in [Seated(gs) -> Nat]
  <2>1. c = [p \in Seated(gs) |-> c[p]] BY DEF Spent
  <2> HIDE DEF c
  <2> QED BY <1>1, <2>1
<1>3. IsFiniteSet(Seated(gs))
  <2>1. IsFiniteSet(Seated(gs)) /\ DueWithout(gs, <<>>) \in [Seated(gs) -> Nat] BY DueFits, Zenon
  <2> QED BY <2>1
<1>4. /\ Total(c) = Cardinality(Units(c)) /\ IsFiniteSet(Units(c)) /\ Total(c) \in Nat
      /\ \A u : u \in Units(c) <=> \E x \in Seated(gs) : \E n \in 1 .. c[x] : u = <<x, n>>
  <2>1. DOMAIN c = Seated(gs) /\ \A x \in Seated(gs) : c[x] \in Int BY <1>2
  <2>2. Counted(c, Seated(gs)) BY <1>3, <2>1, UnitsOver
  <2> QED BY <2>2 DEF Counted
<1>5. \A p \in D : /\ p = <<p[1], p[2]>> /\ p[1] \in DOMAIN gs /\ p[2] \in Pool /\ gs[p[1]].phase = "decode"
  BY DEF Decodes
<1>6. \A p \in T : /\ p = <<p[1], p[2]>> /\ p[1] \in DOMAIN gs /\ p[2] \in Int /\ gs[p[1]].phase # "decode"
                   /\ gs[p[1]].phase # "prefill" => gs[p[1]].phase = "terminal" /\ p[2] \in Pool
  <2> TAKE p \in T
  <2>1. p \in Int \X Int /\ p \in Wanted(gs) BY WantedFits
  <2>2. p = <<p[1], p[2]>> /\ p[2] \in Int BY <2>1
  <2>3. p[1] \in DOMAIN gs /\ p[2] \in Wants(gs[p[1]]) BY <2>1, WantedFits
  <2>4. gs[p[1]] \in Groups /\ On(gs[p[1]]) # {} BY <2>3
  <2>5. gs[p[1]].phase # "prefill" => gs[p[1]].phase = "terminal" /\ p[2] \in On(gs[p[1]])
    BY <2>3, <2>4, WantsFits
  <2>6. On(gs[p[1]]) \subseteq Pool BY <2>4, GroupParts
  <2>7. gs[p[1]].phase # "decode" BY <2>3 DEF Wants
  <2> QED BY <2>2, <2>3, <2>5, <2>6, <2>7
<1>7. Pool \subseteq 0 .. Slots /\ 0 \notin Pool /\ 0 \in 0 .. Slots BY Constants DEF Pool
<1>8. \A g \in DOMAIN gs : \A i \in 0 .. Slots : <<g, i>> \in Seated(gs) /\ <<g, i>>[1] = g /\ <<g, i>>[2] = i
  BY DEF Seated
<1>9. ASSUME NEW p \in D \cup T, gs[p[1]].phase # "prefill" PROVE spot[p] = <<p, 1>> /\ p \in Seated(gs) /\ c[p] = 1
  <2>1. p = <<p[1], p[2]>> /\ p[1] \in DOMAIN gs /\ p[2] \in Pool BY <1>5, <1>6, <1>9
  <2>2. p \in Seated(gs) /\ p[2] # 0 BY <1>7, <1>8, <2>1
  <2>3. p \in D \/ (p \in T /\ gs[p[1]].phase = "terminal") BY <1>6, <1>9
  <2>4. c[p] = 1 BY <2>2, <2>3 DEF Spent
  <2> QED BY <1>9, <2>2, <2>4
<1>10. ASSUME NEW p \in D \cup T, gs[p[1]].phase = "prefill"
       PROVE  /\ spot[p] = <<<<p[1], 0>>, p[2] - gs[p[1]].pos>> /\ <<p[1], 0>> \in Seated(gs)
              /\ p[2] - gs[p[1]].pos \in 1 .. c[<<p[1], 0>>] /\ gs[p[1]].pos \in Int /\ p[2] \in Int /\ p = <<p[1], p[2]>>
  <2>1. p \in T /\ p = <<p[1], p[2]>> /\ p[1] \in DOMAIN gs BY <1>5, <1>6, <1>10
  <2>2. PICK to \in Nat : /\ to = MovedOn(gs[p[1]], FedTo(gs, T, p[1])) /\ gs[p[1]].pos \in Nat
                          /\ \A k : <<p[1], k>> \in T => k \in gs[p[1]].pos + 1 .. to
    BY <1>10, <2>1, PrefixMoves
  <2>3. p[2] \in gs[p[1]].pos + 1 .. to BY <2>1, <2>2
  <2>4. <<p[1], 0>> \in Seated(gs) BY <1>7, <1>8, <2>1
  <2>5. c[<<p[1], 0>>] = to - gs[p[1]].pos BY <1>7, <1>8, <1>10, <2>1, <2>2, <2>4 DEF Spent
  <2>6. spot[p] = <<<<p[1], 0>>, p[2] - gs[p[1]].pos>> BY <1>10
  <2>7. p[2] - gs[p[1]].pos \in 1 .. to - gs[p[1]].pos BY <2>2, <2>3
  <2> QED BY <2>1, <2>2, <2>3, <2>4, <2>5, <2>6, <2>7
<1>11. D \cap T = {} /\ IsFiniteSet(D) /\ IsFiniteSet(T)
  <2>1. D \in SUBSET ((DOMAIN gs) \X Pool) BY DEF Decodes
  <2>2. IsFiniteSet(D) BY <2>1, PairsFinite
  <2>3. IsFiniteSet(T) BY WantedFits
  <2> QED BY <1>5, <1>6, <2>2, <2>3
<1>12. DOMAIN spot = D \cup T OBVIOUS
<1> HIDE DEF c, D, T, spot
<1>13. spot \in [D \cup T -> Units(c)]
  <2>1. ASSUME NEW p \in D \cup T PROVE spot[p] \in Units(c)
    <3>1. CASE gs[p[1]].phase # "prefill"
      <4>1. spot[p] = <<p, 1>> /\ p \in Seated(gs) /\ 1 \in 1 .. c[p] BY <1>9, <3>1
      <4> QED BY <1>4, <4>1
    <3>2. CASE gs[p[1]].phase = "prefill" BY <1>4, <1>10, <3>2
    <3> QED BY <3>1, <3>2
  <2>2. spot = [p \in D \cup T |-> spot[p]] BY DEF spot
  <2> QED BY <2>1, <2>2
<1>14. \A p, q \in D \cup T : spot[p] = spot[q] => p = q
  <2> SUFFICES ASSUME NEW p \in D \cup T, NEW q \in D \cup T, spot[p] = spot[q] PROVE p = q OBVIOUS
  <2>1. CASE gs[p[1]].phase # "prefill" /\ gs[q[1]].phase # "prefill"
    <3>1. <<p, 1>> = <<q, 1>> BY <1>9, <2>1
    <3> QED BY <3>1
  <2>2. CASE gs[p[1]].phase # "prefill" /\ gs[q[1]].phase = "prefill"
    <3>1. <<p, 1>> = <<<<q[1], 0>>, q[2] - gs[q[1]].pos>> BY <1>9, <1>10, <2>2
    <3>2. p = <<q[1], 0>> BY <3>1
    <3>3. p[1] = q[1] BY <3>2
    <3> QED BY <2>2, <3>3
  <2>3. CASE gs[p[1]].phase = "prefill" /\ gs[q[1]].phase # "prefill"
    <3>1. <<q, 1>> = <<<<p[1], 0>>, p[2] - gs[p[1]].pos>> BY <1>9, <1>10, <2>3
    <3>2. q = <<p[1], 0>> BY <3>1
    <3>3. p[1] = q[1] BY <3>2
    <3> QED BY <2>3, <3>3
  <2>4. CASE gs[p[1]].phase = "prefill" /\ gs[q[1]].phase = "prefill"
    <3>1. <<<<p[1], 0>>, p[2] - gs[p[1]].pos>> = <<<<q[1], 0>>, q[2] - gs[q[1]].pos>>
      BY <1>10, <2>4
    <3>2. p[1] = q[1] /\ p[2] - gs[p[1]].pos = q[2] - gs[q[1]].pos BY <3>1
    <3>3. p[2] = q[2]
      <4>1. gs[p[1]].pos \in Int /\ p[2] \in Int /\ q[2] \in Int BY <1>10, <2>4
      <4>2. \A i, j, k \in Int : i - k = j - k => i = j OBVIOUS
      <4> QED BY <3>2, <4>1, <4>2, Zenon
    <3>4. p = <<p[1], p[2]>> /\ q = <<q[1], q[2]>> BY <1>10, <2>4
    <3> QED BY <3>2, <3>3, <3>4
  <2> QED BY <2>1, <2>2, <2>3, <2>4
<1>15. Cardinality(D \cup T) <= Cardinality(Units(c)) BY <1>4, <1>13, <1>14, NoLarger
<1>16. Cardinality(D \cup T) = Cardinality(D) + Cardinality(T) BY <1>11, DisjointCount
<1>17. Len(Compose(gs)) = Cardinality(D) + Cardinality(T) /\ Cardinality(D) \in Nat /\ Cardinality(T) \in Nat
  BY ComposeFits DEF D, T
<1> QED BY <1>2, <1>4, <1>15, <1>16, <1>17 DEF c

\* What a step feeds is owed before it and not after it.
LEMMA StepOwes ==
    ASSUME NEW gs, NEW pool, NEW fed, Composing(gs, pool, fed), \A g \in DOMAIN gs : Alive(gs[g]),
           NEW emitting \in SUBSET Sampling(fed), Sampling(fed) \subseteq InGroups(gs), NEW ps,
           \A p \in Sampling(fed) : p \notin Range(ps) => p \in emitting,
           NEW q \in Seated(gs)
    PROVE  LET hs == Emitted(gs, Taken(gs), emitting) IN
           Spent(gs)[q] + DueWithout(hs, ps)[q] <= Due(gs)[q]
<1> DEFINE hs == Emitted(gs, Taken(gs), emitting)
           g == q[1]
           i == q[2]
           x == gs[g]
           y == hs[g]
<1> SUFFICES Spent(gs)[q] + DueWithout(hs, ps)[q] <= Due(gs)[q] OBVIOUS
<1>1. gs \in Seq(Groups) /\ (\A h \in DOMAIN gs : On(gs[h]) # {}) /\ GroupsHold(pool, gs) /\ fed = Compose(gs)
  BY DEF Composing
<1>2. q = <<g, i>> /\ g \in DOMAIN gs /\ i \in 0 .. Slots BY DEF Seated
<1>3. emitting \in SUBSET InGroups(gs) OBVIOUS
<1>4. /\ hs \in Seq(Groups) /\ SameSeats(gs, hs) /\ DOMAIN hs = DOMAIN gs
      /\ PromptOf(y) = PromptOf(x) /\ y.phase = x.phase /\ DOMAIN y.ms = DOMAIN x.ms
      /\ y.pos = MovedOn(x, FedTo(gs, Taken(gs), g))
      /\ \A j \in DOMAIN x.ms : y.ms[j] = Grown(gs, emitting, g, j)
  <2>1. /\ hs \in Seq(Groups) /\ SameSeats(gs, hs)
        /\ \A h \in DOMAIN gs :
             /\ PromptOf(hs[h]) = PromptOf(gs[h]) /\ hs[h].phase = gs[h].phase
             /\ hs[h].leader = gs[h].leader /\ hs[h].hit = gs[h].hit
             /\ DOMAIN hs[h].ms = DOMAIN gs[h].ms
             /\ hs[h].pos = MovedOn(gs[h], FedTo(gs, Taken(gs), h))
             /\ \A j \in DOMAIN gs[h].ms : hs[h].ms[j] = Grown(gs, emitting, h, j)
    <3>1. gs \in Seq(Groups) /\ \A h \in DOMAIN gs : Alive(gs[h]) BY <1>1
    <3> QED BY <1>3, <3>1, EmittedFits
  <2>2. DOMAIN hs = DOMAIN gs BY <2>1 DEF SameSeats
  <2> HIDE DEF hs
  <2> QED BY <1>2, <2>1, <2>2
<1>5. x \in Groups /\ Alive(x) /\ y \in Groups /\ On(y) = On(x)
  <2> HIDE DEF hs
  <2> QED BY <1>1, <1>2, <1>4 DEF SameSeats
<1>6. /\ On(x) \subseteq DOMAIN x.ms /\ DOMAIN x.ms \subseteq Pool /\ x.ms \in Seq(MemberSet) /\ y.ms \in Seq(MemberSet)
      /\ \A j \in DOMAIN x.ms : x.ms[j] \in MemberSet /\ x.ms[j].req \in Requests /\ x.ms[j].gen \in Nat
  <2> HIDE DEF x, y, hs
  <2> QED BY <1>5, GroupParts
<1>7. Due(gs)[q] = Owed(x, i) /\ DueWithout(hs, ps)[q] = IF q \in Range(ps) THEN 0 ELSE Owed(y, i)
  <2>1. Seated(hs) = Seated(gs) BY <1>4 DEF Seated
  <2> HIDE DEF hs
  <2> QED BY <2>1 DEF Due, DueWithout, x, y
<1>8. Owed(x, i) \in Nat /\ Owed(y, i) \in Nat /\ 0 \notin On(x)
  <2> HIDE DEF x, y, i
  <2> QED BY <1>5, OwedFits
<1>9. Len(y.ms) = Len(x.ms)
  <2> HIDE DEF x, y
  <2> QED BY <1>4, <1>6
<1> HIDE DEF hs, y
<1>10. CASE i = 0
  <2>1. Owed(x, i) = IF x.phase = "prefill" THEN PrefixEnd(x) - x.pos ELSE 0 BY <1>10 DEF Owed
  <2>2. Owed(y, i) = IF x.phase = "prefill" THEN PrefixEnd(x) - y.pos ELSE 0
    <3>1. PrefixEnd(y) = PrefixEnd(x) BY <1>4, <1>9 DEF PrefixEnd
    <3> QED BY <1>4, <1>10, <3>1 DEF Owed
  <2>3. Spent(gs)[q] = IF x.phase = "prefill" THEN y.pos - x.pos ELSE 0 BY <1>4, <1>10 DEF Spent
  <2>4. CASE x.phase = "prefill"
    <3>1. y.pos \in Nat /\ x.pos \in Nat /\ x.pos <= y.pos /\ y.pos <= PrefixEnd(x)
      BY <1>1, <1>2, <1>4, <2>4, PrefixMoves
    <3>2. PrefixEnd(x) \in Nat BY <1>5, GroupParts
    <3> HIDE DEF x, i
    <3> QED BY <1>7, <1>8, <2>1, <2>2, <2>3, <2>4, <3>1, <3>2
  <2>5. CASE x.phase # "prefill"
    <3> HIDE DEF x, i
    <3> QED BY <1>7, <1>8, <2>1, <2>2, <2>3, <2>5
  <2> QED BY <2>4, <2>5
<1>11. CASE i # 0 /\ i \notin On(x)
  <2>1. Owed(x, i) = 0 /\ Owed(y, i) = 0 BY <1>5, <1>11 DEF Owed
  <2>2. q \notin Decodes(gs) BY <1>11 DEF Decodes
  <2>3. ~(q \in Taken(gs) /\ x.phase = "terminal")
    <3> SUFFICES ASSUME q \in Taken(gs), x.phase = "terminal" PROVE FALSE OBVIOUS
    <3>1. q \in Wanted(gs) BY <1>1, WantedFits
    <3>2. i \in Wants(x) BY <1>1, <3>1, WantedFits
    <3> QED BY <1>11, <3>2 DEF Wants
  <2>4. Spent(gs)[q] = 0 BY <1>11, <2>2, <2>3 DEF Spent
  <2> HIDE DEF x, i
  <2> QED BY <1>7, <2>1, <2>4
<1>12. CASE i # 0 /\ i \in On(x)
  <2>1. PICK b \in Nat, n \in Nat : b = Budget[x.ms[i].req] /\ n = x.ms[i].gen /\ n < b /\ Owed(x, i) = b - n
    <3>1. x.ms[i].gen < Budget[x.ms[i].req] BY <1>5, <1>12 DEF Alive
    <3>2. Owed(x, i) = Budget[x.ms[i].req] - x.ms[i].gen BY <1>12 DEF Owed
    <3>3. Budget[x.ms[i].req] \in Nat /\ x.ms[i].gen \in Nat BY <1>6, <1>12, Constants
    <3> HIDE DEF x, i
    <3> QED BY <3>1, <3>2, <3>3
  <2>2. Owed(y, i) = IF q \in emitting THEN b - (n + 1) ELSE b - n
    <3>1. i \in DOMAIN x.ms BY <1>6, <1>12
    <3>2. y.ms[i] = IF q \in emitting THEN Sampled(x.ms[i]) ELSE x.ms[i]
      BY <1>2, <1>4, <3>1 DEF Grown
    <3>3. Sampled(x.ms[i]).gen = n + 1 /\ Sampled(x.ms[i]).req = x.ms[i].req
      BY <1>6, <2>1, <3>1 DEF Sampled, MemberSet
    <3>4. Owed(y, i) = Budget[y.ms[i].req] - y.ms[i].gen BY <1>5, <1>12 DEF Owed
    <3> HIDE DEF x, i
    <3> QED BY <2>1, <3>2, <3>3, <3>4
  <2>3. CASE q \in Decodes(gs) \/ (q \in Taken(gs) /\ x.phase = "terminal")
    <3>1. Spent(gs)[q] = 1 BY <1>12, <2>3 DEF Spent
    <3>2. q \in Sampling(fed)
      <4>1. PICK m \in DOMAIN fed : fed[m].of = q
        <5>1. CASE q \in Decodes(gs) BY <1>1, <5>1, FedIs
        <5>2. CASE q \in Taken(gs) /\ x.phase = "terminal"
          <6>1. gs[q[1]].phase # "prefill" BY <5>2
          <6> QED BY <1>1, <5>2, <6>1, FedIs
        <5> QED BY <2>3, <5>1, <5>2
      <4>2. FedFor(gs, fed[m]) BY <1>1, FedIs
      <4>3. gs[fed[m].of[1]].phase = "decode" \/ gs[fed[m].of[1]].phase = "terminal"
        BY <2>3, <4>1 DEF Decodes
      <4>4. fed[m].sample BY <4>2, <4>3 DEF FedFor
      <4> QED BY <4>1, <4>4 DEF Sampling
    <3>3. q \in Range(ps) \/ q \in emitting BY <3>2
    <3> HIDE DEF x, i
    <3> QED BY <1>7, <2>1, <2>2, <3>1, <3>3
  <2>4. CASE ~(q \in Decodes(gs) \/ (q \in Taken(gs) /\ x.phase = "terminal"))
    <3>1. Spent(gs)[q] = 0 BY <1>12, <2>4 DEF Spent
    <3> HIDE DEF x, i
    <3> QED BY <1>7, <2>1, <2>2, <3>1
  <2> QED BY <2>3, <2>4
<1> HIDE DEF i, x
<1>13. i = 0 \/ (i # 0 /\ i \notin On(x)) \/ (i # 0 /\ i \in On(x)) OBVIOUS
<1> QED BY <1>10, <1>11, <1>12, <1>13

\* A step takes a free cell for each of its tokens.
LEMMA WrittenCells ==
    ASSUME NEW pool \in PoolFn, NEW S, NEW fed \in Seq(S)
    PROVE  /\ Cardinality(CellsUsed(Written(pool, fed))) \in Nat
           /\ Cardinality(CellsUsed(Written(pool, fed))) <= Cardinality(CellsUsed(pool)) + Len(fed)
<1> DEFINE cells == [n \in DOMAIN fed |-> [cell |-> Nth(FreeCells(pool), n), tok |-> <<CacheKey, fed[n].tok>>]]
           rows(s) == {n \in DOMAIN fed : fed[n].slot = s}
           new == {Nth(FreeCells(pool), n) : n \in DOMAIN fed}
           C == {cells[n] : n \in DOMAIN fed}
<1>1. PICK l \in Nat : l = Len(fed) /\ DOMAIN fed = 1 .. l OBVIOUS
<1>2. \A n \in DOMAIN fed : cells[n].cell \in new OBVIOUS
<1>3. \A s \in Pool : Written(pool, fed)[s] = pool[s] \o Kept(cells, rows(s)) BY DEF Written
<1>4. \A s \in Pool : Kept(cells, rows(s)) \in Seq(C)
  <2> TAKE s \in Pool
  <2>1. rows(s) \in SUBSET (1 .. l) /\ \A n \in rows(s) : cells[n] \in C BY <1>1
  <2> HIDE DEF cells, rows, C
  <2> QED BY <2>1, KeptIn
<1>5. \A c \in C : c.cell \in new BY <1>2
<1> HIDE DEF cells, rows, new, C
<1>6. \A s \in Pool : \A c \in Range(Written(pool, fed)[s]) : c.cell \in CellsUsed(pool) \cup new
  <2> TAKE s \in Pool
  <2>1. pool[s] \in Seq(Range(pool[s]))
    <3>1. pool[s] \in Seq(CellSet) BY DEF PoolFn
    <3> QED BY <3>1 DEF Range
  <2>2. pool[s] \in Seq(Range(pool[s]) \cup C) /\ Kept(cells, rows(s)) \in Seq(Range(pool[s]) \cup C)
    BY <1>4, <2>1
  <2>3. Written(pool, fed)[s] \in Seq(Range(pool[s]) \cup C)
    <3>1. pool[s] \o Kept(cells, rows(s)) \in Seq(Range(pool[s]) \cup C) BY <2>2, Concatenated
    <3> QED BY <1>3, <3>1, Zenon
  <2>4. Range(Written(pool, fed)[s]) \in SUBSET (Range(pool[s]) \cup C) BY <2>3, RangeFinite
  <2>5. \A c \in Range(pool[s]) : c.cell \in CellsUsed(pool) BY DEF CellsUsed
  <2> QED BY <1>5, <2>4, <2>5
<1>7. CellsUsed(Written(pool, fed)) \in SUBSET (CellsUsed(pool) \cup new) BY <1>6 DEF CellsUsed
<1>8. IsFiniteSet(new) /\ Cardinality(new) \in Nat /\ Cardinality(new) <= l
  <2> DEFINE f == [n \in 1 .. l |-> Nth(FreeCells(pool), n)]
  <2>1. f \in Surjection(1 .. l, new) BY <1>1 DEF Surjection, new
  <2>2. IsFiniteSet(1 .. l) /\ Cardinality(1 .. l) = l BY UpTo
  <2>3. IsFiniteSet(new) /\ Cardinality(new) <= Cardinality(1 .. l)
    BY <2>1, <2>2, FS_Surjection, Zenon
  <2> QED BY <2>2, <2>3, FS_CardinalityType
<1>9. IsFiniteSet(CellsUsed(pool)) /\ Cardinality(CellsUsed(pool)) \in Nat BY CellsCounted
<1>10. /\ IsFiniteSet(CellsUsed(pool) \cup new)
       /\ Cardinality(CellsUsed(pool) \cup new) <= Cardinality(CellsUsed(pool)) + Cardinality(new)
  <2>1. /\ IsFiniteSet(CellsUsed(pool) \cup new)
        /\ Cardinality(CellsUsed(pool) \cup new)
             = Cardinality(CellsUsed(pool)) + Cardinality(new) - Cardinality(CellsUsed(pool) \cap new)
    BY <1>8, <1>9, FS_Union
  <2>2. IsFiniteSet(CellsUsed(pool) \cap new)
    <3>1. CellsUsed(pool) \cap new \in SUBSET new OBVIOUS
    <3> QED BY <1>8, <3>1, FS_Subset, Zenon
  <2>3. Cardinality(CellsUsed(pool) \cap new) \in Nat BY <2>2, FS_CardinalityType
  <2> QED BY <1>8, <1>9, <2>1, <2>3
<1>11. /\ IsFiniteSet(CellsUsed(Written(pool, fed)))
       /\ Cardinality(CellsUsed(Written(pool, fed))) <= Cardinality(CellsUsed(pool) \cup new)
  BY <1>7, <1>10, FS_Subset, Zenon
<1>12. Cardinality(CellsUsed(Written(pool, fed))) \in Nat /\ Cardinality(CellsUsed(pool) \cup new) \in Nat
  BY <1>10, <1>11, FS_CardinalityType
<1> QED BY <1>1, <1>8, <1>9, <1>10, <1>11, <1>12

\* Getting ready takes no cells and owes no more.
LEMMA ReadyOwes ==
    ASSUME Types
    PROVE  /\ Total(Due(Ready)) \in Nat /\ Total(Due(Ready)) <= Total(Due(groups))
           /\ ReadyPool \in PoolFn /\ Cardinality(CellsUsed(ReadyPool)) <= Cardinality(CellsUsed(kv))
<1>1. GroupTypes /\ kv \in PoolFn /\ groups \in Seq(Groups) BY DEF Types, TreeTypes, GroupTypes
<1>2. /\ Ready \in Seq(Groups) /\ DOMAIN Ready = DOMAIN groups
      /\ \A g \in DOMAIN groups : Ready[g] = Advanced(groups[g]) BY <1>1, ReadyFits
<1>3. ASSUME NEW g \in DOMAIN groups, NEW i \in 0 .. Slots PROVE Owed(Ready[g], i) <= Owed(groups[g], i)
  <2> DEFINE x == groups[g]
             h == Advanced(x)
  <2>1. x \in Groups BY <1>1
  <2>2. h \in Groups /\ h.ms = x.ms /\ PrefixEnd(h) = PrefixEnd(x) BY <2>1, AdvancedFits
  <2>3. Owed(x, i) \in Nat /\ Owed(h, i) \in Nat
    <3> HIDE DEF x, h
    <3> QED BY <2>1, <2>2, OwedFits
  <2>4. h.phase # "prefill" \/ h = x
    <3>1. \/ h.phase = "terminal" \/ h.phase = "decode" \/ h = x BY <2>1, AdvancedIs
    <3> QED BY <3>1
  <2>5. Ready[g] = h BY <1>2
  <2> HIDE DEF x, h
  <2>6. CASE i = 0 /\ h.phase # "prefill"
    <3>1. Owed(h, i) = 0 BY <2>6 DEF Owed
    <3> QED BY <2>3, <2>5, <3>1 DEF x
  <2>7. CASE i # 0
    <3>1. On(h) = On(x) BY <2>2 DEF On
    <3>2. Owed(h, i) = Owed(x, i) BY <2>2, <2>7, <3>1 DEF Owed
    <3> QED BY <2>3, <2>5, <3>2 DEF x
  <2>8. CASE h = x BY <2>3, <2>5, <2>8 DEF x
  <2> QED BY <2>4, <2>6, <2>7, <2>8
<1>4. Total(Due(Ready)) <= Total(Due(groups)) BY <1>1, <1>2, <1>3, DueLess
<1>5. Total(Due(Ready)) \in Nat
  <2>1. Total(Due(Ready)) \in Nat /\ Total(DueWithout(Ready, <<>>)) \in Nat BY <1>2, DueFits, Zenon
  <2> QED BY <2>1
<1>6. ReadyPool \in PoolFn BY <1>1, ReadyPoolFits
<1>7. \A s \in Pool : Range(ReadyPool[s]) \subseteq UNION {Range(kv[t]) : t \in Pool}
  <2>1. \A c \in ReadyPairs : c[1] \in Pool
    <3>1. \A g \in DOMAIN groups : groups[g].ms[groups[g].leader].slot \in Pool BY <1>1, GroupParts
    <3>2. \A p \in Members : p[1] \in DOMAIN groups BY DEF Members
    <3> QED BY <3>1, <3>2 DEF ReadyPairs
  <2>2. ReadyPool = CopyAll(kv, ReadyPairs) BY DEF ReadyPool, ReadyPairs
  <2> QED BY <2>1, <2>2, CopiedPart
<1> QED BY <1>1, <1>4, <1>5, <1>6, <1>7, FewerCells

\* What a step feeds, and what it leaves owed, was owed before it.
LEMMA StepSpends ==
    ASSUME NEW gs, NEW pool, NEW fed, Composing(gs, pool, fed), \A g \in DOMAIN gs : Alive(gs[g]),
           NEW emitting \in SUBSET Sampling(fed), NEW ps,
           \A p \in Sampling(fed) : p \notin Range(ps) => p \in emitting
    PROVE  LET hs == Emitted(gs, Taken(gs), emitting) IN
           /\ hs \in Seq(Groups) /\ DOMAIN hs = DOMAIN gs /\ InGroups(hs) = InGroups(gs)
           /\ Total(DueWithout(hs, ps)) \in Nat /\ Total(Due(gs)) \in Nat /\ Len(fed) \in Nat
           /\ Len(fed) + Total(DueWithout(hs, ps)) <= Total(Due(gs))
<1> DEFINE hs == Emitted(gs, Taken(gs), emitting)
           f == Due(gs)
           a == Spent(gs)
           b == DueWithout(hs, ps)
<1>1. gs \in Seq(Groups) /\ (\A g \in DOMAIN gs : On(gs[g]) # {}) /\ fed \in Seq(Feeds(gs)) /\ fed = Compose(gs)
  BY DEF Composing
<1>2. Sampling(fed) \subseteq InGroups(gs) BY EndsAre
<1>3. hs \in Seq(Groups) /\ SameSeats(gs, hs) BY <1>1, <1>2, EmittedFits
<1>4. DOMAIN hs = DOMAIN gs /\ InGroups(hs) = InGroups(gs) /\ Seated(hs) = Seated(gs)
  BY <1>3, SameOf DEF SameSeats, Seated
<1>5. \A q \in Seated(gs) : a[q] + b[q] <= f[q] BY <1>2, StepOwes
<1>6. b \in [Seated(gs) -> Nat]
  <2> HIDE DEF hs
  <2> QED BY <1>3, <1>4, DueFits, Zenon
<1>7. f \in [Seated(gs) -> Nat] /\ IsFiniteSet(Seated(gs)) /\ DueWithout(gs, <<>>) \in [Seated(gs) -> Nat]
  BY <1>1, DueFits, Zenon
<1>8. a \in [Seated(gs) -> Nat] /\ Len(fed) \in Nat /\ Len(fed) <= Total(a) BY <1>1, SpentFits
<1> HIDE DEF a, b, f, hs
<1>9. f \in [Seated(gs) -> Int] BY <1>7
<1>10. Total(a) + Total(b) <= Total(f) /\ Total(a) \in Nat /\ Total(b) \in Nat /\ Total(f) \in Nat
  BY <1>5, <1>6, <1>7, <1>8, <1>9, SplitTotal
<1> QED BY <1>3, <1>4, <1>8, <1>10 DEF b, f, hs

\* In lockstep a step finds its cells.
LEMMA StepFinds == ASSUME Types, SlotInv, CellInv, mode = "Lockstep" PROVE Accepted(ReadyPool, Fed)
<1>1. Composing(Ready, ReadyPool, Fed) BY ReadyComposes
<1>2. Len(Fed) <= Cardinality(FreeCells(ReadyPool))
  <2>1. Len(Fed) \in Nat /\ Len(Fed) <= Total(Due(Ready))
    <3> DEFINE b == DueWithout(Emitted(Ready, Taken(Ready), Sampling(Fed)), <<>>)
    <3>1. Total(b) \in Nat /\ Total(Due(Ready)) \in Nat /\ Len(Fed) \in Nat /\ Len(Fed) + Total(b) <= Total(Due(Ready))
      BY ReadyComposes, StepSpends
    <3> HIDE DEF b
    <3> QED BY <3>1
  <2>2. Cardinality(CellsUsed(kv)) + Total(Due(groups)) + Total(Needs(wave)) <= Cells
    BY DEF CellInv
  <2>3. /\ Total(Due(Ready)) \in Nat /\ Total(Due(Ready)) <= Total(Due(groups))
        /\ ReadyPool \in PoolFn /\ Cardinality(CellsUsed(ReadyPool)) <= Cardinality(CellsUsed(kv))
    BY ReadyOwes
  <2>4. /\ Cardinality(CellsUsed(ReadyPool)) \in Nat
        /\ Cardinality(CellsUsed(ReadyPool)) + Cardinality(FreeCells(ReadyPool)) = Cells
        /\ Cardinality(FreeCells(ReadyPool)) \in Nat BY <2>3, CellsCounted, FS_CardinalityType
  <2> QED BY <2>1, <2>2, <2>3, <2>4, CellNumbers
<1>3. \A n \in DOMAIN Fed : Fed[n].pos = Len(ReadyPool[Fed[n].slot])
                              + Cardinality({m \in 1 .. n - 1 : Fed[m].slot = Fed[n].slot})
  BY <1>1, RowsContinue
<1> QED BY <1>2, <1>3 DEF Accepted

\* A step spends what it pays for: the cells it takes were owed.
LEMMA StepPays == ASSUME Types, SlotInv, CellInv, Step PROVE CellInv'
<1> DEFINE gs == Ready
           pool == ReadyPool
           fed == Fed
           emitting == Emitting(fed)
           after == Emitted(gs, Taken(gs), emitting)
           room == Written(pool, fed)
<1>1. Composing(gs, pool, fed) /\ \A g \in DOMAIN gs : Alive(gs[g]) BY ReadyComposes
<1>2. gs \in Seq(Groups) /\ (\A g \in DOMAIN gs : On(gs[g]) # {}) /\ pool \in PoolFn /\ fed \in Seq(Feeds(gs))
      /\ fed = Compose(gs) BY <1>1 DEF Composing
<1>3. UNCHANGED <<mode, wave, pins>> /\ Accepted(pool, fed) /\ adapter \in Adapters /\ weights \in 0 .. Updates
  BY DEF Step, Types, TreeTypes
<1>4. PICK E \in SUBSET Sampling(fed) :
         /\ \A p \in Sampling(fed) : p \notin E => p \in emitting
         /\ Retire(after, room, EndsOf(fed, E)) BY StepEnds
<1> DEFINE ps == EndsOf(fed, E)
<1> HIDE DEF gs, pool, fed
<1>5. emitting \in SUBSET Sampling(fed) BY DEF Emitting
<1>6. Sampling(fed) \subseteq InGroups(gs) /\ Range(ps) = E BY <1>1, <1>4, EndsAre
<1> HIDE DEF emitting, ps, room
<1>7. /\ after \in Seq(Groups) /\ DOMAIN after = DOMAIN gs /\ InGroups(after) = InGroups(gs)
      /\ Total(DueWithout(after, ps)) \in Nat /\ Total(Due(gs)) \in Nat /\ Len(fed) \in Nat
      /\ Len(fed) + Total(DueWithout(after, ps)) <= Total(Due(gs))
  <2>1. \A p \in Sampling(fed) : p \notin Range(ps) => p \in emitting BY <1>4, <1>6
  <2> QED BY <1>1, <1>5, <2>1, StepSpends
<1>8. room \in PoolFn BY <1>2, <1>3, WrittenFits DEF Accepted, room
<1>9. /\ groups' \in Seq(Groups) /\ Total(Due(groups')) <= Total(DueWithout(after, ps))
      /\ kv' \in PoolFn /\ Cardinality(CellsUsed(kv')) <= Cardinality(CellsUsed(room))
  <2>1. Range(ps) \subseteq InGroups(after) /\ Retire(after, room, ps) BY <1>4, <1>6, <1>7 DEF ps
  <2> HIDE DEF after
  <2> QED BY <1>7, <1>8, <2>1, RetireDue
<1>10. /\ Cardinality(CellsUsed(room)) \in Nat /\ Cardinality(CellsUsed(pool)) \in Nat
       /\ Cardinality(CellsUsed(room)) <= Cardinality(CellsUsed(pool)) + Len(fed)
  BY <1>2, CellsCounted, WrittenCells DEF room
<1>11. /\ Total(Due(gs)) <= Total(Due(groups)) /\ Cardinality(CellsUsed(pool)) <= Cardinality(CellsUsed(kv))
  BY ReadyOwes DEF gs, pool
<1>12. Cardinality(CellsUsed(kv')) \in Nat /\ Total(Due(groups')) \in Nat
  <2>1. Total(Due(groups')) \in Nat /\ Total(DueWithout(groups', <<>>)) \in Nat
    BY <1>9, DueFits, Zenon
  <2> QED BY <1>9, <2>1, CellsCounted
<1> HIDE DEF after
<1>13. Cardinality(CellsUsed(kv')) + Total(Due(groups'))
         <= Cardinality(CellsUsed(kv)) + Total(Due(groups))
  BY <1>7, <1>9, <1>10, <1>11, <1>12, CellNumbers
<1> QED BY <1>3, <1>9, <1>13, NoMore

\* The scheduler starts with all its cells.
LEMMA InitCells == ASSUME Init PROVE CellInv
<1>1. kv = [s \in Pool |-> <<>>] /\ groups = <<>> /\ wave = <<>> BY DEF Init
<1>2. CellsUsed(kv) = {}
  <2>1. \A s \in Pool : Range(kv[s]) = {} BY <1>1 DEF Range
  <2> QED BY <2>1 DEF CellsUsed
<1>3. Total(Due(groups)) = 0
  <2>1. DOMAIN Due(groups) = {} BY <1>1 DEF Due, Seated
  <2> QED BY <2>1, NoTotal
<1>4. Total(Needs(wave)) = 0
  <2>1. DOMAIN Needs(wave) = {} BY <1>1 DEF Needs
  <2> QED BY <2>1, NoTotal
<1>5. Cardinality({}) = 0 /\ Cells \in Nat BY FS_EmptySet, Constants
<1>6. Cardinality(CellsUsed(kv)) + Total(Due(groups)) + Total(Needs(wave)) <= Cells
  BY <1>2, <1>3, <1>4, <1>5
<1>7. DOMAIN wave = {} BY <1>1
<1> QED BY <1>6, <1>7 DEF CellInv

\* The sum is kept in lockstep, and a request that joins live groups is not.
LEMMA AdmitFrontPays == ASSUME CellInv, AdmitFront PROVE CellInv'
<1>1. mode' = "Continuous" /\ UNCHANGED <<wave, pins>> BY DEF AdmitFront
<1>2. mode' # "Lockstep" BY <1>1
<1> QED BY <1>1, <1>2 DEF CellInv

\* A prefix two sequences share is no longer than the longest one.
LEMMA CommonReaches ==
    ASSUME NEW p \in Seq(Int), NEW q \in Seq(Int), NEW h \in Nat, h <= Len(p), h <= Len(q),
           \A i \in 1 .. h : p[i] = q[i]
    PROVE  h <= Common(p, q)
<1> DEFINE K == {n \in 0 .. Min({Len(p), Len(q)}) : SubSeq(p, 1, n) = SubSeq(q, 1, n)}
<1>1. PICK m \in Nat : m = Min({Len(p), Len(q)}) /\ h <= m
  <2>1. PICK a \in Nat : a = Len(p) OBVIOUS
  <2>2. PICK b \in Nat : b = Len(q) OBVIOUS
  <2>3. PICK n \in Nat : n = Min({a, b}) /\ (n = a \/ n = b) BY MinOfTwo
  <2> QED BY <2>1, <2>2, <2>3
<1>2. SubSeq(p, 1, h) = SubSeq(q, 1, h)
  <2>1. SubSeq(p, 1, h) \in Seq(Int) /\ SubSeq(q, 1, h) \in Seq(Int) OBVIOUS
  <2>2. Len(SubSeq(p, 1, h)) = h /\ Len(SubSeq(q, 1, h)) = h OBVIOUS
  <2>3. \A i \in 1 .. h : SubSeq(p, 1, h)[i] = p[i] /\ SubSeq(q, 1, h)[i] = q[i] OBVIOUS
  <2> QED BY <2>1, <2>2, <2>3, SameSequence
<1>3. h \in K /\ K \in SUBSET (0 .. m) BY <1>1, <1>2
<1>4. Common(p, q) = Max(K) BY DEF Common
<1> HIDE DEF K
<1>5. IsFiniteSet(K) /\ K \in SUBSET Int BY <1>3, BoundedFinite
<1> QED BY <1>3, <1>4, <1>5, MaxFits

\* A lookup shares as much as any path of the tree does.
LEMMA HitReaches ==
    ASSUME dormant \in Seq(NodeSet), NEW p \in Seq(Int), Len(p) > 0,
           NEW path \in {d.path : d \in Range(dormant)},
           NEW h \in 0 .. Len(p) - 1, h <= Common(path, p)
    PROVE  h <= Hit(p).len
<1> DEFINE S == {0} \cup {Common(d.path, p) : d \in Range(dormant)}
           best == Max(S)
<1>1. PICK n \in Nat : n = Len(p) OBVIOUS
<1>2. IsFiniteSet(Range(dormant)) /\ \A d \in Range(dormant) : d.path \in Seq(Int)
  <2>1. IsFiniteSet(Range(dormant)) /\ Range(dormant) \in SUBSET NodeSet BY RangeFinite
  <2> QED BY <2>1 DEF NodeSet
<1>3. S \in SUBSET (0 .. n) /\ S # {} /\ Common(path, p) \in S
  <2>1. \A d \in Range(dormant) : Common(d.path, p) \in 0 .. n BY <1>1, <1>2, CommonFits
  <2> QED BY <1>1, <2>1
<1>4. \E l \in Int : l = Hit(p).len /\ l = Min({best, n - 1})
  <2>0. best \in Int
    <3> HIDE DEF S
    <3>1. IsFiniteSet(S) /\ S \in SUBSET Int BY <1>3, BoundedFinite
    <3> QED BY <1>3, <3>1, MaxFits
  <2>1. Hit(p).len = Min({best, Len(p) - 1}) BY DEF Hit, Cold
  <2> HIDE DEF best
  <2>2. Min({best, n - 1}) \in Int BY <2>0, MinOfTwo
  <2> QED BY <1>1, <2>1, <2>2
<1> HIDE DEF S
<1>5. IsFiniteSet(S) /\ S \in SUBSET Int BY <1>3, BoundedFinite
<1>6. best \in Int /\ Common(path, p) <= best /\ Common(path, p) \in Int BY <1>3, <1>5, MaxFits
<1> HIDE DEF best
<1>7. h <= Min({best, n - 1}) BY <1>1, <1>6, MinOfTwo
<1> QED BY <1>4, <1>7

\* None is no node of the tree.
LEMMA NoneIsNoNode == None \notin NodeSet
<1>1. NodeSet \subseteq [path : Seq(Int), slot : Int] BY DEF NodeSet, Pool
<1> QED BY <1>1, InferAssumption DEF InferAssumption

\* The room a request takes is a number.
LEMMA RoomFits ==
    ASSUME NEW r \in Requests, NEW h \in 0 .. Len(Prompt[r]) - 1
    PROVE  /\ Room(r, h) \in Nat /\ Len(Prompt[r]) + Budget[r] - h \in Nat /\ h \in Nat
           /\ Room(r, h) = Copies[r] * (Len(Prompt[r]) + Budget[r] - h)
<1>1. PICK c \in Nat : c = Copies[r] BY Constants
<1>2. PICK l \in Nat : l = Len(Prompt[r]) BY Constants
<1>3. PICK b \in Nat : b = Budget[r] BY Constants
<1>4. PICK k \in Nat : k = l + b - h
  <2>1. PICK j \in 0 .. l - 1 : j = h BY <1>2
  <2>2. l + b - j \in Nat OBVIOUS
  <2> QED BY <2>1, <2>2
<1>5. c * k \in Nat OBVIOUS
<1>6. Room(r, h) = c * k BY <1>1, <1>2, <1>3, <1>4 DEF Room
<1>7. h \in Nat BY <1>2
<1> QED BY <1>1, <1>2, <1>3, <1>4, <1>5, <1>6, <1>7

\* What is committed is at least what is in use.
LEMMA CommittedFits ==
    ASSUME Types, groups = <<>>
    PROVE  Committed \in Int /\ Cardinality(CellsUsed(kv)) <= Committed
<1> DEFINE a == Cardinality(CellsUsed(kv))
           b == Total([g \in DOMAIN groups |-> Reserved(groups[g])])
           lens == [d \in DOMAIN dormant |-> Len(dormant[d].path)]
           c == Total(lens)
<1>1. a \in Nat BY CellNumbers
<1>2. b = 0
  <2>1. DOMAIN [g \in DOMAIN groups |-> Reserved(groups[g])] = {} OBVIOUS
  <2> QED BY <2>1, NoTotal
<1>3. c \in Nat
  <2>1. dormant \in Seq(NodeSet) BY DEF Types, TreeTypes
  <2>2. \A d \in DOMAIN dormant : Len(dormant[d].path) \in Int
    <3> TAKE d \in DOMAIN dormant
    <3>1. dormant[d] \in NodeSet BY <2>1
    <3>2. dormant[d].path \in Seq(Int) BY <3>1 DEF NodeSet
    <3> QED BY <3>2
  <2>3. IsFiniteSet(DOMAIN dormant) BY <2>1, UpTo
  <2>4. DOMAIN lens = DOMAIN dormant /\ \A d \in DOMAIN dormant : lens[d] \in Int BY <2>2
  <2> HIDE DEF lens
  <2>5. Counted(lens, DOMAIN dormant) BY <2>3, <2>4, UnitsOver
  <2> QED BY <2>5 DEF Counted
<1>4. Committed = Max({a, b + c}) BY DEF Committed
<1> HIDE DEF a, b, c, lens
<1>5. PICK m \in Int : m = b + c BY <1>2, <1>3
<1>6. {a, m} \in SUBSET Int /\ {a, m} # {} BY <1>1
<1>7. IsFiniteSet({a, m})
  <2>1. IsFiniteSet({a}) BY FS_Singleton
  <2>2. IsFiniteSet({a} \cup {m}) BY <2>1, FS_AddElement
  <2>3. {a, m} = {a} \cup {m} OBVIOUS
  <2> QED BY <2>2, <2>3
<1>8. Max({a, m}) \in {a, m} /\ a <= Max({a, m}) BY <1>6, <1>7, MaxFits
<1>9. Max({a, m}) \in Int BY <1>6, <1>8
<1> QED BY <1>4, <1>5, <1>8, <1>9 DEF a

\* A request that joins a wave finds the room it is held for.
LEMMA SelectFrontPays == ASSUME Types, CellInv, SelectFront PROVE CellInv'
<1> DEFINE r == Head(Candidates)
           hit == Hit(Prompt[r])
           w == [req |-> r, need |-> Need(r)]
<1>1. /\ mode = "Lockstep" /\ FrontFits /\ Fits(r) /\ groups = <<>> /\ Candidates # <<>>
      /\ pins' = (IF hit.node = None THEN pins ELSE pins \cup {hit.node.path})
      /\ wave' = Append(wave, w) /\ UNCHANGED <<mode, groups, kv>>
  BY DEF SelectFront, FrontFits, MayPlace
<1>2. r \in Requests /\ Prompt[r] \in Seq(Int) /\ Len(Prompt[r]) > 0 BY <1>1, FrontParts
<1>3. dormant \in Seq(NodeSet) /\ wave \in Seq(WaveSet) BY DEF Types, TreeTypes, QueueTypes
<1>4. (hit = Cold \/ HitsNode(Prompt[r])) /\ hit.len \in 0 .. Len(Prompt[r]) - 1
  BY <1>2, <1>3, HitFits
<1>5. Need(r) = Room(r, hit.len) BY DEF Need, Room
<1>6. Total(Needs(wave)) + Need(r) <= Cells - Committed BY <1>1 DEF Fits, Needs
<1> HIDE DEF r, hit
<1>7. hit.len \in Nat /\ Need(r) \in Nat BY <1>2, <1>4, <1>5, RoomFits
<1>8. w.req = r /\ w.need = Need(r) /\ w \in WaveSet BY <1>2, <1>7 DEF WaveSet
<1> HIDE DEF w
<1>9. /\ Len(wave) \in Nat /\ DOMAIN wave = 1 .. Len(wave) /\ wave' \in Seq(WaveSet)
      /\ DOMAIN wave' = 1 .. Len(wave) + 1 /\ wave'[Len(wave) + 1] = w
      /\ \A k \in DOMAIN wave : wave'[k] = wave[k] BY <1>1, <1>3, <1>8
<1>10. Total(Needs(wave')) = Total(Needs(wave)) + Need(r)
  <2>1. /\ Needs(wave) \in [DOMAIN wave -> Int] /\ Needs(wave') \in [DOMAIN wave' -> Int]
    BY <1>3, <1>9, NeedsFit
  <2>2. \A i \in DOMAIN wave : Needs(wave')[i] = Needs(wave)[i] BY <1>9 DEF Needs
  <2>3. Needs(wave')[Len(wave) + 1] = Need(r) BY <1>8, <1>9 DEF Needs
  <2>4. Needs(wave') \in [DOMAIN Append(wave, w) -> Int] BY <1>1, <2>1
  <2>5. wave \in Seq(WaveSet) /\ w \in WaveSet /\ Need(r) \in Nat BY <1>3, <1>7, <1>8
  <2> QED BY <2>1, <2>2, <2>3, <2>4, <2>5, TotalOfOneMore
<1>11. NeedFits(w, pins')
  <2>1. hit.len = 0 \/ \E path \in pins' : hit.len <= Common(path, Prompt[r])
    <3>1. CASE hit = Cold BY <3>1 DEF Cold
    <3>2. CASE HitsNode(Prompt[r])
      <4>1. /\ hit.node \in Range(dormant) /\ hit.len <= Len(hit.node.path)
            /\ \A i \in 1 .. hit.len : hit.node.path[i] = Prompt[r][i] BY <3>2 DEF HitsNode, hit
      <4>2. hit.node \in NodeSet BY <1>3, <4>1, RangeFinite
      <4>3. hit.node.path \in Seq(Int) BY <4>2 DEF NodeSet
      <4>4. hit.len <= Common(hit.node.path, Prompt[r])
        <5>1. hit.len <= Len(Prompt[r]) BY <1>2, <1>4
        <5> QED BY <1>2, <1>7, <4>1, <4>3, <5>1, CommonReaches
      <4>5. hit.node # None BY <4>2, NoneIsNoNode
      <4> QED BY <1>1, <4>4, <4>5
    <3> QED BY <1>4, <3>1, <3>2
  <2>2. Shares(w, pins', hit.len) BY <1>4, <1>5, <1>8, <2>1 DEF Shares
  <2> QED BY <2>2 DEF NeedFits
<1>12. \A i \in DOMAIN wave' : NeedFits(wave'[i], pins')
  <2> TAKE i \in DOMAIN wave'
  <2>1. CASE i \in DOMAIN wave
    <3>1. PICK h : Shares(wave[i], pins, h) BY <2>1 DEF CellInv, NeedFits
    <3>2. Shares(wave[i], pins', h) BY <1>1, <3>1 DEF Shares
    <3> QED BY <1>9, <2>1, <3>2 DEF NeedFits
  <2>2. CASE i \notin DOMAIN wave
    <3>1. i = Len(wave) + 1 BY <1>9, <2>2
    <3> QED BY <1>9, <1>11, <3>1
  <2> QED BY <2>1, <2>2
<1>13. Cardinality(CellsUsed(kv')) + Total(Due(groups')) + Total(Needs(wave')) <= Cells
  <2>1. Committed \in Int /\ Cardinality(CellsUsed(kv)) <= Committed BY <1>1, CommittedFits
  <2>2. Total(Due(groups)) = 0
    <3>1. DOMAIN Due(groups) = {} BY <1>1 DEF Due, Seated
    <3> QED BY <3>1, NoTotal
  <2>3. Cardinality(CellsUsed(kv)) \in Nat /\ Total(Needs(wave)) \in Nat /\ Cells \in Nat
    BY CellNumbers
  <2>4. CellsUsed(kv') = CellsUsed(kv) /\ Due(groups') = Due(groups) BY <1>1
  <2> QED BY <1>6, <1>7, <1>10, <2>1, <2>2, <2>3, <2>4
<1> QED BY <1>12, <1>13 DEF CellInv

\* What is held for two parts of a wave is no more than what is held for all.
LEMMA PartsNeed ==
    ASSUME NEW ws \in Seq(WaveSet), \A i \in DOMAIN ws : ws[i].need \in Nat, NEW K \in SUBSET (DOMAIN ws)
    PROVE  LET run == Kept(ws, K)
               rest == Kept(ws, DOMAIN ws \ K)
           IN  /\ run \in Seq(WaveSet) /\ rest \in Seq(WaveSet)
               /\ Total(Needs(run)) + Total(Needs(rest)) <= Total(Needs(ws))
               /\ Total(Needs(run)) \in Nat /\ Total(Needs(rest)) \in Nat /\ Total(Needs(ws)) \in Nat
<1> DEFINE n == Len(ws)
           rest == (1 .. n) \ K
<1>1. n \in Nat /\ DOMAIN ws = 1 .. n /\ K \in SUBSET (1 .. n) /\ rest \in SUBSET (1 .. n) OBVIOUS
<1>2. ASSUME NEW S \in SUBSET (1 .. n) PROVE Kept(ws, S) \in Seq(WaveSet) /\ Needs(Kept(ws, S)) = Kept(Needs(ws), S)
  <2>1. Kept(ws, S) \in Seq(WaveSet) /\ \A k \in 1 .. Cardinality(S) : Nth(S, k) \in DOMAIN ws
    BY <1>1, KeptFits
  <2> QED BY <2>1 DEF Kept, Needs
<1>3. Needs(ws) \in [1 .. n -> Nat] BY <1>1 DEF Needs
<1> HIDE DEF n, rest
<1>4. /\ Total(Kept(Needs(ws), K)) + Total(Kept(Needs(ws), rest)) <= Total(Needs(ws))
      /\ Total(Kept(Needs(ws), K)) \in Nat /\ Total(Kept(Needs(ws), rest)) \in Nat /\ Total(Needs(ws)) \in Nat
  BY <1>1, <1>3, TotalOfParts DEF rest
<1>5. /\ Kept(ws, K) \in Seq(WaveSet) /\ Needs(Kept(ws, K)) = Kept(Needs(ws), K)
      /\ Kept(ws, rest) \in Seq(WaveSet) /\ Needs(Kept(ws, rest)) = Kept(Needs(ws), rest)
  BY <1>1, <1>2
<1>6. DOMAIN ws \ K = rest BY <1>1 DEF rest
<1> QED BY <1>4, <1>5, <1>6

\* What a group owes, seat by seat.
OwedIn(g) == [i \in 0 .. Slots |-> Owed(g, i)]
\* A group that is placed adds what it owes.
LEMMA DueOfOneMore ==
    ASSUME NEW gs \in Seq(Groups), NEW g \in Groups
    PROVE  /\ Total(Due(Append(gs, g))) <= Total(Due(gs)) + Total(OwedIn(g))
           /\ Total(Due(Append(gs, g))) \in Nat /\ Total(OwedIn(g)) \in Nat
           /\ Counted(OwedIn(g), 0 .. Slots)
<1> DEFINE hs == Append(gs, g)
<1>1. PICK l \in Nat : l = Len(gs) /\ DOMAIN gs = 1 .. l OBVIOUS
<1>2. /\ hs \in Seq(Groups) /\ DOMAIN hs = 1 .. l + 1 /\ hs[l + 1] = g
      /\ \A k \in 1 .. l : hs[k] = gs[k] BY <1>1
<1> HIDE DEF hs
<1>3. Counted(OwedIn(g), 0 .. Slots)
  <2>1. IsFiniteSet(0 .. Slots) BY Constants, FS_Interval
  <2>2. DOMAIN OwedIn(g) = 0 .. Slots /\ \A i \in 0 .. Slots : OwedIn(g)[i] \in Int
    BY OwedFits DEF OwedIn
  <2> QED BY <2>1, <2>2, UnitsOver
<1>5. /\ IsFiniteSet(Seated(hs)) /\ DOMAIN Due(hs) = Seated(hs) /\ Seated(gs) \subseteq Seated(hs)
      /\ \A x \in Seated(hs) :
           /\ x = <<x[1], x[2]>> /\ x[1] \in 1 .. l + 1 /\ x[2] \in 0 .. Slots
           /\ Due(hs)[x] = Owed(hs[x[1]], x[2]) /\ Due(hs)[x] \in Int
           /\ x \notin Seated(gs) => x[1] = l + 1
           /\ x \in Seated(gs) => hs[x[1]] = gs[x[1]]
  <2>1. IsFiniteSet(Seated(hs)) /\ Due(hs) \in [Seated(hs) -> Nat] BY <1>2, DueFits, Zenon
  <2>2. /\ Seated(gs) \subseteq Seated(hs)
        /\ \A x \in Seated(hs) :
             /\ x = <<x[1], x[2]>> /\ x[1] \in 1 .. l + 1 /\ x[2] \in 0 .. Slots
             /\ x \notin Seated(gs) => x[1] = l + 1
             /\ x \in Seated(gs) => hs[x[1]] = gs[x[1]] BY <1>1, <1>2 DEF Seated
  <2>3. DOMAIN Due(hs) = Seated(hs) /\ \A x \in Seated(hs) : Due(hs)[x] = Owed(hs[x[1]], x[2])
    BY DEF Due
  <2> QED BY <2>1, <2>2, <2>3
<1> DEFINE a == [x \in Seated(gs) |-> Due(hs)[x]]
           S == Seated(hs) \ Seated(gs)
           b == [x \in S |-> Due(hs)[x]]
           seat == [x \in S |-> x[2]]
<1>6. a = Due(gs)
  <2>1. \A x \in Seated(gs) : Due(hs)[x] = Owed(gs[x[1]], x[2]) BY <1>5
  <2> QED BY <2>1 DEF Due
<1>7. Total(Due(hs)) = Total(a) + Total(b) /\ Total(Due(hs)) \in Nat /\ Total(a) \in Nat /\ Total(b) \in Nat
  BY <1>5, TotalOfTwo
<1>8. \A x \in S : b[x] = Owed(g, x[2]) /\ b[x] \in Int /\ seat[x] = x[2] /\ x[2] \in 0 .. Slots /\ x = <<l + 1, x[2]>>
  BY <1>2, <1>5
<1>9. IsFiniteSet(S) /\ DOMAIN b = S /\ DOMAIN seat = S BY <1>5, FS_Difference
<1>10. IsFiniteSet(0 .. Slots) /\ DOMAIN OwedIn(g) = 0 .. Slots /\ \A i \in 0 .. Slots : OwedIn(g)[i] = Owed(g, i)
  <2>1. IsFiniteSet(0 .. Slots) BY Constants, FS_Interval
  <2> QED BY <2>1 DEF OwedIn
<1>11. \A i \in 0 .. Slots : OwedIn(g)[i] \in Int BY <1>10, OwedFits
<1>12. seat \in [S -> 0 .. Slots] /\ \A x, y \in S : seat[x] = seat[y] => x = y BY <1>8, <1>9
<1> HIDE DEF a, b, S, seat
<1>13. \A x \in S : b[x] <= OwedIn(g)[seat[x]]
  <2> TAKE x \in S
  <2>1. b[x] = OwedIn(g)[seat[x]] /\ b[x] \in Int BY <1>8, <1>10
  <2> QED BY <2>1
<1>14. Total(b) <= Total(OwedIn(g)) /\ Total(OwedIn(g)) \in Nat
  <2> DEFINE q == OwedIn(g)
  <2>1. /\ IsFiniteSet(DOMAIN q) /\ IsFiniteSet(DOMAIN b)
        /\ \A x \in DOMAIN q : q[x] \in Int
        /\ \A x \in DOMAIN b : b[x] \in Int /\ b[x] <= q[seat[x]]
        /\ seat \in [DOMAIN b -> DOMAIN q] /\ \A x, y \in DOMAIN b : seat[x] = seat[y] => x = y
    BY <1>8, <1>9, <1>10, <1>11, <1>12, <1>13
  <2> HIDE DEF q
  <2>2. Total(b) <= Total(q) /\ Total(q) \in Nat BY <2>1, SmallerTotal
  <2> QED BY <2>2 DEF q
<1>15. Total(Due(hs)) <= Total(Due(gs)) + Total(OwedIn(g)) BY <1>6, <1>7, <1>14
<1> QED BY <1>3, <1>6, <1>7, <1>14, <1>15 DEF hs

\* A place for every token of every completion a request is held room for.
Box(r, h) == (1 .. Copies[r]) \X (1 .. Len(Prompt[r]) + Budget[r] - h)
Boxes(ws, h) == UNION {{i} \X Box(ws[i].req, h[i]) : i \in DOMAIN ws}

\* They are as many as the room.
LEMMA BoxFits ==
    ASSUME NEW w \in WaveSet, NEW ps, NEW h, Shares(w, ps, h)
    PROVE  IsFiniteSet(Box(w.req, h)) /\ Cardinality(Box(w.req, h)) = w.need /\ w.need \in Int
<1>1. w.req \in Requests /\ h \in 0 .. Len(Prompt[w.req]) - 1 /\ w.need = Room(w.req, h)
  BY DEF Shares, WaveSet
<1>2. PICK k \in Nat : k = Len(Prompt[w.req]) + Budget[w.req] - h BY <1>1, RoomFits
<1>3. PICK c \in Nat : c = Copies[w.req] BY <1>1, Constants
<1>4. w.need = c * k /\ w.need \in Int BY <1>1, <1>2, <1>3, RoomFits
<1>5. Box(w.req, h) = (1 .. c) \X (1 .. k) BY <1>2, <1>3 DEF Box
<1>6. IsFiniteSet(1 .. c) /\ Cardinality(1 .. c) = c /\ IsFiniteSet(1 .. k) /\ Cardinality(1 .. k) = k
  BY UpTo
<1>7. IsFiniteSet((1 .. c) \X (1 .. k)) /\ Cardinality((1 .. c) \X (1 .. k)) = c * k
  <2> DEFINE C == 1 .. c
             N == 1 .. k
  <2>1. IsFiniteSet(C) /\ Cardinality(C) = c /\ IsFiniteSet(N) /\ Cardinality(N) = k BY <1>6
  <2> HIDE DEF C, N
  <2>2. IsFiniteSet(C \X N) /\ Cardinality(C \X N) = Cardinality(C) * Cardinality(N)
    BY <2>1, FS_Product
  <2>3. IsFiniteSet(C \X N) /\ Cardinality(C \X N) = c * k BY <2>1, <2>2, Zenon
  <2> QED BY <2>3 DEF C, N
<1> QED BY <1>4, <1>5, <1>7

\* So they are of all the requests of a wave.
LEMMA BoxesFit ==
    ASSUME NEW ws \in Seq(WaveSet), NEW ps, NEW h, \A i \in DOMAIN ws : Shares(ws[i], ps, h[i])
    PROVE  /\ IsFiniteSet(Boxes(ws, h)) /\ Cardinality(Boxes(ws, h)) <= Total(Needs(ws))
           /\ Cardinality(Boxes(ws, h)) \in Nat
           /\ \A i \in DOMAIN ws : \A x \in Box(ws[i].req, h[i]) : <<i, x>> \in Boxes(ws, h)
<1> DEFINE B == [i \in DOMAIN ws |-> Box(ws[i].req, h[i])]
<1>1. /\ Counted(Needs(ws), DOMAIN ws) /\ IsFiniteSet(DOMAIN ws) /\ DOMAIN Needs(ws) = DOMAIN ws
      /\ \A i \in DOMAIN ws : Needs(ws)[i] = ws[i].need BY NeedsFit DEF Needs
<1>2. \A i \in DOMAIN ws : /\ IsFiniteSet(B[i]) /\ Cardinality(B[i]) <= Needs(ws)[i]
                          /\ Needs(ws)[i] \in Int
  <2> TAKE i \in DOMAIN ws
  <2>1. ws[i] \in WaveSet /\ Shares(ws[i], ps, h[i]) OBVIOUS
  <2>2. IsFiniteSet(Box(ws[i].req, h[i])) /\ Cardinality(Box(ws[i].req, h[i])) = ws[i].need /\ ws[i].need \in Int
    BY <2>1, BoxFits
  <2> QED BY <1>1, <2>2
<1>3. Boxes(ws, h) = Piles(DOMAIN ws, B) BY DEF Boxes, Piles
<1>4. \A i \in DOMAIN ws : \A x \in Box(ws[i].req, h[i]) : <<i, x>> \in Boxes(ws, h) BY DEF Boxes
<1> HIDE DEF B
<1>5. /\ IsFiniteSet(Piles(DOMAIN ws, B)) /\ Cardinality(Piles(DOMAIN ws, B)) \in Nat
      /\ Cardinality(Piles(DOMAIN ws, B)) <= Total(Needs(ws))
  <2> DEFINE f == Needs(ws)
             D == DOMAIN ws
  <2>1. /\ IsFiniteSet(D) /\ DOMAIN f = D /\ \A i \in D : f[i] \in Int
        /\ \A i \in D : IsFiniteSet(B[i]) /\ Cardinality(B[i]) <= f[i] BY <1>1, <1>2
  <2> HIDE DEF f, D
  <2>2. /\ IsFiniteSet(Piles(D, B)) /\ Cardinality(Piles(D, B)) \in Nat
        /\ Cardinality(Piles(D, B)) <= Total(f) BY <2>1, TotalHolds
  <2> QED BY <2>2 DEF f, D
<1> QED BY <1>3, <1>4, <1>5

\* A group that is placed owes no more than what was held for its requests: they
\* share a prompt, and the lookup finds as much of it as when they were selected.
LEMMA PlacedOwes ==
    ASSUME Types, NEW run \in Seq(WaveSet), NEW rs, rs = Asked(run), Placeable(rs),
           \A k \in DOMAIN run : Prompt[rs[k]] = Prompt[rs[1]],
           NEW h, \A k \in DOMAIN run : Shares(run[k], pins, h[k])
    PROVE  Total(OwedIn(Placed(rs))) <= Total(Needs(run))
<1> DEFINE g == Placed(rs)
           H == Hit(Prompt[rs[1]]).len
           t == InOrder(SeatsOf(rs))
           G == Units(OwedIn(g))
           B == Boxes(run, h)
           spot(u) == IF u[1] = 0 THEN <<1, <<1, Budget[rs[1]] + u[2]>>>>
                      ELSE <<t[u[1]][1], <<t[u[1]][2], u[2]>>>>
           f == [u \in G |-> spot(u)]
<1>1. /\ rs \in Seq(Requests) /\ rs # <<>> /\ Differ(rs) /\ DOMAIN rs = DOMAIN run /\ 1 \in DOMAIN rs
      /\ \A k \in DOMAIN run : rs[k] = run[k].req /\ rs[k] \in Requests
  <2>1. rs \in Seq(Requests) /\ rs # <<>> /\ Differ(rs) BY DEF Placeable
  <2>2. DOMAIN rs = DOMAIN run /\ \A k \in DOMAIN run : rs[k] = run[k].req BY DEF Asked
  <2>3. 1 \in DOMAIN rs /\ \A k \in DOMAIN rs : rs[k] \in Requests BY <2>1
  <2> QED BY <2>1, <2>2, <2>3
<1>2. dormant \in Seq(NodeSet) /\ pins \subseteq {d.path : d \in Range(dormant)}
  BY DEF Types, TreeTypes
<1>3. /\ g \in Groups /\ On(g) = DOMAIN PlacedMs(rs) /\ PromptOf(g) = Prompt[rs[1]] /\ H \in Nat
      /\ g.ms = PlacedMs(rs) /\ g.phase = "prefill" /\ g.pos = H BY <1>2, PlacedFits DEF Placed
<1>4. /\ IsFiniteSet(SeatsOf(rs)) /\ SeatsOf(rs) \in SUBSET (Int \X Int) BY <1>1, SeatsOfFits
<1>5. t \in Seq(SeatsOf(rs)) /\ Differ(t) /\ DOMAIN PlacedMs(rs) = DOMAIN t
      /\ \A i \in DOMAIN t : /\ PlacedMs(rs)[i].req = rs[t[i][1]] /\ PlacedMs(rs)[i].gen = 0
  BY <1>4, InOrderFits DEF PlacedMs
<1>6. \A i \in DOMAIN t : /\ t[i] = <<t[i][1], t[i][2]>> /\ t[i][1] \in DOMAIN rs
                          /\ t[i][2] \in 1 .. Copies[rs[t[i][1]]]
  <2> TAKE i \in DOMAIN t
  <2>1. t[i] \in SeatsOf(rs) BY <1>5
  <2> HIDE DEF t
  <2>2. t[i] = <<t[i][1], t[i][2]>> /\ t[i][1] \in DOMAIN rs /\ t[i][2] \in Pool /\ t[i][2] <= Copies[rs[t[i][1]]]
    BY <2>1 DEF SeatsOf
  <2>3. Copies[rs[t[i][1]]] \in Nat BY <1>1, <2>2, Constants
  <2> QED BY <2>2, <2>3 DEF Pool
<1> HIDE DEF g, t, B
<1>7. \A k \in DOMAIN run : h[k] \in Nat /\ Len(Prompt[rs[k]]) \in Nat /\ h[k] <= Len(Prompt[rs[k]]) - 1
                             /\ Budget[rs[k]] \in Nat /\ Copies[rs[k]] \in Nat /\ Copies[rs[k]] > 0
  <2> TAKE k \in DOMAIN run
  <2>1. h[k] \in 0 .. Len(Prompt[rs[k]]) - 1 /\ rs[k] \in Requests BY <1>1 DEF Shares
  <2> QED BY <2>1, RoomFits, Constants
<1>8. h[1] <= H
  <2>1. Shares(run[1], pins, h[1]) /\ run[1].req = rs[1] /\ rs[1] \in Requests BY <1>1
  <2>2. h[1] \in 0 .. Len(Prompt[rs[1]]) - 1 /\ (h[1] = 0 \/ \E path \in pins : h[1] <= Common(path, Prompt[rs[1]]))
    BY <2>1 DEF Shares
  <2>3. Prompt[rs[1]] \in Seq(Int) /\ Len(Prompt[rs[1]]) > 0 BY <2>1, Constants
  <2>4. CASE h[1] = 0 BY <1>3, <2>4
  <2>5. CASE \E path \in pins : h[1] <= Common(path, Prompt[rs[1]])
    BY <1>2, <2>2, <2>3, <2>5, HitReaches
  <2> HIDE DEF H
  <2> QED BY <2>2, <2>4, <2>5
<1> HIDE DEF H
<1>9. Counted(OwedIn(g), 0 .. Slots) /\ \A i \in 0 .. Slots : OwedIn(g)[i] = Owed(g, i)
  <2>1. Counted(OwedIn(g), 0 .. Slots)
    <3>1. <<>> \in Seq(Groups) OBVIOUS
    <3> QED BY <1>3, <3>1, DueOfOneMore
  <2> QED BY <2>1 DEF OwedIn
<1>10. ASSUME NEW u \in G
       PROVE  /\ u = <<u[1], u[2]>> /\ u[2] \in Nat /\ u[2] >= 1
              /\ u[1] = 0 => u[2] <= Len(Prompt[rs[1]]) - h[1]
              /\ u[1] # 0 => u[1] \in DOMAIN t /\ u[2] <= Budget[rs[t[u[1]][1]]]
  <2>1. PICK i \in 0 .. Slots : \E n \in 1 .. OwedIn(g)[i] : u = <<i, n>> BY <1>9 DEF Counted
  <2>2. PICK n \in 1 .. Owed(g, i) : u = <<i, n>> BY <1>9, <2>1
  <2>3. Owed(g, i) \in Nat BY <1>3, OwedFits
  <2>4. n \in Nat /\ n >= 1 /\ n <= Owed(g, i) BY <2>3
  <2>5. CASE i = 0
    <3>1. Owed(g, i) = PrefixEnd(g) - H BY <1>3, <2>5 DEF Owed
    <3>2. PICK l \in Nat : l = Len(Prompt[rs[1]]) BY <1>1, <1>7
    <3>3. PrefixEnd(g) \in Int /\ PrefixEnd(g) <= l
      <4>1. PromptOf(g) = Prompt[rs[1]] BY <1>3
      <4>2. PrefixEnd(g) = l - (IF Len(g.ms) > 1 THEN 1 ELSE 0) BY <3>2, <4>1, Zenon DEF PrefixEnd
      <4>3. PrefixEnd(g) = l \/ PrefixEnd(g) = l - 1 BY <4>2
      <4> QED BY <4>3
    <3>4. n <= l - h[1] BY <1>1, <1>3, <1>7, <1>8, <2>4, <3>1, <3>3
    <3> QED BY <2>2, <2>4, <2>5, <3>2, <3>4
  <2>6. CASE i # 0
    <3>1. i \in On(g) BY <2>4, <2>6 DEF Owed
    <3>2. i \in DOMAIN t /\ g.ms[i].req = rs[t[i][1]] /\ g.ms[i].gen = 0 BY <1>3, <1>5, <3>1
    <3>3. Owed(g, i) = Budget[rs[t[i][1]]] - 0 BY <2>6, <3>1, <3>2 DEF Owed
    <3>4. Budget[rs[t[i][1]]] \in Nat BY <1>1, <1>6, <1>7, <3>2
    <3>5. n <= Budget[rs[t[i][1]]] BY <2>4, <3>3, <3>4
    <3> QED BY <2>2, <2>4, <2>6, <3>2, <3>5
  <2> QED BY <2>5, <2>6
<1>11. /\ IsFiniteSet(B) /\ Cardinality(B) <= Total(Needs(run)) /\ Cardinality(B) \in Nat
       /\ \A i \in DOMAIN run : \A x \in Box(run[i].req, h[i]) : <<i, x>> \in B BY BoxesFit DEF B
<1>12. \A k \in DOMAIN run : \A c \in 1 .. Copies[rs[k]] : \A n \in 1 .. Len(Prompt[rs[k]]) + Budget[rs[k]] - h[k] :
         <<k, <<c, n>>>> \in B
  <2> SUFFICES ASSUME NEW k \in DOMAIN run, NEW c \in 1 .. Copies[rs[k]],
                      NEW n \in 1 .. Len(Prompt[rs[k]]) + Budget[rs[k]] - h[k]
               PROVE  <<k, <<c, n>>>> \in B OBVIOUS
  <2>1. <<c, n>> \in Box(run[k].req, h[k]) BY <1>1 DEF Box
  <2> QED BY <1>11, <2>1
<1>13. \A u \in G : spot(u) \in B
  <2> TAKE u \in G
  <2>1. CASE u[1] = 0
    <3>1. PICK l \in Nat : l = Len(Prompt[rs[1]]) BY <1>1, <1>7
    <3>2. PICK b \in Nat : b = Budget[rs[1]] BY <1>1, <1>7
    <3>3. 1 \in 1 .. Copies[rs[1]] BY <1>1, <1>7
    <3>4. PICK n \in Nat : n = u[2] /\ n >= 1 /\ n <= l - h[1] BY <1>10, <2>1, <3>1
    <3>5. b + n \in 1 .. l + b - h[1] BY <1>1, <1>7, <3>4
    <3>6. <<1, <<1, b + n>>>> \in B BY <1>1, <1>12, <3>1, <3>2, <3>3, <3>5
    <3> QED BY <2>1, <3>2, <3>4, <3>6
  <2>2. CASE u[1] # 0
    <3>1. u[1] \in DOMAIN t /\ u[2] \in Nat /\ u[2] >= 1 /\ u[2] <= Budget[rs[t[u[1]][1]]]
      BY <1>10, <2>2
    <3>2. PICK k \in DOMAIN run : k = t[u[1]][1] /\ t[u[1]][2] \in 1 .. Copies[rs[k]]
      BY <1>1, <1>6, <3>1
    <3>3. u[2] \in 1 .. Len(Prompt[rs[k]]) + Budget[rs[k]] - h[k]
      <4>1. PICK n \in Nat : n = u[2] /\ n >= 1 /\ n <= Budget[rs[k]] BY <3>1, <3>2
      <4>2. PICK l \in Nat : l = Len(Prompt[rs[k]]) /\ h[k] <= l - 1 BY <1>7
      <4>3. PICK b \in Nat : b = Budget[rs[k]] BY <1>7
      <4>4. PICK x \in Nat : x = h[k] /\ x <= l - 1 BY <1>7, <4>2
      <4>5. n <= b BY <4>1, <4>3
      <4>6. n \in 1 .. l + b - x BY <4>1, <4>4, <4>5
      <4> QED BY <4>1, <4>2, <4>3, <4>4, <4>6
    <3>4. <<k, <<t[u[1]][2], u[2]>>>> \in B BY <1>12, <3>2, <3>3
    <3> QED BY <2>2, <3>2, <3>4
  <2> QED BY <2>1, <2>2
<1>14. f \in [G -> B]
  <2> HIDE DEF spot
  <2> QED BY <1>13
<1>15. ASSUME NEW u \in G, NEW v \in G, spot(u) = spot(v), u[1] = 0 PROVE v[1] = 0
  <2> SUFFICES ASSUME v[1] # 0 PROVE FALSE OBVIOUS
  <2>1. t[v[1]][1] = 1 /\ v[2] = Budget[rs[1]] + u[2] BY <1>15
  <2>2. v[2] <= Budget[rs[1]] BY <1>10, <2>1
  <2>3. u[2] \in Nat /\ u[2] >= 1 /\ Budget[rs[1]] \in Nat BY <1>1, <1>7, <1>10
  <2> QED BY <2>1, <2>2, <2>3
<1>16. \A u, v \in G : f[u] = f[v] => u = v
  <2> SUFFICES ASSUME NEW u \in G, NEW v \in G, spot(u) = spot(v) PROVE u = v BY DEF f
  <2>1. u[1] = 0 <=> v[1] = 0
    <3>1. spot(v) = spot(u) OBVIOUS
    <3> HIDE DEF spot
    <3> QED BY <1>15, <3>1
  <2>2. u = <<u[1], u[2]>> /\ v = <<v[1], v[2]>> /\ u[2] \in Nat /\ v[2] \in Nat BY <1>10
  <2>3. CASE u[1] = 0
    <3>1. Budget[rs[1]] + u[2] = Budget[rs[1]] + v[2] /\ v[1] = 0 BY <2>1, <2>3
    <3>2. Budget[rs[1]] \in Nat BY <1>1, <1>7
    <3>3. u[2] = v[2] BY <2>2, <3>1, <3>2
    <3> QED BY <2>2, <2>3, <3>1, <3>3
  <2>4. CASE u[1] # 0
    <3>1. t[u[1]][1] = t[v[1]][1] /\ t[u[1]][2] = t[v[1]][2] /\ u[2] = v[2] BY <2>1, <2>4
    <3>2. u[1] \in DOMAIN t /\ v[1] \in DOMAIN t BY <1>10, <2>1, <2>4
    <3>3. t[u[1]] = t[v[1]] BY <1>6, <3>1, <3>2
    <3>4. u[1] = v[1] BY <1>5, <3>2, <3>3 DEF Differ
    <3> QED BY <2>2, <3>1, <3>4
  <2> QED BY <2>3, <2>4
<1> HIDE DEF f, spot
<1>17. Cardinality(G) <= Cardinality(B) /\ Cardinality(G) \in Nat
  <2> HIDE DEF G
  <2> QED BY <1>11, <1>14, <1>16, NoLarger
<1>18. Total(OwedIn(g)) = Cardinality(G) BY <1>9 DEF Counted
<1>19. Total(Needs(run)) \in Nat BY NeedsFit
<1>20. Total(OwedIn(g)) <= Total(Needs(run)) BY <1>11, <1>17, <1>18, <1>19
<1> QED BY <1>20 DEF g

\* A copy shares its cells with its source.
LEMMA CopyPart ==
    ASSUME NEW pool \in PoolFn, NEW src \in Pool, NEW dst \in Pool, NEW n \in Nat, NEW s \in Pool
    PROVE  Range(Copy(pool, src, dst, n)[s]) \subseteq UNION {Range(pool[t]) : t \in Pool}
<1>1. PICK q \in Seq(CellSet) : q = pool[src] BY DEF PoolFn
<1>2. PICK m \in Nat : m = Min({n, Len(q)}) /\ m <= Len(q)
  <2>1. PICK k \in Nat : k = Len(q) OBVIOUS
  <2> QED BY <2>1, MinOfTwo
<1>3. Copy(pool, src, dst, n) = [pool EXCEPT ![dst] = SubSeq(q, 1, m)] BY <1>1, <1>2 DEF Copy
<1>4. Range(SubSeq(q, 1, m)) \subseteq Range(q)
  <2>1. /\ SubSeq(q, 1, m) \in Seq(CellSet) /\ DOMAIN SubSeq(q, 1, m) = 1 .. m
        /\ \A i \in 1 .. m : SubSeq(q, 1, m)[i] = q[i] /\ i \in DOMAIN q
    <3>1. m \in 0 .. Len(q) BY <1>2
    <3>2. SubSeq(q, 1, m) \in Seq(CellSet) /\ Len(SubSeq(q, 1, m)) = m BY <3>1
    <3>3. \A i \in 1 .. m : SubSeq(q, 1, m)[i] = q[i] BY <3>1
    <3>4. \A i \in 1 .. m : i \in DOMAIN q BY <3>1
    <3>5. DOMAIN SubSeq(q, 1, m) = 1 .. m BY <3>2
    <3> QED BY <3>2, <3>3, <3>4, <3>5
  <2> QED BY <2>1 DEF Range
<1>5. CASE s = dst
  <2>1. Copy(pool, src, dst, n)[s] = SubSeq(q, 1, m) BY <1>3, <1>5 DEF PoolFn
  <2> QED BY <1>1, <1>4, <2>1
<1>6. CASE s # dst
  <2>1. Copy(pool, src, dst, n)[s] = pool[s] BY <1>3, <1>6
  <2> QED BY <2>1
<1> QED BY <1>5, <1>6

\* Placing requests takes no cells.
LEMMA PlaceTakesNone ==
    ASSUME Types, NEW rs, Placeable(rs), Place(rs)
    PROVE  Cardinality(CellsUsed(kv')) \in Nat /\ Cardinality(CellsUsed(kv')) <= Cardinality(CellsUsed(kv))
<1> DEFINE hit == Hit(Prompt[rs[1]])
<1>1. kv \in PoolFn /\ dormant \in Seq(NodeSet) BY DEF Types, TreeTypes
<1>2. kv' = IF hit = Cold THEN kv ELSE Copy(kv, hit.node.slot, Nth(FreeSlots, 1), hit.len)
  BY DEF Place
<1>3. Prompt[rs[1]] \in Seq(Int) /\ Len(Prompt[rs[1]]) > 0
  <2>1. rs[1] \in Requests BY DEF Placeable
  <2> QED BY <2>1, Constants
<1>4. hit = Cold \/ HitsNode(Prompt[rs[1]]) BY <1>1, <1>3, HitFits
<1>5. hit.len \in Nat BY <1>1, PlacedFits
<1>6. HitsNode(Prompt[rs[1]]) => hit.node \in Range(dormant) BY DEF HitsNode
<1> HIDE DEF hit
<1>7. CASE hit = Cold
  <2>1. kv' = kv BY <1>2, <1>7
  <2> QED BY <2>1, CellNumbers
<1>8. CASE hit # Cold
  <2>1. hit.node \in NodeSet BY <1>1, <1>4, <1>6, <1>8, RangeFinite
  <2>2. hit.node.slot \in Pool BY <2>1 DEF NodeSet
  <2>3. Nth(FreeSlots, 1) \in Pool
    <3>1. 1 \in 1 .. Cardinality(FreeSlots)
      <4>1. Len(PlacedMs(rs)) \in 1 .. Cardinality(FreeSlots) BY PlacedMembers
      <4> QED BY <4>1, FreeSlotsFinite
    <3> QED BY <3>1, FreeSlotsFinite
  <2>4. kv' = Copy(kv, hit.node.slot, Nth(FreeSlots, 1), hit.len) BY <1>2, <1>8
  <2>5. \A s \in Pool : Range(kv'[s]) \subseteq UNION {Range(kv[t]) : t \in Pool}
    BY <1>1, <1>5, <2>2, <2>3, <2>4, CopyPart
  <2> QED BY <1>1, <2>5, FewerCells
<1> QED BY <1>7, <1>8

\* A group that is placed owes what was held for it, and the rest stays held.
LEMMA PlaceWavePays == ASSUME Types, CellInv, PlaceWave PROVE CellInv'
<1>1. PICK r, rs :
        /\ r \in InWave /\ rs = Asked(Kept(wave, Alike(r))) /\ wave' = Kept(wave, DOMAIN wave \ Alike(r))
        /\ Placeable(rs) /\ Place(rs) /\ wave # <<>> /\ wave' \in Seq(WaveSet) BY WaveParts
<1>2. (IF wave' = <<>> THEN pins' = {} ELSE pins' = pins) /\ mode' = mode BY DEF PlaceWave
<1> DEFINE K == Alike(r)
           run == Kept(wave, K)
           h == [k \in DOMAIN run |-> CHOOSE x : Shares(run[k], pins, x)]
<1>3. wave \in Seq(WaveSet) /\ kv \in PoolFn /\ dormant \in Seq(NodeSet) /\ groups \in Seq(Groups) /\ GroupTypes
  BY DEF Types, QueueTypes, TreeTypes, GroupTypes
<1>4. K \in SUBSET (DOMAIN wave) /\ \A i \in K : Prompt[wave[i].req] = Prompt[r] BY DEF Alike
<1>5. \A i \in DOMAIN wave : NeedFits(wave[i], pins) /\ wave[i].need \in Nat
  <2> TAKE i \in DOMAIN wave
  <2>1. PICK x : Shares(wave[i], pins, x) BY DEF CellInv, NeedFits
  <2>2. wave[i] \in WaveSet BY <1>3
  <2>3. wave[i].need = Room(wave[i].req, x) /\ x \in 0 .. Len(Prompt[wave[i].req]) - 1 /\ wave[i].req \in Requests
    BY <2>1, <2>2 DEF Shares, WaveSet
  <2>4. wave[i].need \in Nat BY <2>3, RoomFits
  <2> QED BY <2>1, <2>4 DEF NeedFits
<1> HIDE DEF K
<1>6. ASSUME NEW S \in SUBSET (DOMAIN wave), NEW k \in DOMAIN Kept(wave, S)
      PROVE  \E i \in S : Kept(wave, S)[k] = wave[i]
  <2>1. Cardinality(S) \in 0 .. Len(wave) /\ Len(wave) \in Nat BY <1>3, KeptFits
  <2>2. DOMAIN Kept(wave, S) = 1 .. Cardinality(S) BY DEF Kept
  <2>3. \A l \in 1 .. Cardinality(S) : Nth(S, l) \in S /\ Kept(wave, S)[l] = wave[Nth(S, l)]
    BY <1>3, KeptFits
  <2> QED BY <2>2, <2>3
<1>7. /\ run \in Seq(WaveSet) /\ Total(Needs(run)) + Total(Needs(wave')) <= Total(Needs(wave))
      /\ Total(Needs(run)) \in Nat /\ Total(Needs(wave')) \in Nat /\ Total(Needs(wave)) \in Nat
  <2>1. DOMAIN wave \ Alike(r) = DOMAIN wave \ K BY DEF K
  <2> HIDE DEF run
  <2> QED BY <1>1, <1>3, <1>4, <1>5, <2>1, PartsNeed DEF run
<1>8. \A k \in DOMAIN run : NeedFits(run[k], pins) /\ Prompt[run[k].req] = Prompt[r]
  <2> TAKE k \in DOMAIN run
  <2>1. PICK i \in K : run[k] = wave[i] BY <1>4, <1>6
  <2> HIDE DEF run
  <2> QED BY <1>4, <1>5, <2>1
<1>9. rs = Asked(run) BY <1>1 DEF K
<1> HIDE DEF run
<1>10. \A k \in DOMAIN run : Shares(run[k], pins, h[k])
  <2> TAKE k \in DOMAIN run
  <2>1. \E x : Shares(run[k], pins, x) BY <1>8 DEF NeedFits
  <2>2. h[k] = CHOOSE x : Shares(run[k], pins, x) OBVIOUS
  <2> HIDE DEF h
  <2> QED BY <2>1, <2>2
<1> HIDE DEF h
<1>11. \A k \in DOMAIN run : Prompt[rs[k]] = Prompt[rs[1]]
  <2>1. DOMAIN rs = DOMAIN run /\ \A k \in DOMAIN run : rs[k] = run[k].req BY <1>9 DEF Asked
  <2>2. 1 \in DOMAIN rs
    <3>1. rs \in Seq(Requests) /\ rs # <<>> BY <1>1 DEF Placeable
    <3> QED BY <3>1
  <2> QED BY <1>8, <2>1, <2>2
<1>12. Total(OwedIn(Placed(rs))) <= Total(Needs(run)) BY <1>1, <1>7, <1>9, <1>10, <1>11, PlacedOwes
<1>13. groups' = Append(groups, Placed(rs)) /\ Placed(rs) \in Groups
  BY <1>1, <1>3, PlaceStep, PlacedFits
<1>14. /\ Total(Due(groups')) <= Total(Due(groups)) + Total(OwedIn(Placed(rs)))
       /\ Total(Due(groups')) \in Nat /\ Total(OwedIn(Placed(rs))) \in Nat
  BY <1>3, <1>13, DueOfOneMore
<1>15. Cardinality(CellsUsed(kv')) \in Nat /\ Cardinality(CellsUsed(kv')) <= Cardinality(CellsUsed(kv))
  BY <1>1, PlaceTakesNone
<1>16. mode' = "Lockstep" => Cardinality(CellsUsed(kv')) + Total(Due(groups')) + Total(Needs(wave')) <= Cells
  <2>1. mode = "Lockstep" => Cardinality(CellsUsed(kv)) + Total(Due(groups)) + Total(Needs(wave)) <= Cells
    BY DEF CellInv
  <2>2. Cardinality(CellsUsed(kv)) \in Nat /\ Total(Due(groups)) \in Nat /\ Cells \in Nat
    BY CellNumbers
  <2> QED BY <1>2, <1>7, <1>12, <1>14, <1>15, <2>1, <2>2
<1>17. \A k \in DOMAIN wave' : NeedFits(wave'[k], pins')
  <2>1. CASE wave' = <<>> BY <2>1
  <2>2. CASE wave' # <<>>
    <3>1. pins' = pins BY <1>2, <2>2
    <3>2. ASSUME NEW k \in DOMAIN wave' PROVE NeedFits(wave'[k], pins)
      <4>1. DOMAIN wave \ Alike(r) \in SUBSET (DOMAIN wave) OBVIOUS
      <4>2. PICK i \in DOMAIN wave : wave'[k] = wave[i] BY <1>1, <1>6, <4>1
      <4> QED BY <1>5, <4>2
    <3> QED BY <3>1, <3>2
  <2> QED BY <2>1, <2>2
<1> QED BY <1>16, <1>17 DEF CellInv

\* No step of the scheduler breaks the sum.
LEMMA CellSteps == ASSUME Types, SlotInv, CellInv, [Next]_vars PROVE CellInv'
<1>1. CASE UNCHANGED vars
  <2>1. UNCHANGED <<mode, wave, pins, kv, groups>> BY <1>1 DEF vars
  <2> QED BY <2>1, ClearingKeeps
<1>2. CASE \/ \E r \in Requests : Submit(r) \/ Cancel(r)
           \/ Update \/ Sweep \/ ChooseAdapter \/ Evict \/ EndSelection \/ StepFails \/ NoStep
  BY <1>2, QuietClears
<1>3. CASE RemoveCancelled BY <1>3, RemoveCancelledPays
<1>4. CASE AdmitFront BY <1>4, AdmitFrontPays
<1>5. CASE SelectFront BY <1>5, SelectFrontPays
<1>6. CASE PlaceWave BY <1>6, PlaceWavePays
<1>7. CASE Step BY <1>7, StepPays
<1> QED BY <1>1, <1>2, <1>3, <1>4, <1>5, <1>6, <1>7 DEF Next, Pump

\* While no flag is set halfway through remove_cancelled, a pump never idles over
\* live completions, and in lockstep every step finds its cells and continues
\* its slots: admission charges what a request will come to hold.
THEOREM StepsAlwaysGoThrough == ASSUME ~Torn PROVE Spec => []StepsGoThrough
<1>1. Init => IInv /\ SlotInv /\ CellInv BY InitHolds, InitSlots, InitCells
<1>2. IInv /\ SlotInv /\ CellInv /\ [Next]_vars => IInv' /\ SlotInv' /\ CellInv'
  BY StepHolds, SlotSteps, CellSteps DEF IInv
<1>3. IInv /\ SlotInv /\ CellInv => StepsGoThrough
  <2> SUFFICES ASSUME IInv, SlotInv, CellInv PROVE StepsGoThrough OBVIOUS
  <2>1. Types BY DEF IInv
  <2>2. LiveAreFed BY <2>1, FedSuffices
  <2>3. mode = "Lockstep" => StepFindsCells BY <2>1, StepFinds DEF StepFindsCells
  <2> QED BY <2>2, <2>3 DEF StepsGoThrough
<1> QED BY <1>1, <1>2, <1>3, PTL DEF Spec
=============================================================================
