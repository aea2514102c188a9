------------------------- MODULE SandboxPoolProofs -------------------------
(***************************************************************************)
(* Proofs about SandboxPool: the bound of the pool, the exclusivity of a   *)
(* lease, what closing leaves behind, the cleanliness of an idle           *)
(* container, the wake-ups of those who wait.  Layers of invariants, each  *)
(* resting on those before it: the types, where each container is, the     *)
(* phases of the run, the count of what exists against the slots of the    *)
(* pool, the list of those who wait, and who of them is awake.             *)
(***************************************************************************)
EXTENDS SandboxPool, SubsequenceProofs, FiniteSetTheorems, TLAPS

(* The types.                                                               *)

MemberFn == [Members -> [pc : MemberPcs, box : Boxes \cup {None}]]

Types ==
    /\ idle \in Seq(Boxes) /\ leased \subseteq Boxes
    /\ live \in Int /\ closed \in BOOLEAN
    /\ returns \in Seq([box : Boxes, fit : BOOLEAN])
    /\ janitor \in [pc : JanitorPcs, box : Boxes \cup {None}]
    /\ janitor.pc = "off" <=> janitor.box = None
    /\ warm \in [pc : WarmPcs, box : Boxes \cup {None}]
    /\ warm.pc = "burying" <=> warm.box # None
    /\ closer \in [pc : CloserPcs, taken : Seq(Boxes)]
    /\ member \in MemberFn
    /\ \A m \in Members : member[m].pc = "holding" => member[m].box \in Boxes
    /\ exists \subseteq Boxes /\ tainted \subseteq Boxes

\* The members after a step are `ms`, but for some that were woken.
Wakes(ms) ==
    /\ member' \in MemberFn
    /\ \A m \in Members : member'[m] = ms[m] \/ member'[m].pc = "woken"

\* Whatever the Notify holds, a notification only wakes.
LEMMA NotifyOneWakes == ASSUME NEW STATE ms, ms \in MemberFn, NotifyOne(ms) PROVE Wakes(ms)
<1>1. CASE member' = ms
  BY <1>1 DEF Wakes
<1>2. CASE member' = [ms EXCEPT ![Head(parked)].pc = "woken"]
  <2> DEFINE h == Head(parked)
  <2>1. CASE h \in Members
    <3>1. ms[h] \in [pc : MemberPcs, box : Boxes \cup {None}]
      BY <2>1 DEF MemberFn
    <3>2. [ms[h] EXCEPT !.pc = "woken"] \in [pc : MemberPcs, box : Boxes \cup {None}]
          /\ [ms[h] EXCEPT !.pc = "woken"].pc = "woken"
      BY <3>1 DEF MemberPcs
    <3>3. member' = [ms EXCEPT ![h] = [ms[h] EXCEPT !.pc = "woken"]]
      BY <1>2
    <3> QED BY <2>1, <3>2, <3>3 DEF Wakes, MemberFn
  <2>2. CASE h \notin Members
    <3>1. member' = ms
      BY <1>2, <2>2 DEF MemberFn
    <3> QED BY <3>1 DEF Wakes
  <2> QED BY <2>1, <2>2
<1> QED BY <1>1, <1>2 DEF NotifyOne

\* notify_waiters wakes members that are parked and touches no other.
LEMMA NotifyWaitersWakes == ASSUME member \in MemberFn, NotifyWaiters PROVE Wakes(member)
<1>1. Job("woken", None) \in [pc : MemberPcs, box : Boxes \cup {None}]
      /\ Job("woken", None).pc = "woken"
  BY DEF Job, MemberPcs
<1> QED BY <1>1 DEF NotifyWaiters, Wakes, MemberFn

\* Waiters that are dropped pass their notification on, and nobody else moves.
LEMMA DropWaitersWakes ==
    ASSUME NEW STATE ms, ms \in MemberFn, NEW STATE gone, DropWaiters(gone, ms) PROVE Wakes(ms)
<1>1. Job("woken", None) \in [pc : MemberPcs, box : Boxes \cup {None}]
      /\ Job("woken", None).pc = "woken"
  BY DEF Job, MemberPcs
<1> QED BY <1>1 DEF DropWaiters, Wakes, MemberFn

\* A member sent elsewhere without a container, or with one it holds.
LEMMA MovedFits ==
    ASSUME Types, NEW m \in Members, NEW pc \in MemberPcs
    PROVE  /\ Moved(m, pc) \in MemberFn
           /\ \A n \in Members : Moved(m, pc)[n] = IF n = m THEN Job(pc, None) ELSE member[n]
BY DEF Types, MemberFn, Moved, Job

\* A member that receives its container is of its type again.
LEMMA HoldsFits ==
    ASSUME Types, NEW m \in Members, NEW b \in Boxes,
           member' = [member EXCEPT ![m] = Job("holding", b)]
    PROVE  /\ member' \in MemberFn
           /\ \A n \in Members : member'[n] = IF n = m THEN Job("holding", b) ELSE member[n]
BY DEF Types, MemberFn, MemberPcs, Job

Waits(m) == member[m].pc \in {"told", "parked"}

\* No member came to hold a container or to create one in this step, nor to
\* wait in a closed pool.
Quiet == \A m \in Members :
    /\ member'[m].pc \in {"holding", "creating"} => member'[m] = member[m]
    /\ closed /\ Waits(m)' => Waits(m)

\* The three steps that are not quiet.
Takes(m) == (Inspect(m) /\ (Pop(m) \/ CountCreation(m))) \/ Created(m)

\* Every other step leaves the members as they are, moves some away, or wakes.
LEMMA QuietSteps ==
    ASSUME Types, Next \/ UNCHANGED vars, \A m \in Members : ~Takes(m)
    PROVE  member' \in MemberFn /\ Quiet
<1> DEFINE Fine == member' \in MemberFn /\ Quiet
<1> SUFFICES Fine
  OBVIOUS
<1>0. member \in MemberFn
  BY DEF Types
<1>1. ASSUME Wakes(member) PROVE Fine
  BY <1>1 DEF Wakes, Quiet, Waits
<1>2. ASSUME NEW m \in Members, NEW pc \in MemberPcs \ {"holding", "creating"},
             pc \in {"told", "parked"} => ~closed \/ Waits(m), Wakes(Moved(m, pc))
      PROVE  Fine
  <2>1. \A n \in Members : Moved(m, pc)[n] = IF n = m THEN Job(pc, None) ELSE member[n]
    BY <1>2, MovedFits
  <2>2. Job(pc, None).pc = pc
    BY DEF Job
  <2> QED BY <1>2, <2>1, <2>2 DEF Wakes, Quiet, Waits
<1>3. CASE member' = member
  BY <1>0, <1>3 DEF Quiet, Waits
<1>4. ASSUME NEW m \in Members, AcquireStep(m) \/ ReleaseLease(m) PROVE Fine
  <2>1. CASE CreateFails(m)
    <3>1. Moved(m, "failed") \in MemberFn
      BY MovedFits DEF MemberPcs
    <3> QED BY <2>1, <3>1, <1>2, NotifyOneWakes DEF CreateFails, MemberPcs
  <2>2. CASE Inspect(m) \/ Poll(m) \/ ReleaseLease(m)
    <3>1. \E pc \in MemberPcs \ {"holding", "creating"} :
              member' = Moved(m, pc) /\ (pc \in {"told", "parked"} => ~closed \/ Waits(m))
      BY <2>2 DEF Takes, Inspect, Refused, ToldToWait, Poll, ReleaseLease, MemberPcs, Waits
    <3> QED BY <3>1, <1>2, MovedFits DEF Wakes
  <2> QED BY <1>4, <2>1, <2>2 DEF AcquireStep, Takes
<1>5. ASSUME NEW g \in Groups, GroupResets(g) \/ Expire(g) PROVE Fine
  <2>1. CASE GroupResets(g)
    BY <2>1 DEF GroupResets, Types, MemberFn, MemberPcs, Job, Quiet, Waits
  <2>2. CASE Expire(g)
    <3> DEFINE ms == [m \in Members |->
                 IF m \in {n \in g : member[n].pc # "holding"} THEN Job("out", None) ELSE member[m]]
    <3>1. ms \in MemberFn
          /\ \A m \in Members : ms[m] = member[m] \/ ms[m].pc = "out"
      BY DEF Types, MemberFn, MemberPcs, Job
    <3>2. DropWaiters({n \in g : member[n].pc # "holding"}, ms)
      BY <2>2 DEF Expire
    <3> HIDE DEF ms
    <3>3. Wakes(ms)
      BY <3>1, <3>2, DropWaitersWakes
    <3> QED BY <3>1, <3>3 DEF Wakes, Quiet, Waits
  <2> QED BY <1>5, <2>1, <2>2
<1>6. \/ member' = member \/ NotifyOne(member) \/ NotifyWaiters
      \/ \E m \in Members : AcquireStep(m) \/ ReleaseLease(m)
      \/ \E g \in Groups : GroupResets(g) \/ Expire(g)
  BY DEF Next, vars, GroupStep, GroupActs, GroupCloses, GroupEnds, JanitorStep, Reclaim, Recycled,
     RecycleFails, Destroyed, WarmStep, WarmCounts, WarmKept, WarmTooLate, WarmBuries, WarmFails,
     LoopStep, TrainStarts, NextUpdate, RunOver, CloserStep, Shutdown, ShutdownBuries,
     ShutdownNotifies, Drained, GivesUp, ForceCloses, Sweep
<1> QED BY <1>0, <1>1, <1>3, <1>4, <1>5, <1>6, NotifyOneWakes, NotifyWaitersWakes

\* Who holds a container holds one, after any step.
LEMMA MembersLeft ==
    ASSUME Types, Next \/ UNCHANGED vars
    PROVE  /\ member' \in MemberFn
           /\ \A m \in Members : member'[m].pc = "holding" => member'[m].box \in Boxes
<1>1. CASE \A m \in Members : ~Takes(m)
  BY <1>1, QuietSteps DEF Quiet, Types
<1>2. ASSUME NEW m \in Members, Takes(m)
      PROVE  /\ member' \in MemberFn
             /\ \A n \in Members : member'[n].pc = "holding" => member'[n].box \in Boxes
  <2>1. CASE \E b \in Boxes : member' = [member EXCEPT ![m] = Job("holding", b)]
    <3>1. PICK b \in Boxes : member' = [member EXCEPT ![m] = Job("holding", b)]
      BY <2>1
    <3>2. /\ member' \in MemberFn /\ Job("holding", b).box = b
          /\ \A n \in Members : member'[n] = IF n = m THEN Job("holding", b) ELSE member[n]
      BY <3>1, HoldsFits DEF Job
    <3> QED BY <3>2 DEF Types
  <2>2. CASE member' = Moved(m, "creating")
    <3>1. /\ member' \in MemberFn /\ Job("creating", None).pc = "creating"
          /\ \A n \in Members : member'[n] = IF n = m THEN Job("creating", None) ELSE member[n]
      BY <2>2, MovedFits DEF Job, MemberPcs
    <3> QED BY <3>1 DEF Types
  <2>3. CASE Pop(m)
    <3>1. idle[Len(idle)] \in Boxes
      BY <2>3 DEF Pop, Types
    <3> QED BY <2>1, <2>3, <3>1 DEF Pop
  <2> QED BY <1>2, <2>1, <2>2, <2>3 DEF Takes, CountCreation, Created, Fresh
<1> QED BY <1>1, <1>2

\* The entry the janitor takes, and those behind it.
LEMMA FirstReturn ==
    ASSUME Types, returns # <<>>
    PROVE  /\ Head(returns) \in [box : Boxes, fit : BOOLEAN] /\ Head(returns).box \in Boxes
           /\ Head(returns) = returns[1] /\ 1 \in DOMAIN returns
           /\ Tail(returns) \in Seq([box : Boxes, fit : BOOLEAN])
           /\ DOMAIN Tail(returns) = 1 .. Len(returns) - 1 /\ DOMAIN returns = 1 .. Len(returns)
           /\ \A i \in DOMAIN Tail(returns) :
                 i + 1 \in DOMAIN returns /\ Tail(returns)[i] = returns[i + 1] /\ i \in Int /\ i > 0
<1> DEFINE Entries == [box : Boxes, fit : BOOLEAN]
<1>1. returns \in Seq(Entries)
  BY DEF Types
<1>2. \A e \in Entries : e.box \in Boxes
  OBVIOUS
<1> HIDE DEF Entries
<1>3. Len(returns) \in Nat \ {0} /\ DOMAIN returns = 1 .. Len(returns)
  BY <1>1
<1>4. Head(returns) \in Entries /\ Head(returns) = returns[1] /\ 1 \in DOMAIN returns
  BY <1>1, <1>3
<1>5. /\ Tail(returns) \in Seq(Entries) /\ DOMAIN Tail(returns) = 1 .. Len(returns) - 1
      /\ \A i \in DOMAIN Tail(returns) :
            i + 1 \in DOMAIN returns /\ Tail(returns)[i] = returns[i + 1] /\ i \in Int /\ i > 0
  BY <1>1, <1>3
<1> QED BY <1>2, <1>3, <1>4, <1>5 DEF Entries

\* The whole of the types.
LEMMA TypesStep ==
    ASSUME Types, [Next]_vars PROVE Types'
<1>1. member' \in MemberFn
      /\ \A m \in Members : member'[m].pc = "holding" => member'[m].box \in Boxes
  BY MembersLeft
<1>2. CASE UNCHANGED <<pool, returns, janitor, warm, closer, exists, tainted>>
  BY <1>1, <1>2 DEF Types, pool
<1>3. ASSUME NEW m \in Members, AcquireStep(m) \/ ReleaseLease(m) PROVE Types'
  <2>1. CASE Inspect(m)
    <3>1. CASE Pop(m)
      <4>1. idle # <<>> /\ Len(idle) \in Nat \ {0} /\ idle[Len(idle)] \in Boxes
            /\ idle' = SubSeq(idle, 1, Len(idle) - 1)
        BY <3>1 DEF Pop, Types
      <4>2. idle' \in Seq(Boxes)
        BY <4>1 DEF Types
      <4> QED BY <1>1, <2>1, <3>1, <4>1, <4>2 DEF Inspect, Pop, HandOut, Types
    <3>2. CASE Refused(m) \/ CountCreation(m) \/ ToldToWait(m)
      BY <1>1, <2>1, <3>2 DEF Inspect, Refused, CountCreation, ToldToWait, Types, pool, engine
    <3> QED BY <2>1, <3>1, <3>2 DEF Inspect
  <2>2. CASE Poll(m)
    BY <1>1, <2>2 DEF Poll, Types, pool, engine
  <2>3. CASE Created(m)
    BY <1>1, <2>3 DEF Created, HandOut, Fresh, Types
  <2>4. CASE CreateFails(m)
    BY <1>1, <2>4 DEF CreateFails, CreationLeaves, Types
  <2>5. CASE ReleaseLease(m)
    <3>1. PICK fit \in BOOLEAN : returns' = Append(returns, [box |-> member[m].box, fit |-> fit])
      BY <2>5 DEF ReleaseLease
    <3>2. [box |-> member[m].box, fit |-> fit] \in [box : Boxes, fit : BOOLEAN]
      BY <2>5 DEF ReleaseLease, Types
    <3>3. returns' \in Seq([box : Boxes, fit : BOOLEAN])
      BY <3>1, <3>2 DEF Types
    <3> QED BY <1>1, <2>5, <3>3 DEF ReleaseLease, Types, pool, engine
  <2> QED BY <1>3, <2>1, <2>2, <2>3, <2>4, <2>5 DEF AcquireStep
<1>4. ASSUME NEW g \in Groups, GroupStep(g) \/ Expire(g) PROVE Types'
  <2>1. CASE GroupStep(g)
    BY <1>2, <2>1 DEF GroupStep, GroupResets, GroupActs, GroupCloses, GroupEnds, engine
  <2>2. CASE Expire(g)
    BY <1>1, <2>2 DEF Expire, Fresh, Types, pool
  <2> QED BY <1>4, <2>1, <2>2
<1>5. CASE JanitorStep
  <2>1. CASE Reclaim
    <3>1. Head(returns) \in [box : Boxes, fit : BOOLEAN]
          /\ Tail(returns) \in Seq([box : Boxes, fit : BOOLEAN])
      BY <2>1, FirstReturn DEF Reclaim
    <3>2. janitor' \in [pc : JanitorPcs, box : Boxes \cup {None}]
          /\ janitor'.pc # "off" /\ janitor'.box # None
      BY <2>1, <3>1, BoxesAssumption DEF Reclaim, Job, JanitorPcs
    <3> QED BY <1>1, <2>1, <3>1, <3>2 DEF Reclaim, Types, engine
  <2>2. CASE Recycled
    <3>1. janitor.box \in Boxes
      BY <2>2 DEF Recycled, Types
    <3>2. idle' \in Seq(Boxes)
      BY <2>2, <3>1 DEF Recycled, Types
    <3>3. janitor' \in [pc : JanitorPcs, box : Boxes \cup {None}]
          /\ janitor'.pc = "off" /\ janitor'.box = None
      BY <2>2 DEF Recycled, Off, Job, JanitorPcs
    <3> QED BY <1>1, <2>2, <3>2, <3>3 DEF Recycled, Types
  <2>3. CASE RecycleFails
    <3>1. janitor' \in [pc : JanitorPcs, box : Boxes \cup {None}]
          /\ janitor'.pc # "off" /\ janitor'.box # None
      BY <2>3 DEF RecycleFails, Job, JanitorPcs, Types
    <3> QED BY <1>1, <2>3, <3>1 DEF RecycleFails, Types, pool, engine
  <2>4. CASE Destroyed
    <3>1. janitor' \in [pc : JanitorPcs, box : Boxes \cup {None}]
          /\ janitor'.pc = "off" /\ janitor'.box = None
      BY <2>4 DEF Destroyed, Off, Job, JanitorPcs
    <3> QED BY <1>1, <2>4, <3>1 DEF Destroyed, Remove, Types
  <2> QED BY <1>5, <2>1, <2>2, <2>3, <2>4 DEF JanitorStep
<1>6. CASE WarmStep \/ TrainStarts
  <2>1. /\ warm' \in [pc : WarmPcs, box : Boxes \cup {None}]
        /\ warm'.pc = "burying" <=> warm'.box # None
    BY <1>6, BoxesAssumption DEF WarmStep, TrainStarts, WarmCounts, WarmKept, WarmTooLate, WarmBuries,
       WarmFails, Job, Off, WarmPcs, Fresh, Types
  <2>2. CASE WarmKept
    <3>1. idle' \in Seq(Boxes) /\ exists' \subseteq Boxes /\ tainted' \subseteq Boxes
      BY <2>2 DEF WarmKept, Fresh, Types
    <3> QED BY <1>1, <2>1, <2>2, <3>1 DEF WarmKept, Types
  <2>3. CASE WarmCounts \/ WarmTooLate \/ WarmBuries \/ WarmFails \/ TrainStarts
    BY <1>1, <2>1, <2>3 DEF WarmCounts, WarmTooLate, WarmBuries, WarmFails, TrainStarts, Fresh,
       Remove, CreationLeaves, Types, pool, engine
  <2> QED BY <1>6, <2>2, <2>3 DEF WarmStep
<1>7. CASE CloserStep
  <2>1. CASE Shutdown
    <3>1. closer' \in [pc : CloserPcs, taken : Seq(Boxes)] /\ idle' \in Seq(Boxes)
      BY <2>1 DEF Shutdown, CloserPcs, Types
    <3> QED BY <1>1, <2>1, <3>1 DEF Shutdown, Types, engine
  <2>2. CASE ShutdownBuries
    <3>1. closer.taken \in Seq(Boxes) /\ closer.taken # <<>>
      BY <2>2 DEF ShutdownBuries, Types
    <3>2. Tail(closer.taken) \in Seq(Boxes)
      BY <3>1
    <3>3. closer' \in [pc : CloserPcs, taken : Seq(Boxes)]
      BY <2>2, <3>2 DEF ShutdownBuries, Types
    <3> QED BY <1>1, <2>2, <3>3 DEF ShutdownBuries, Remove, Types
  <2>3. CASE ShutdownNotifies \/ Drained \/ GivesUp
    <3>1. closer' \in [pc : CloserPcs, taken : Seq(Boxes)]
      BY <2>3 DEF ShutdownNotifies, Drained, GivesUp, CloserPcs, Types
    <3>2. UNCHANGED <<pool, returns, janitor, warm, engine>>
      BY <2>3 DEF ShutdownNotifies, Drained, GivesUp, engine
    <3> QED BY <1>1, <3>1, <3>2 DEF Types, pool, engine
  <2> QED BY <1>7, <2>1, <2>2, <2>3 DEF CloserStep
<1>8. CASE ForceCloses \/ Sweep
  <2>1. CASE ForceCloses
    BY <1>1, <2>1 DEF ForceCloses, Types, engine
  <2>2. CASE Sweep
    BY <1>1, <2>2 DEF Sweep, Types, pool
  <2> QED BY <1>8, <2>1, <2>2
<1>9. CASE NextUpdate \/ RunOver
  BY <1>2, <1>9 DEF NextUpdate, RunOver, engine
<1>10. CASE UNCHANGED vars
  BY <1>2, <1>10 DEF vars, engine
<1> QED BY <1>3, <1>4, <1>5, <1>6, <1>7, <1>8, <1>9, <1>10 DEF Next, LoopStep

\* The types hold in every state.
LEMMA TypesHold == Spec => []Types
<1>1. Init => Types
  <2> SUFFICES ASSUME Init PROVE Types
    OBVIOUS
  <2>1. /\ member \in MemberFn
        /\ \A m \in Members : member[m].pc = "holding" => member[m].box \in Boxes
    BY DEF Init, Job, MemberFn, MemberPcs
  <2>2. /\ janitor \in [pc : JanitorPcs, box : Boxes \cup {None}]
        /\ janitor.pc = "off" <=> janitor.box = None
        /\ warm \in [pc : WarmPcs, box : Boxes \cup {None}]
        /\ warm.pc = "burying" <=> warm.box # None
    BY DEF Init, Off, Job, JanitorPcs, WarmPcs
  <2>3. \A S : <<>> \in Seq(S)
    OBVIOUS
  <2>4. closer \in [pc : CloserPcs, taken : Seq(Boxes)]
    BY <2>3 DEF Init, CloserPcs
  <2>5. returns = <<>> /\ idle = <<>>
    BY DEF Init
  <2>6. returns \in Seq([box : Boxes, fit : BOOLEAN]) /\ idle \in Seq(Boxes)
    BY <2>3, <2>5, Zenon
  <2>7. leased \subseteq Boxes /\ exists \subseteq Boxes /\ tainted \subseteq Boxes
        /\ live \in Int
    <3>1. leased = {} /\ exists = {} /\ tainted = {} /\ live = 0
      BY DEF Init
    <3> QED BY <3>1
  <2>8. closed \in BOOLEAN
    BY Zenon DEF Init
  <2> QED BY <2>1, <2>2, <2>4, <2>6, <2>7, <2>8, Zenon DEF Types
<1> QED BY <1>1, TypesStep, PTL DEF Spec

----------------------------------------------------------------------------
(* Where each container is: idle, leased, with the janitor, with the        *)
(* warm-up, or taken by the shutdown.                                       *)

Elems(s) == {s[i] : i \in DOMAIN s}
Distinct(s) == \A i, j \in DOMAIN s : s[i] = s[j] => i = j

\* A container pushed on the idle stack is one more member of it.
LEMMA Appended ==
    ASSUME NEW S, NEW s \in Seq(S), NEW b \in S
    PROVE  /\ Elems(Append(s, b)) = Elems(s) \cup {b}
           /\ Distinct(s) /\ b \notin Elems(s) => Distinct(Append(s, b))
<1>1. /\ DOMAIN Append(s, b) = 1 .. Len(s) + 1 /\ DOMAIN s = 1 .. Len(s) /\ Len(s) \in Nat
      /\ \A i \in 1 .. Len(s) : Append(s, b)[i] = s[i]
      /\ Append(s, b)[Len(s) + 1] = b
  OBVIOUS
<1>2. \A i \in 1 .. Len(s) + 1 : i \in 1 .. Len(s) \/ i = Len(s) + 1
  BY <1>1
<1>3. Elems(Append(s, b)) = Elems(s) \cup {b}
  BY <1>1, <1>2 DEF Elems
<1>4. ASSUME Distinct(s), b \notin Elems(s) PROVE Distinct(Append(s, b))
  BY <1>1, <1>2, <1>4 DEF Elems, Distinct
<1> QED BY <1>3, <1>4

\* A container popped from the idle stack is no longer a member of it.
LEMMA Popped ==
    ASSUME NEW S, NEW s \in Seq(S), s # <<>>, Distinct(s)
    PROVE  LET t == SubSeq(s, 1, Len(s) - 1)
           IN  Elems(t) = Elems(s) \ {s[Len(s)]} /\ Distinct(t) /\ s[Len(s)] \in Elems(s)
<1> DEFINE n == Len(s)
           t == SubSeq(s, 1, n - 1)
<1>1. /\ n \in Nat \ {0} /\ DOMAIN s = 1 .. n
      /\ DOMAIN t = 1 .. n - 1 /\ \A i \in 1 .. n - 1 : t[i] = s[i]
  OBVIOUS
<1> HIDE DEF n, t
<1>2. \A i \in 1 .. n : i \in 1 .. n - 1 \/ i = n
  BY <1>1
<1>3. \A i \in 1 .. n - 1 : i \in 1 .. n /\ i # n
  BY <1>1
<1>4. n \in 1 .. n
  BY <1>1
<1>5. Elems(t) = Elems(s) \ {s[n]} /\ Distinct(t) /\ s[n] \in Elems(s)
  BY <1>1, <1>2, <1>3, <1>4 DEF Elems, Distinct
<1> QED BY <1>5 DEF n, t

\* A container taken from the front of a list is no longer a member of it.
LEMMA Shifted ==
    ASSUME NEW S, NEW s \in Seq(S), s # <<>>, Distinct(s)
    PROVE  /\ Elems(Tail(s)) = Elems(s) \ {Head(s)} /\ Distinct(Tail(s))
           /\ Head(s) \in Elems(s)
<1> DEFINE n == Len(s)
           t == Tail(s)
<1>1. /\ n \in Nat \ {0} /\ DOMAIN s = 1 .. n /\ Head(s) = s[1]
      /\ DOMAIN t = 1 .. n - 1 /\ \A i \in 1 .. n - 1 : t[i] = s[i + 1]
  OBVIOUS
<1>2. \A i \in 1 .. n : i = 1 \/ (i - 1 \in 1 .. n - 1 /\ i = (i - 1) + 1)
  BY <1>1
<1>3. \A i \in 1 .. n - 1 : i + 1 \in 1 .. n /\ i + 1 # 1
  BY <1>1
<1>4. \A i, j \in 1 .. n - 1 : i + 1 = j + 1 => i = j
  OBVIOUS
<1>5. 1 \in 1 .. n
  BY <1>1
<1> HIDE DEF n, t
<1>6. Elems(t) = Elems(s) \ {s[1]}
  <2>1. ASSUME NEW i \in 1 .. n - 1 PROVE t[i] \in Elems(s) \ {s[1]}
    <3>1. t[i] = s[i + 1] /\ i + 1 \in DOMAIN s /\ 1 \in DOMAIN s /\ i + 1 # 1
      BY <1>1, <1>3, <1>5
    <3>2. s[i + 1] # s[1]
      BY <3>1 DEF Distinct
    <3> QED BY <3>1, <3>2 DEF Elems
  <2>2. ASSUME NEW i \in 1 .. n, s[i] # s[1] PROVE s[i] \in Elems(t)
    <3>1. i - 1 \in 1 .. n - 1 /\ i = (i - 1) + 1
      BY <1>2, <2>2
    <3>2. t[i - 1] = s[i]
      BY <1>1, <3>1
    <3> QED BY <1>1, <3>1, <3>2 DEF Elems
  <2> QED BY <1>1, <2>1, <2>2 DEF Elems
<1>7. Distinct(t)
  BY <1>1, <1>3, <1>4 DEF Distinct
<1> QED BY <1>1, <1>5, <1>6, <1>7 DEF Elems, t

\* An empty list has no members.
LEMMA NoElems == Elems(<<>>) = {} /\ Distinct(<<>>)
BY DEF Elems, Distinct

Places ==
    /\ Distinct(idle) /\ Distinct(closer.taken)
    /\ Elems(idle) \cap leased = {}
    /\ Elems(idle) \cap Elems(closer.taken) = {}
    /\ leased \cap Elems(closer.taken) = {}
    /\ {janitor.box, warm.box} \cap (Elems(idle) \cup leased \cup Elems(closer.taken)) = {}
    /\ janitor.box = warm.box => janitor.box = None

\* A lease is one member's, or one returned entry's.
Leases ==
    /\ \A m \in Members : member[m].pc = "holding" => member[m].box \in leased
    /\ \A m, n \in Members : /\ member[m].pc = "holding" /\ member[n].pc = "holding"
                             /\ member[m].box = member[n].box
                             => m = n
    /\ \A i \in DOMAIN returns : returns[i].box \in leased
    /\ \A i \in DOMAIN returns, m \in Members :
           member[m].pc = "holding" => member[m].box # returns[i].box
    /\ \A i, j \in DOMAIN returns : returns[i].box = returns[j].box => i = j

\* A container with a new name is in none of the places.
LEMMA FreshFits ==
    ASSUME NEW b \in Fresh
    PROVE  /\ b \in Boxes /\ b \notin exists /\ b # None
           /\ b \notin Elems(idle) \cup leased \cup Elems(closer.taken)
           /\ b # janitor.box /\ b # warm.box
BY BoxesAssumption DEF Fresh, Known, Elems

\* No step puts a container in two places.
LEMMA PlacesStep ==
    ASSUME Types, Places, Leases, [Next]_vars PROVE Places'
<1>1. CASE UNCHANGED <<idle, leased, closer.taken, janitor.box, warm.box>>
  BY <1>1 DEF Places, Elems, Distinct
<1>2. ASSUME NEW m \in Members, Takes(m) PROVE Places'
  <2>1. CASE Inspect(m) /\ Pop(m)
    <3> DEFINE b == idle[Len(idle)]
    <3>1. /\ Elems(idle') = Elems(idle) \ {b} /\ Distinct(idle') /\ b \in Elems(idle)
      BY <2>1, Popped DEF Pop, Types, Places
    <3>2. leased' = leased \cup {b} /\ UNCHANGED <<closer, janitor, warm>>
      BY <2>1 DEF Inspect, Pop, HandOut
    <3> HIDE DEF b
    <3> QED BY <3>1, <3>2 DEF Places
  <2>2. CASE Created(m)
    <3>1. PICK b \in Fresh : leased' = leased \cup {b}
      BY <2>2 DEF Created, HandOut
    <3>2. UNCHANGED <<idle, closer, janitor, warm>>
      BY <2>2 DEF Created
    <3> QED BY <3>1, <3>2, FreshFits DEF Places
  <2>3. CASE Inspect(m) /\ CountCreation(m)
    BY <1>1, <2>3 DEF Inspect, CountCreation
  <2> QED BY <1>2, <2>1, <2>2, <2>3 DEF Takes
<1>3. CASE Reclaim
  <2>1. /\ returns # <<>> /\ returns[1] = Head(returns) /\ 1 \in DOMAIN returns
        /\ Head(returns).box \in Boxes
    BY <1>3, FirstReturn DEF Reclaim
  <2>2. /\ leased' = leased \ {Head(returns).box} /\ janitor'.box = Head(returns).box
        /\ UNCHANGED <<idle, closer, warm>>
    BY <1>3 DEF Reclaim, Job
  <2>3. Head(returns).box \in leased
    BY <2>1 DEF Leases
  <2> QED BY <2>2, <2>3 DEF Places
<1>4. CASE Recycled
  <2>1. janitor.box \in Boxes
    BY <1>4 DEF Recycled, Types
  <2>2. /\ Elems(idle') = Elems(idle) \cup {janitor.box} /\ Distinct(idle')
    BY <1>4, <2>1, Appended DEF Recycled, Types, Places
  <2>3. janitor'.box = None /\ UNCHANGED <<leased, closer, warm>>
    BY <1>4 DEF Recycled, Off, Job
  <2>4. None \notin Elems(idle) \cup leased \cup Elems(closer.taken) \cup {janitor.box}
    BY <2>1, BoxesAssumption DEF Types, Elems
  <2>5. janitor.box # warm.box
    BY <2>1, BoxesAssumption DEF Places
  <2> QED BY <2>2, <2>3, <2>4, <2>5 DEF Places
<1>5. CASE RecycleFails
  BY <1>1, <1>5 DEF RecycleFails, Job, pool
<1>6. CASE Destroyed
  <2>1. janitor'.box = None /\ UNCHANGED <<idle, leased, closer, warm>>
    BY <1>6 DEF Destroyed, Off, Job
  <2>2. None \notin Elems(idle) \cup leased \cup Elems(closer.taken)
    BY BoxesAssumption DEF Types, Elems
  <2> QED BY <2>1, <2>2 DEF Places
<1>7. CASE WarmKept
  <2>1. warm.box = None
    BY <1>7 DEF WarmKept, Types
  <2>2. PICK b \in Fresh : idle' = Append(idle, b)
    BY <1>7 DEF WarmKept
  <2>3. Elems(idle') = Elems(idle) \cup {b} /\ Distinct(idle')
    BY <2>2, FreshFits, Appended DEF Types, Places
  <2>4. warm'.box = None /\ UNCHANGED <<leased, closer, janitor>>
    BY <1>7 DEF WarmKept, Job
  <2> QED BY <2>1, <2>3, <2>4, FreshFits DEF Places
<1>8. CASE WarmTooLate
  <2>1. PICK b \in Fresh : warm' = Job("burying", b)
    BY <1>8 DEF WarmTooLate
  <2>2. warm'.box = b /\ UNCHANGED <<idle, leased, closer, janitor>>
    BY <1>8, <2>1 DEF WarmTooLate, Job
  <2> QED BY <2>2, FreshFits DEF Places
<1>9. CASE WarmCounts \/ WarmBuries \/ WarmFails \/ TrainStarts
  <2>1. warm'.box = None /\ UNCHANGED <<idle, leased, closer, janitor>>
    BY <1>9 DEF WarmCounts, WarmBuries, WarmFails, TrainStarts, Off, Job, pool
  <2>2. None \notin Elems(idle) \cup leased \cup Elems(closer.taken)
    BY BoxesAssumption DEF Types, Elems
  <2> QED BY <2>1, <2>2 DEF Places
<1>10. CASE Shutdown
  <2>1. idle' = <<>> /\ closer'.taken = idle /\ UNCHANGED <<leased, janitor, warm>>
    BY <1>10 DEF Shutdown
  <2> QED BY <2>1, NoElems DEF Places
<1>11. CASE ShutdownBuries
  <2>1. closer'.taken = Tail(closer.taken) /\ UNCHANGED <<idle, leased, janitor, warm>>
    BY <1>11 DEF ShutdownBuries, Types
  <2>2. Elems(closer'.taken) \subseteq Elems(closer.taken) /\ Distinct(closer'.taken)
    BY <1>11, <2>1, Shifted DEF ShutdownBuries, Types, Places
  <2> QED BY <2>1, <2>2 DEF Places
<1>12. CASE ShutdownNotifies \/ Drained \/ GivesUp
  <2>1. closer'.taken = closer.taken /\ UNCHANGED <<idle, leased, janitor, warm>>
    BY <1>12 DEF ShutdownNotifies, Drained, GivesUp, Types, pool
  <2> QED BY <1>1, <2>1
<1>13. \/ \E m \in Members : Takes(m)
       \/ Reclaim \/ Recycled \/ RecycleFails \/ Destroyed
       \/ WarmKept \/ WarmTooLate \/ WarmCounts \/ WarmBuries \/ WarmFails \/ TrainStarts
       \/ Shutdown \/ ShutdownBuries \/ ShutdownNotifies \/ Drained \/ GivesUp
       \/ UNCHANGED <<idle, leased, closer, janitor, warm>>
  BY DEF Next, vars, AcquireStep, Inspect, Takes, Refused, ToldToWait, Poll, CreateFails,
     ReleaseLease, GroupStep, GroupResets, GroupActs, GroupCloses, GroupEnds, Expire, JanitorStep,
     WarmStep, LoopStep, NextUpdate, RunOver, CloserStep, ForceCloses, Sweep, pool
<1> QED BY <1>1, <1>2, <1>3, <1>4, <1>5, <1>6, <1>7, <1>8, <1>9, <1>10, <1>11, <1>12, <1>13

\* Leases stay as they are when nothing is leased or released.
LEMMA LeasesKept ==
    ASSUME Leases, Quiet, leased' = leased, returns' = returns PROVE Leases'
BY DEF Leases, Quiet

\* A container that nobody leases is leased to a member that holds none.
LEMMA Lent ==
    ASSUME Types, Leases, NEW m \in Members, NEW b \in Boxes \ leased,
           member' = [member EXCEPT ![m] = Job("holding", b)], leased' = leased \cup {b},
           returns' = returns
    PROVE  Leases'
<1>1. /\ Job("holding", b).box = b
      /\ \A n \in Members : member'[n] = IF n = m THEN Job("holding", b) ELSE member[n]
  BY HoldsFits DEF Job
<1>2. \A n \in Members \ {m} : member'[n].pc = "holding" =>
          member'[n] = member[n] /\ member'[n].box \in leased /\ member'[n].box # b
  BY <1>1 DEF Leases
<1>3. member'[m].box = b
  BY <1>1
<1> QED BY <1>1, <1>2, <1>3 DEF Leases

\* No step makes a lease anybody's but one member's or one returned entry's.
LEMMA LeasesStep ==
    ASSUME Types, Places, Leases, [Next]_vars PROVE Leases'
<1>1. ASSUME NEW m \in Members, Takes(m) PROVE Leases'
  <2>1. CASE Inspect(m) /\ Pop(m)
    <3> DEFINE b == idle[Len(idle)]
    <3>1. b \in Elems(idle) /\ b \in Boxes
      BY <2>1, Popped DEF Pop, Types, Places
    <3>2. /\ member' = [member EXCEPT ![m] = Job("holding", b)]
          /\ leased' = leased \cup {b} /\ returns' = returns
      BY <2>1 DEF Inspect, Pop, HandOut
    <3> HIDE DEF b
    <3>3. b \notin leased
      BY <3>1 DEF Places
    <3> QED BY <3>1, <3>2, <3>3, Lent
  <2>2. CASE Created(m)
    BY <2>2, FreshFits, Lent DEF Created, HandOut
  <2>3. CASE Inspect(m) /\ CountCreation(m)
    <3>1. /\ member' = Moved(m, "creating") /\ Job("creating", None).pc = "creating"
          /\ UNCHANGED <<leased, returns>>
      BY <2>3 DEF Inspect, CountCreation, Job
    <3>2. \A n \in Members : member'[n].pc = "holding" => member'[n] = member[n]
      BY <3>1, MovedFits DEF MemberPcs
    <3> QED BY <3>1, <3>2 DEF Leases
  <2> QED BY <1>1, <2>1, <2>2, <2>3 DEF Takes
<1>2. CASE \A m \in Members : ~Takes(m)
  <2>0. Quiet
    BY <1>2, QuietSteps
  <2>1. ASSUME NEW m \in Members, ReleaseLease(m) PROVE Leases'
    <3>1. PICK e \in [box : Boxes, fit : BOOLEAN] :
              e.box = member[m].box /\ returns' = Append(returns, e)
      <4>1. PICK fit \in BOOLEAN : returns' = Append(returns, [box |-> member[m].box, fit |-> fit])
        BY <2>1 DEF ReleaseLease
      <4>2. [box |-> member[m].box, fit |-> fit] \in [box : Boxes, fit : BOOLEAN]
        BY <2>1 DEF ReleaseLease, Types
      <4> QED BY <4>1, <4>2
    <3>2. /\ DOMAIN returns' = 1 .. Len(returns) + 1 /\ DOMAIN returns = 1 .. Len(returns)
          /\ Len(returns) \in Nat /\ returns'[Len(returns) + 1] = e
          /\ \A i \in DOMAIN returns : returns'[i] = returns[i]
      <4> DEFINE Entries == [box : Boxes, fit : BOOLEAN]
      <4>1. returns \in Seq(Entries) /\ e \in Entries
        BY DEF Types
      <4> HIDE DEF Entries
      <4> QED BY <3>1, <4>1
    <3>3. /\ member[m].pc = "holding" /\ leased' = leased
          /\ member' = Moved(m, "out") /\ Job("out", None).pc = "out"
      BY <2>1 DEF ReleaseLease, Job, pool
    <3>4. member'[m].pc = "out"
      BY <3>3, MovedFits DEF MemberPcs
    <3>5. \A i \in DOMAIN returns' : i \in DOMAIN returns \/ i = Len(returns) + 1
      BY <3>2
    <3>6. \A n \in Members : member'[n].pc = "holding" => n # m /\ member'[n] = member[n]
      BY <2>0, <3>4 DEF Quiet
    <3>7. \A n \in Members : member'[n].pc = "holding" =>
              member'[n].box \in leased /\ member'[n].box # e.box
      BY <3>1, <3>3, <3>6 DEF Leases
    <3>8. \A i \in DOMAIN returns : returns'[i].box = returns[i].box /\ returns[i].box # e.box
      BY <3>1, <3>2, <3>3 DEF Leases
    <3>9. e.box \in leased
      BY <3>1, <3>3 DEF Leases
    <3>10. \A i, j \in DOMAIN returns' : returns'[i].box = returns'[j].box => i = j
      BY <3>2, <3>5, <3>8 DEF Leases
    <3> QED BY <3>2, <3>3, <3>5, <3>6, <3>7, <3>8, <3>9, <3>10 DEF Leases
  <2>2. CASE Reclaim
    <3>1. /\ returns # <<>> /\ returns' = Tail(returns)
          /\ leased' = leased \ {Head(returns).box} /\ member' = member
      BY <2>2 DEF Reclaim
    <3>2. /\ Head(returns) = returns[1] /\ 1 \in DOMAIN returns
          /\ \A i \in DOMAIN returns' : i + 1 \in DOMAIN returns /\ returns'[i] = returns[i + 1]
                                       /\ i \in Int /\ i > 0
      BY <3>1, FirstReturn
    <3>3. \A i \in DOMAIN returns' : returns'[i].box \in leased /\ returns'[i].box # returns[1].box
      <4> SUFFICES ASSUME NEW i \in DOMAIN returns'
                   PROVE  returns[i + 1].box \in leased /\ returns[i + 1].box # returns[1].box
        BY <3>2
      <4>1. i + 1 \in DOMAIN returns /\ i + 1 # 1
        BY <3>2
      <4> QED BY <3>2, <4>1 DEF Leases
    <3>4. \A i, j \in DOMAIN returns' : returns'[i].box = returns'[j].box => i = j
      <4> SUFFICES ASSUME NEW i \in DOMAIN returns', NEW j \in DOMAIN returns',
                          returns[i + 1].box = returns[j + 1].box
                   PROVE  i = j
        BY <3>2
      <4>1. i + 1 = j + 1
        BY <3>2 DEF Leases
      <4> QED BY <3>2, <4>1
    <3>5. \A m \in Members : member[m].pc = "holding" => member[m].box # returns[1].box
      BY <3>2 DEF Leases
    <3>6. \A i \in DOMAIN returns', m \in Members :
              member[m].pc = "holding" => member[m].box # returns'[i].box
      BY <3>2 DEF Leases
    <3> QED BY <3>1, <3>2, <3>3, <3>4, <3>5, <3>6 DEF Leases
  <2>3. CASE UNCHANGED <<leased, returns>>
    BY <2>0, <2>3, LeasesKept
  <2>4. \/ \E m \in Members : ReleaseLease(m)
        \/ Reclaim
        \/ UNCHANGED <<leased, returns>>
    BY <1>2 DEF Next, vars, AcquireStep, Inspect, Takes, Refused, ToldToWait, Poll, CreateFails,
       GroupStep, GroupResets, GroupActs, GroupCloses, GroupEnds, Expire, JanitorStep, Recycled,
       RecycleFails, Destroyed, WarmStep, WarmCounts, WarmKept, WarmTooLate, WarmBuries, WarmFails,
       LoopStep, TrainStarts, NextUpdate, RunOver, CloserStep, Shutdown, ShutdownBuries,
       ShutdownNotifies, Drained, GivesUp, ForceCloses, Sweep, pool
  <2> QED BY <2>1, <2>2, <2>3, <2>4
<1> QED BY <1>1, <1>2

\* Every container is in one place, and every lease is held once, in every state.
LEMMA PlacesHold == Spec => [](Types /\ Places /\ Leases)
<1>1. Init => Places
  <2> SUFFICES ASSUME Init PROVE Places
    OBVIOUS
  <2>1. idle = <<>> /\ leased = {} /\ closer.taken = <<>> /\ janitor.box = None
    BY DEF Init, Off, Job
  <2> QED BY <2>1, NoElems DEF Places
<1>2. Init => Leases
  <2> SUFFICES ASSUME Init PROVE Leases
    OBVIOUS
  <2>1. returns = <<>> /\ \A m \in Members : member[m].pc = "out"
    BY DEF Init, Job
  <2> QED BY <2>1 DEF Leases
<1> QED BY <1>1, <1>2, PlacesStep, LeasesStep, TypesHold, PTL DEF Spec

----------------------------------------------------------------------------
(* The phases of the run: the warm-up beside the training only, nobody left  *)
(* to wait in a pool that was closed.                                       *)

Phases ==
    /\ phase # "training" => warm = Off
    /\ closer.pc # "off" => closed /\ phase = "over"
    /\ warm.pc = "burying" => closed
    /\ forced # "off" => closed
    /\ forced # "off" \/ closer.pc \in {"draining", "drained", "gaveup"}
          => \A m \in Members : ~Waits(m)

\* Nobody comes to wait in a closed pool.
LEMMA WaitersStep ==
    ASSUME Types, [Next]_vars, closed PROVE \A m \in Members : Waits(m)' => Waits(m)
<1>1. CASE \A m \in Members : ~Takes(m)
  BY <1>1, QuietSteps DEF Quiet
<1>2. ASSUME NEW m \in Members, Takes(m) PROVE \A n \in Members : Waits(n)' => Waits(n)
  <2>1. PICK b \in Boxes : member' = [member EXCEPT ![m] = Job("holding", b)]
    BY <1>2, FreshFits DEF Takes, Pop, CountCreation, Created
  <2>2. Job("holding", b).pc = "holding"
    BY DEF Job
  <2> QED BY <2>1, <2>2, HoldsFits DEF Waits
<1> QED BY <1>1, <1>2

\* No step warms up outside training or parks anybody in a closed pool.
LEMMA PhasesStep ==
    ASSUME Types, Phases, [Next]_vars PROVE Phases'
<1>0. closed => \A m \in Members : Waits(m)' => Waits(m)
  BY WaitersStep
<1>1. CASE UNCHANGED <<phase, warm, closer, closed, forced>>
  BY <1>0, <1>1 DEF Phases
<1>2. CASE WarmStep
  <2>1. phase = "training"
    <3>1. Off.pc = "off"
      BY DEF Off, Job
    <3> QED BY <1>2, <3>1 DEF Phases, WarmStep, WarmCounts, WarmKept, WarmTooLate, WarmBuries, WarmFails
  <2>2. UNCHANGED <<phase, closer, closed, forced>>
    BY <1>2 DEF WarmStep, WarmCounts, WarmKept, WarmTooLate, WarmBuries, WarmFails, loop, pool
  <2>3. warm'.pc = "burying" => closed
    BY <1>2 DEF WarmStep, WarmCounts, WarmKept, WarmTooLate, WarmBuries, WarmFails, Off, Job
  <2> QED BY <1>0, <2>1, <2>2, <2>3 DEF Phases
<1>3. CASE LoopStep
  <2>1. UNCHANGED <<closer, closed, forced>>
    BY <1>3 DEF LoopStep, TrainStarts, NextUpdate, RunOver, pool
  <2>2. Job("checking", None).pc = "checking"
    BY DEF Job
  <2>3. phase' # "training" => warm' = Off
    BY <1>3 DEF LoopStep, TrainStarts, NextUpdate, RunOver, Phases
  <2>4. phase # "over" \/ phase' = "over"
    BY <1>3 DEF LoopStep, TrainStarts, NextUpdate, RunOver
  <2>5. warm'.pc = "burying" => closed
    BY <1>3, <2>2 DEF LoopStep, TrainStarts, NextUpdate, RunOver, Phases
  <2> QED BY <1>0, <2>1, <2>3, <2>4, <2>5 DEF Phases
<1>4. CASE Shutdown
  <2>1. UNCHANGED <<phase, warm, forced>> /\ closed' /\ phase = "over" /\ closer'.pc = "burying"
        /\ member' = member
    BY <1>4 DEF Shutdown, loop
  <2> QED BY <2>1 DEF Phases, Waits
<1>5. CASE ShutdownBuries \/ Drained \/ GivesUp
  <2>1. UNCHANGED <<phase, warm, forced, closed, member>> /\ closer.pc # "off"
        /\ (closer'.pc \in {"draining", "drained", "gaveup"} => closer.pc = "draining")
    BY <1>5 DEF ShutdownBuries, Drained, GivesUp, Types, pool, loop
  <2> QED BY <2>1 DEF Phases, Waits
<1>6. CASE ShutdownNotifies \/ ForceCloses
  <2>1. /\ UNCHANGED <<phase, warm>> /\ closed' /\ (closer'.pc = "off" <=> closer.pc = "off")
        /\ NotifyWaiters
    BY <1>6 DEF ShutdownNotifies, ForceCloses, Phases, Types, pool, loop
  <2>2. \A m \in Members : ~Waits(m)'
    <3>1. Job("woken", None).pc = "woken"
      BY DEF Job
    <3>2. \A m \in Members :
              member'[m] = IF Waits(m) THEN Job("woken", None) ELSE member[m]
      BY <2>1 DEF NotifyWaiters, Waits, At
    <3> QED BY <3>1, <3>2 DEF Waits
  <2> QED BY <2>1, <2>2 DEF Phases
<1>7. CASE Sweep
  <2>1. UNCHANGED <<phase, warm, closer, closed, member>> /\ forced # "off"
    BY <1>7 DEF Sweep, pool, loop
  <2> QED BY <2>1 DEF Phases, Waits
<1>8. \/ WarmStep \/ LoopStep \/ CloserStep \/ ForceCloses \/ Sweep
      \/ UNCHANGED <<phase, warm, closer, closed, forced>>
  BY DEF Next, vars, AcquireStep, Inspect, Refused, Pop, CountCreation, ToldToWait, Poll, Created,
     CreateFails, ReleaseLease, GroupStep, GroupResets, GroupActs, GroupCloses, GroupEnds, Expire,
     JanitorStep, Reclaim, Recycled, RecycleFails, Destroyed, pool, loop
<1> QED BY <1>1, <1>2, <1>3, <1>4, <1>5, <1>6, <1>7, <1>8 DEF CloserStep

\* So it is in every state.
LEMMA PhasesHold == Spec => []Phases
<1>1. Init => Phases
  BY DEF Init, Phases, Waits, Off, Job
<1> QED BY <1>1, PhasesStep, TypesHold, PTL DEF Spec

----------------------------------------------------------------------------
(* The count: a slot of the pool for each container that exists or that the *)
(* pool believes in, but the one a late warm-up destroys, and for each      *)
(* creation under way.                                                      *)

Held == (exists \cup Elems(idle) \cup leased \cup Elems(closer.taken) \cup {janitor.box})
            \ {None, warm.box}
Makers == At("creating")
WarmMakes == IF warm.pc = "creating" THEN 1 ELSE 0

Count ==
    /\ Cardinality(Held) + Cardinality(Makers) + WarmMakes <= live
    /\ live <= MaxLive
    /\ warm.pc = "burying" => live < MaxLive
    /\ closer.pc = "drained" => live = 0

\* The containers that live counts are finitely many.
LEMMA FiniteHeld == ASSUME Types PROVE IsFiniteSet(Held) /\ Cardinality(Held) \in Nat
<1>1. Held \subseteq Boxes
  BY DEF Held, Types, Elems
<1> QED BY <1>1, BoxesAssumption, FS_Subset, FS_CardinalityType

\* So they are after a step.
LEMMA FiniteHeldNext == ASSUME Types' PROVE IsFiniteSet(Held') /\ Cardinality(Held') \in Nat
<1>1. Held' \subseteq Boxes
  BY DEF Held, Types, Elems
<1> QED BY <1>1, BoxesAssumption, FS_Subset, FS_CardinalityType

\* The creations under way are finitely many, before a step and after it.
LEMMA FiniteMakers ==
    /\ IsFiniteSet(Makers) /\ Cardinality(Makers) \in Nat
    /\ IsFiniteSet(Makers') /\ Cardinality(Makers') \in Nat
<1>1. Makers \subseteq Members /\ Makers' \subseteq Members
  BY DEF Makers, At
<1> QED BY <1>1, MembersAssumption, FS_Subset, FS_CardinalityType

\* What is counted changes by less than the slots do.
LEMMA CountFollows ==
    ASSUME Types, Types', Count, live' - live \in Int,
           Cardinality(Held') + Cardinality(Makers') + WarmMakes'
             <= Cardinality(Held) + Cardinality(Makers) + WarmMakes + (live' - live)
    PROVE  Cardinality(Held') + Cardinality(Makers') + WarmMakes' <= live'
<1>1. live \in Int /\ live' \in Int
  BY DEF Types
<1>2. WarmMakes \in Nat /\ WarmMakes' \in Nat
  BY DEF WarmMakes
<1> QED BY <1>1, <1>2, FiniteHeld, FiniteHeldNext, FiniteMakers DEF Count

\* No slot is taken in a closed pool, nor more than there are.
LEMMA SlotsStep ==
    ASSUME Types, Types', Phases, Count, [Next]_vars
    PROVE  /\ live' <= MaxLive
           /\ live' <= live \/ ~closed
           /\ warm'.pc = "burying" => live' < MaxLive
<1>0. live \in Int /\ live' \in Int /\ MaxLive \in Int /\ live <= MaxLive
  BY LimitsAssumption DEF Types, Count
<1>1. CASE live' = live /\ warm' = warm
  BY <1>0, <1>1 DEF Count
<1>2. ASSUME NEW m \in Members, AcquireStep(m) 
      PROVE  live' <= MaxLive /\ (live' <= live \/ ~closed) /\ warm' = warm
  BY <1>0, <1>2 DEF AcquireStep, Inspect, Refused, Pop, CountCreation, ToldToWait, HasRoom, Poll,
     Created, CreateFails, pool
<1>3. CASE JanitorStep \/ CloserStep
  <2>1. live' <= live /\ warm' = warm
    BY <1>0, <1>3 DEF JanitorStep, Reclaim, Recycled, RecycleFails, Destroyed, CloserStep, Shutdown,
       ShutdownBuries, ShutdownNotifies, Drained, GivesUp, pool
  <2> QED BY <1>0, <2>1 DEF Count, Types
<1>4. CASE WarmStep \/ TrainStarts
  <2>1. /\ live' <= MaxLive /\ (live' <= live \/ ~closed)
        /\ warm'.pc = "burying" => live' < MaxLive
    BY <1>0, <1>4 DEF WarmStep, WarmCounts, WarmKept, WarmTooLate, WarmBuries, WarmFails, TrainStarts,
       HasRoom, Off, Job, pool, Count
  <2> QED BY <2>1
<1>5. \/ \E m \in Members : AcquireStep(m)
      \/ JanitorStep \/ CloserStep \/ WarmStep \/ TrainStarts
      \/ live' = live /\ warm' = warm
  BY DEF Next, vars, ReleaseLease, GroupStep, GroupResets, GroupActs, GroupCloses, GroupEnds, Expire,
     LoopStep, NextUpdate, RunOver, ForceCloses, Sweep, pool
<1>6. warm.pc = "burying" => closed /\ live < MaxLive
  BY DEF Phases, Count
<1> QED BY <1>0, <1>1, <1>2, <1>3, <1>4, <1>5, <1>6

\* Nothing more exists than did, and the slots are as they were.
LEMMA CountKept ==
    ASSUME Types, Types', Count, Quiet, Held' \subseteq Held, live' = live,
           WarmMakes' <= WarmMakes
    PROVE  Cardinality(Held') + Cardinality(Makers') + WarmMakes' <= live'
<1>1. Makers' \subseteq Makers
  BY DEF Quiet, Makers, At
<1>2. Cardinality(Makers') <= Cardinality(Makers) /\ Cardinality(Held') <= Cardinality(Held)
  BY <1>1, FiniteMakers, FiniteHeld, FS_Subset
<1>3. WarmMakes \in Nat /\ WarmMakes' \in Nat /\ live \in Int
  BY DEF WarmMakes, Types
<1> QED BY <1>2, <1>3, FiniteHeld, FiniteHeldNext, FiniteMakers, CountFollows

\* A container goes, and its slot with it.
LEMMA CountDropped ==
    ASSUME Types, Types', Count, Quiet, NEW b \in Held, Held' \subseteq Held \ {b},
           live' = live - 1, WarmMakes' = WarmMakes
    PROVE  Cardinality(Held') + Cardinality(Makers') + WarmMakes' <= live'
<1>1. Makers' \subseteq Makers
  BY DEF Quiet, Makers, At
<1>2. Cardinality(Held \ {b}) = Cardinality(Held) - 1 /\ IsFiniteSet(Held \ {b})
  BY FiniteHeld, FS_RemoveElement
<1>3. Cardinality(Makers') <= Cardinality(Makers) /\ Cardinality(Held') <= Cardinality(Held) - 1
  BY <1>1, <1>2, FiniteMakers, FS_Subset
<1>4. WarmMakes \in Nat /\ live \in Int
  BY DEF WarmMakes, Types
<1> QED BY <1>3, <1>4, FiniteHeld, FiniteHeldNext, FiniteMakers, CountFollows

\* What a step of an acquisition makes of the count.
LEMMA AcquireCounts ==
    ASSUME Types, Types', Places, Leases, Count, [Next]_vars, NEW m \in Members, AcquireStep(m)
    PROVE  Cardinality(Held') + Cardinality(Makers') + WarmMakes' <= live'
<1>0. live \in Int /\ WarmMakes \in Nat
  BY DEF Types, WarmMakes
<1>1. CASE Inspect(m) /\ Pop(m)
  <2> DEFINE b == idle[Len(idle)]
  <2>1. Elems(idle') = Elems(idle) \ {b} /\ b \in Elems(idle) /\ b \in Boxes
    BY <1>1, Popped DEF Pop, Types, Places
  <2>2. /\ member' = [member EXCEPT ![m] = Job("holding", b)] /\ leased' = leased \cup {b}
        /\ UNCHANGED <<exists, closer, janitor, warm, live>>
    BY <1>1 DEF Inspect, Pop, HandOut
  <2> HIDE DEF b
  <2>3. Held' = Held /\ WarmMakes' = WarmMakes
    BY <2>1, <2>2 DEF Held, WarmMakes
  <2>4. Makers' \subseteq Makers
    <3>1. Job("holding", b).pc # "creating"
      BY DEF Job
    <3> QED BY <2>1, <2>2, <3>1, HoldsFits DEF Makers, At
  <2>5. Cardinality(Makers') <= Cardinality(Makers)
    BY <2>4, FiniteMakers, FS_Subset
  <2> QED BY <1>0, <2>2, <2>3, <2>5, FiniteHeld, FiniteMakers, CountFollows
<1>2. CASE Inspect(m) /\ CountCreation(m)
  <2>1. /\ UNCHANGED <<idle, leased, exists, closer, janitor, warm>> /\ live' = live + 1
        /\ member' = Moved(m, "creating") /\ member[m].pc # "creating"
    BY <1>2 DEF Inspect, CountCreation, engine
  <2>2. Held' = Held /\ WarmMakes' = WarmMakes
    BY <2>1 DEF Held, WarmMakes
  <2>3. Makers' = Makers \cup {m} /\ m \notin Makers
    <3>1. Job("creating", None).pc = "creating"
      BY DEF Job
    <3> QED BY <2>1, <3>1, MovedFits DEF Makers, At, MemberPcs
  <2>4. Cardinality(Makers') = Cardinality(Makers) + 1
    BY <2>3, FiniteMakers, FS_AddElement
  <2> QED BY <1>0, <2>1, <2>2, <2>4, FiniteHeld, FiniteMakers, CountFollows
<1>3. CASE Created(m)
  <2>1. PICK b \in Fresh : /\ exists' = exists \cup {b} /\ leased' = leased \cup {b}
                           /\ member' = [member EXCEPT ![m] = Job("holding", b)]
    BY <1>3 DEF Created, HandOut
  <2>2. UNCHANGED <<idle, closer, janitor, warm, live>> /\ member[m].pc = "creating"
    BY <1>3 DEF Created
  <2>3. Held' = Held \cup {b} /\ b \notin Held /\ WarmMakes' = WarmMakes
    BY <2>1, <2>2, FreshFits DEF Held, WarmMakes
  <2>4. Makers' = Makers \ {m} /\ m \in Makers
    <3>1. Job("holding", b).pc # "creating" /\ b \in Boxes
      BY FreshFits DEF Job
    <3>2. \A n \in Members : member'[n] = IF n = m THEN Job("holding", b) ELSE member[n]
      BY <2>1, <3>1, HoldsFits
    <3> QED BY <2>2, <3>1, <3>2 DEF Makers, At
  <2>5. Cardinality(Makers') = Cardinality(Makers) - 1 /\ Cardinality(Held') = Cardinality(Held) + 1
    BY <2>3, <2>4, FiniteMakers, FiniteHeld, FS_AddElement, FS_RemoveElement
  <2> QED BY <1>0, <2>2, <2>3, <2>5, FiniteHeld, FiniteMakers, CountFollows
<1>4. CASE CreateFails(m)
  <2>1. /\ UNCHANGED <<idle, leased, exists, closer, janitor, warm>> /\ live' = live - 1
        /\ member[m].pc = "creating" /\ NotifyOne(Moved(m, "failed"))
    BY <1>4 DEF CreateFails, CreationLeaves
  <2>2. Held' = Held /\ WarmMakes' = WarmMakes
    BY <2>1 DEF Held, WarmMakes
  <2>3. Makers' \subseteq Makers \ {m} /\ m \in Makers
    <3>1. Job("failed", None).pc = "failed" /\ Moved(m, "failed") \in MemberFn
      BY MovedFits DEF Job, MemberPcs
    <3>2. Wakes(Moved(m, "failed"))
      BY <2>1, <3>1, NotifyOneWakes
    <3>3. \A n \in Members : Moved(m, "failed")[n] = IF n = m THEN Job("failed", None) ELSE member[n]
      BY MovedFits DEF MemberPcs
    <3> QED BY <2>1, <3>1, <3>2, <3>3 DEF Wakes, Makers, At
  <2>4. Cardinality(Makers \ {m}) = Cardinality(Makers) - 1 /\ IsFiniteSet(Makers \ {m})
    BY <2>3, FiniteMakers, FS_RemoveElement
  <2>5. Cardinality(Makers') <= Cardinality(Makers) - 1
    BY <2>3, <2>4, FS_Subset
  <2> QED BY <1>0, <2>1, <2>2, <2>5, FiniteHeld, FiniteMakers, CountFollows
<1>5. CASE ~Takes(m) /\ (Inspect(m) \/ Poll(m))
  <2>1. \E pc \in MemberPcs \ {"creating"} : member' = Moved(m, pc)
    BY <1>5 DEF Takes, Inspect, Refused, ToldToWait, Poll, MemberPcs
  <2>2. PICK pc \in MemberPcs \ {"creating"} : member' = Moved(m, pc)
    BY <2>1
  <2>3. UNCHANGED <<idle, leased, exists, closer, janitor, warm, live>>
    BY <1>5 DEF Takes, Inspect, Refused, ToldToWait, Poll, pool, engine
  <2>4. Held' = Held /\ WarmMakes' = WarmMakes
    BY <2>3 DEF Held, WarmMakes
  <2>5. Makers' \subseteq Makers
    <3>1. Job(pc, None).pc # "creating"
      BY DEF Job
    <3> QED BY <2>2, <3>1, MovedFits DEF Makers, At
  <2>6. Cardinality(Makers') <= Cardinality(Makers)
    BY <2>5, FiniteMakers, FS_Subset
  <2> QED BY <1>0, <2>3, <2>4, <2>6, FiniteHeld, FiniteMakers, CountFollows
<1> QED BY <1>1, <1>2, <1>3, <1>4, <1>5 DEF AcquireStep, Takes

\* A deadline leaves the containers of creations it drops, and their slots.
LEMMA ExpiryCounts ==
    ASSUME Types, Types', Count, NEW g \in Groups, Expire(g)
    PROVE  Cardinality(Held') + Cardinality(Makers') + WarmMakes' <= live'
<1> DEFINE gone == {m \in g : member[m].pc # "holding"}
           dropped == {m \in g : member[m].pc = "creating"}
           ms == [m \in Members |-> IF m \in gone THEN Job("out", None) ELSE member[m]]
<1>1. g \subseteq Members
  BY GroupsAssumption
<1>2. PICK orphans \in SUBSET Fresh :
          Cardinality(orphans) <= Cardinality(dropped) /\ exists' = exists \cup orphans
  BY DEF Expire
<1>3. UNCHANGED <<idle, leased, closer, janitor, warm, live>> /\ DropWaiters(gone, ms)
  BY DEF Expire, pool
<1>4. Makers' \subseteq Makers \ dropped /\ dropped \subseteq Makers
  <2>1. ms \in MemberFn /\ Job("out", None).pc = "out"
    BY DEF Types, MemberFn, MemberPcs, Job
  <2>2. \A m \in Members : ms[m] = IF m \in gone THEN Job("out", None) ELSE member[m]
    OBVIOUS
  <2>3. dropped \subseteq gone
    OBVIOUS
  <2>4. dropped \subseteq Makers
    BY <1>1 DEF Makers, At
  <2> HIDE DEF ms, gone, dropped
  <2>5. Wakes(ms)
    BY <1>3, <2>1, DropWaitersWakes
  <2> QED BY <2>1, <2>2, <2>3, <2>4, <2>5 DEF Wakes, Makers, At
<1> HIDE DEF ms, gone, dropped
<1>5. /\ IsFiniteSet(dropped) /\ Cardinality(dropped) \in Nat
      /\ IsFiniteSet(Makers \ dropped)
      /\ Cardinality(Makers \ dropped) = Cardinality(Makers) - Cardinality(dropped)
  <2>1. IsFiniteSet(dropped) /\ Cardinality(dropped) \in Nat
    BY <1>4, FiniteMakers, FS_Subset, FS_CardinalityType
  <2>2. Makers \cap dropped = dropped
    BY <1>4
  <2> QED BY <2>1, <2>2, FiniteMakers, FS_Difference
<1>6. Cardinality(Makers') <= Cardinality(Makers) - Cardinality(dropped)
  BY <1>4, <1>5, FS_Subset
<1>7. IsFiniteSet(orphans) /\ Cardinality(orphans) \in Nat
  BY BoxesAssumption, FS_Subset, FS_CardinalityType DEF Fresh
<1>8. Cardinality(Held') <= Cardinality(Held) + Cardinality(dropped)
  <2>1. Held' \subseteq Held \cup orphans
    BY <1>2, <1>3 DEF Held
  <2>2. IsFiniteSet(Held \cup orphans) /\ IsFiniteSet(Held \cap orphans)
        /\ Cardinality(Held \cup orphans)
             = Cardinality(Held) + Cardinality(orphans) - Cardinality(Held \cap orphans)
    BY <1>7, FiniteHeld, FS_Union, FS_Intersection
  <2>3. Cardinality(Held \cap orphans) \in Nat
    BY <2>2, FS_CardinalityType
  <2>4. Cardinality(Held') <= Cardinality(Held \cup orphans)
    BY <2>1, <2>2, FS_Subset
  <2> QED BY <1>2, <1>5, <1>7, <2>2, <2>3, <2>4, FiniteHeld, FiniteHeldNext
<1>9. live \in Int /\ live' = live /\ WarmMakes' = WarmMakes /\ WarmMakes \in Nat
  BY <1>3 DEF Types, WarmMakes
<1> QED BY <1>5, <1>6, <1>8, <1>9, FiniteHeld, FiniteHeldNext, FiniteMakers, CountFollows

\* No step lets containers and creations under way come to more than live.
LEMMA CountStep ==
    ASSUME Types, Types', Places, Leases, Phases, Phases', Count, [Next]_vars PROVE Count'
<1> DEFINE Fits == Cardinality(Held') + Cardinality(Makers') + WarmMakes' <= live'
<1>1. ASSUME NEW m \in Members, AcquireStep(m) PROVE Fits
  BY <1>1, AcquireCounts
<1>2. ASSUME NEW g \in Groups, Expire(g) PROVE Fits
  BY <1>2, ExpiryCounts
<1>3. ASSUME \A m \in Members : ~Takes(m) PROVE Fits
  <2>0. Quiet
    BY <1>3, QuietSteps
  <2>1. CASE UNCHANGED <<idle, leased, closer.taken, janitor.box, warm, live>> /\ exists' \subseteq exists
    <3>1. Held' \subseteq Held /\ WarmMakes' = WarmMakes
      BY <2>1 DEF Held, Elems, WarmMakes
    <3> QED BY <2>0, <2>1, <3>1, CountKept DEF WarmMakes
  <2>2. CASE Reclaim
    <3>1. Head(returns).box \in leased
      BY <2>2, FirstReturn DEF Reclaim, Leases
    <3>2. /\ leased' = leased \ {Head(returns).box} /\ janitor'.box = Head(returns).box
          /\ UNCHANGED <<idle, exists, closer, warm, live>>
      BY <2>2 DEF Reclaim, Job, engine
    <3>3. Held' \subseteq Held /\ WarmMakes' = WarmMakes
      BY <3>1, <3>2 DEF Held, WarmMakes
    <3> QED BY <2>0, <3>2, <3>3, CountKept DEF WarmMakes
  <2>3. CASE Recycled
    <3>1. janitor.box \in Boxes
      BY <2>3 DEF Recycled, Types
    <3>2. Elems(idle') = Elems(idle) \cup {janitor.box}
      BY <2>3, <3>1, Appended DEF Recycled, Types
    <3>3. janitor'.box = None /\ UNCHANGED <<leased, exists, closer, warm, live>>
      BY <2>3 DEF Recycled, Off, Job
    <3>4. Held' \subseteq Held /\ WarmMakes' = WarmMakes
      BY <3>2, <3>3 DEF Held, WarmMakes
    <3> QED BY <2>0, <3>3, <3>4, CountKept DEF WarmMakes
  <2>4. CASE Destroyed
    <3> DEFINE b == janitor.box
    <3>1. b \in Held
      BY <2>4, BoxesAssumption DEF Destroyed, Types, Places, Held
    <3>2. janitor'.box = None /\ exists' = exists \ {b} /\ live' = live - 1
          /\ UNCHANGED <<idle, leased, closer, warm>>
      BY <2>4 DEF Destroyed, Remove, Off, Job
    <3>3. Held' \subseteq Held \ {b} /\ WarmMakes' = WarmMakes
      BY <3>1, <3>2 DEF Held, WarmMakes, Places
    <3> HIDE DEF b
    <3> QED BY <2>0, <3>1, <3>2, <3>3, CountDropped
  <2>5. CASE WarmCounts
    <3>1. warm.pc = "checking" /\ UNCHANGED <<idle, leased, exists, closer, janitor>>
          /\ warm.box = None
      BY <2>5 DEF WarmCounts, Types, engine
    <3>2. warm'.box = None /\ (\/ warm'.pc = "off" /\ live' = live
                               \/ warm'.pc = "creating" /\ live' = live + 1)
      BY <2>5 DEF WarmCounts, Off, Job
    <3>3. Held' = Held /\ WarmMakes = 0
      BY <3>1, <3>2 DEF Held, WarmMakes
    <3>4. live \in Int /\ live' \in Int /\ WarmMakes' = live' - live
      <4>1. live \in Int
        BY DEF Types
      <4> QED BY <3>2, <4>1 DEF WarmMakes
    <3>5. Cardinality(Makers') <= Cardinality(Makers)
      BY <2>0, FiniteMakers, FS_Subset DEF Quiet, Makers, At
    <3> QED BY <3>2, <3>3, <3>4, <3>5, FiniteHeld, FiniteMakers, CountFollows
  <2>6. CASE WarmKept
    <3>1. PICK b \in Fresh : exists' = exists \cup {b} /\ idle' = Append(idle, b)
      BY <2>6 DEF WarmKept
    <3>2. warm.pc = "creating" /\ warm'.pc = "checking" /\ warm.box = None /\ warm'.box = None
          /\ UNCHANGED <<leased, closer, janitor, live>>
      BY <2>6 DEF WarmKept, Types, Job
    <3>3. Elems(idle') = Elems(idle) \cup {b}
      BY <3>1, FreshFits, Appended DEF Types
    <3>4. Held' = Held \cup {b} /\ b \notin Held
      BY <3>1, <3>2, <3>3, FreshFits DEF Held
    <3>5. Cardinality(Held') = Cardinality(Held) + 1
      BY <3>4, FiniteHeld, FS_AddElement
    <3>6. Cardinality(Makers') <= Cardinality(Makers)
      BY <2>0, FiniteMakers, FS_Subset DEF Quiet, Makers, At
    <3>7. WarmMakes = 1 /\ WarmMakes' = 0 /\ live \in Int
      BY <3>2 DEF WarmMakes, Types
    <3> QED BY <3>2, <3>5, <3>6, <3>7, FiniteHeld, FiniteMakers, CountFollows
  <2>7. CASE WarmTooLate \/ WarmFails
    <3>1. /\ warm.pc = "creating" /\ warm.box = None /\ live' = live - 1
          /\ warm'.pc # "creating" /\ UNCHANGED <<idle, leased, closer, janitor>>
          /\ \/ exists' = exists
             \/ exists' = exists \cup {warm'.box}
      BY <2>7 DEF WarmTooLate, WarmFails, CreationLeaves, Types, Off, Job, engine
    <3>2. Held' \subseteq Held
      BY <3>1 DEF Held
    <3>3. Cardinality(Held') <= Cardinality(Held) /\ Cardinality(Makers') <= Cardinality(Makers)
      BY <2>0, <3>2, FiniteHeld, FiniteMakers, FS_Subset DEF Quiet, Makers, At
    <3>4. WarmMakes = 1 /\ WarmMakes' = 0 /\ live \in Int
      BY <3>1 DEF WarmMakes, Types
    <3> QED BY <3>1, <3>3, <3>4, FiniteHeld, FiniteHeldNext, FiniteMakers, CountFollows
  <2>8. CASE WarmBuries
    <3>1. /\ exists' = exists \ {warm.box} /\ warm'.box = None
          /\ UNCHANGED <<idle, leased, closer, janitor, live>>
          /\ warm'.pc # "creating"
      BY <2>8 DEF WarmBuries, Remove, Job, pool
    <3>2. warm.box # None
      BY <2>8 DEF WarmBuries, Types
    <3>3. Held' \subseteq Held
      BY <3>1, <3>2 DEF Held, Places
    <3>4. WarmMakes' = 0 /\ WarmMakes \in Nat
      BY <3>1 DEF WarmMakes
    <3> QED BY <2>0, <3>1, <3>3, <3>4, CountKept
  <2>9. CASE TrainStarts
    <3>1. UNCHANGED <<idle, leased, exists, closer, janitor, live>> /\ warm = Off
          /\ warm' = Job("checking", None)
      BY <2>9 DEF TrainStarts, Phases, pool, engine
    <3>2. Held' \subseteq Held /\ WarmMakes' = 0 /\ WarmMakes \in Nat
      BY <3>1 DEF Held, WarmMakes, Off, Job
    <3> QED BY <2>0, <3>1, <3>2, CountKept
  <2>10. CASE Shutdown
    <3>1. idle' = <<>> /\ closer'.taken = idle
          /\ UNCHANGED <<leased, exists, janitor, warm, live>>
      BY <2>10 DEF Shutdown, engine
    <3>2. Held' \subseteq Held /\ WarmMakes' = WarmMakes /\ WarmMakes \in Nat
      BY <3>1, NoElems DEF Held, WarmMakes
    <3> QED BY <2>0, <3>1, <3>2, CountKept
  <2>11. CASE ShutdownBuries
    <3> DEFINE b == Head(closer.taken)
    <3>1. closer.taken \in Seq(Boxes) /\ closer.taken # <<>> /\ closer'.taken = Tail(closer.taken)
          /\ exists' = exists \ {b} /\ live' = live - 1
          /\ UNCHANGED <<idle, leased, janitor, warm>>
      BY <2>11 DEF ShutdownBuries, Remove, Types
    <3>2. Elems(closer'.taken) = Elems(closer.taken) \ {b} /\ b \in Elems(closer.taken)
      BY <3>1, Shifted DEF Places
    <3>3. b \in Boxes
      BY <3>1
    <3> HIDE DEF b
    <3>4. b # janitor.box /\ b # warm.box /\ b # None /\ b \notin Elems(idle) \cup leased
      BY <3>2, <3>3, BoxesAssumption DEF Places
    <3>5. b \in Held /\ Held' \subseteq Held \ {b} /\ WarmMakes' = WarmMakes
      BY <3>1, <3>2, <3>4 DEF Held, WarmMakes
    <3> QED BY <2>0, <3>1, <3>5, CountDropped
  <2>12. \/ UNCHANGED <<idle, leased, closer.taken, janitor.box, warm, live>> /\ exists' \subseteq exists
         \/ Reclaim \/ Recycled \/ Destroyed
         \/ WarmStep \/ TrainStarts \/ Shutdown \/ ShutdownBuries
         \/ \E m \in Members : AcquireStep(m)
         \/ \E g \in Groups : Expire(g)
    BY DEF Next, vars, ReleaseLease, GroupStep, GroupResets, GroupActs, GroupCloses, GroupEnds,
       JanitorStep, RecycleFails, LoopStep, NextUpdate, RunOver, CloserStep, ShutdownNotifies,
       Drained, GivesUp, ForceCloses, Sweep, pool, engine, Job, Types
  <2> QED BY <1>1, <1>2, <2>1, <2>2, <2>3, <2>4, <2>5, <2>6, <2>7, <2>8, <2>9, <2>10, <2>11, <2>12
       DEF WarmStep
<1>4. Fits
  BY <1>1, <1>3 DEF AcquireStep, Takes
<1>5. closer'.pc = "drained" => live' = 0
  <2>1. closer'.pc = "drained" => (live' = live /\ live = 0) \/ closer.pc = "drained"
    <3>1. CASE CloserStep
      BY <3>1 DEF CloserStep, Shutdown, ShutdownBuries, ShutdownNotifies, Drained, GivesUp, pool, Types
    <3>2. CloserStep \/ closer' = closer
      BY DEF Next, vars, AcquireStep, Inspect, Poll, Created, CreateFails, ReleaseLease, GroupStep,
         GroupResets, GroupActs, GroupCloses, GroupEnds, Expire, JanitorStep, Reclaim, Recycled,
         RecycleFails, Destroyed, WarmStep, WarmCounts, WarmKept, WarmTooLate, WarmBuries, WarmFails,
         LoopStep, TrainStarts, NextUpdate, RunOver, ForceCloses, Sweep
    <3> QED BY <3>1, <3>2
  <2>2. closer.pc = "drained" => live = 0 /\ live' <= live
    BY SlotsStep DEF Count, Phases
  <2>3. 0 <= live' /\ live' \in Int
    <3>1. WarmMakes' \in Nat /\ live' \in Int
      BY DEF WarmMakes, Types
    <3> QED BY <1>4, <3>1, FiniteHeldNext, FiniteMakers
  <2> QED BY <2>1, <2>2, <2>3
<1> QED BY <1>4, <1>5, SlotsStep DEF Count

\* live covers them in every state.
LEMMA CountHolds == Spec => []Count
<1>1. Init => Count
  <2> SUFFICES ASSUME Init PROVE Count
    OBVIOUS
  <2>1. /\ idle = <<>> /\ leased = {} /\ exists = {} /\ live = 0 /\ closer.taken = <<>>
        /\ closer.pc = "off" /\ janitor.box = None /\ warm.pc = "off"
        /\ \A m \in Members : member[m].pc = "out"
    BY DEF Init, Off, Job
  <2>2. Held = {} /\ Makers = {} /\ WarmMakes = 0
    BY <2>1, NoElems DEF Held, Makers, At, WarmMakes
  <2> QED BY <2>1, <2>2, FS_EmptySet, LimitsAssumption DEF Count
<1> QED BY <1>1, CountStep, PlacesHold, PhasesHold, PTL DEF Spec

----------------------------------------------------------------------------
(* What the idle set holds.                                                 *)

\* An idle container holds nothing of an episode, and what the pool believes
\* in exists, until the forced sweep.
Clean ==
    /\ Elems(idle) \cap tainted = {}
    /\ forced = "swept" \/
         (Elems(idle) \cup leased \cup Elems(closer.taken) \cup {janitor.box}) \ {None} \subseteq exists

\* No step hands an idle container on with what an earlier member left in it.
LEMMA CleanStep ==
    ASSUME Types, Places, Leases, Clean, [Next]_vars PROVE Clean'
<1>1. CASE UNCHANGED <<idle, leased, closer.taken, janitor.box, tainted>> /\ exists \subseteq exists'
           /\ (forced = "swept" => forced' = "swept")
  BY <1>1 DEF Clean, Elems
<1>2. ASSUME NEW m \in Members, Takes(m) PROVE Clean'
  <2>1. CASE Inspect(m) /\ Pop(m)
    <3> DEFINE b == idle[Len(idle)]
    <3>1. Elems(idle') = Elems(idle) \ {b} /\ b \in Elems(idle)
      BY <2>1, Popped DEF Pop, Types, Places
    <3>2. leased' = leased \cup {b} /\ tainted' = tainted \cup {b}
          /\ UNCHANGED <<closer, janitor, exists, forced>>
      BY <2>1 DEF Inspect, Pop, HandOut
    <3> HIDE DEF b
    <3> QED BY <3>1, <3>2 DEF Clean
  <2>2. CASE Created(m)
    <3>1. PICK b \in Fresh : /\ leased' = leased \cup {b} /\ tainted' = tainted \cup {b}
                             /\ exists' = exists \cup {b}
      BY <2>2 DEF Created, HandOut
    <3>2. UNCHANGED <<idle, closer, janitor, forced>>
      BY <2>2 DEF Created
    <3> QED BY <3>1, <3>2, FreshFits DEF Clean
  <2>3. CASE Inspect(m) /\ CountCreation(m)
    BY <1>1, <2>3 DEF Inspect, CountCreation, engine
  <2> QED BY <1>2, <2>1, <2>2, <2>3 DEF Takes
<1>3. CASE Reclaim
  <2>1. Head(returns).box \in leased
    BY <1>3, FirstReturn DEF Reclaim, Leases
  <2>2. /\ leased' = leased \ {Head(returns).box} /\ janitor'.box = Head(returns).box
        /\ UNCHANGED <<idle, closer, exists, tainted, forced>>
    BY <1>3 DEF Reclaim, Job, engine
  <2> QED BY <2>1, <2>2 DEF Clean
<1>4. CASE Recycled
  <2>1. janitor.box \in Boxes
    BY <1>4 DEF Recycled, Types
  <2>2. Elems(idle') = Elems(idle) \cup {janitor.box}
    BY <1>4, <2>1, Appended DEF Recycled, Types
  <2>3. janitor'.box = None /\ tainted' = tainted \ {janitor.box}
        /\ UNCHANGED <<leased, closer, exists, forced>>
    BY <1>4 DEF Recycled, Off, Job
  <2> QED BY <2>1, <2>2, <2>3, BoxesAssumption DEF Clean
<1>5. CASE Destroyed
  <2>1. janitor'.box = None /\ exists' = exists \ {janitor.box}
        /\ UNCHANGED <<idle, leased, closer, tainted, forced>>
    BY <1>5 DEF Destroyed, Remove, Off, Job
  <2> QED BY <2>1 DEF Clean, Places
<1>6. CASE WarmKept
  <2>1. PICK b \in Fresh : idle' = Append(idle, b) /\ exists' = exists \cup {b}
                           /\ tainted' = tainted \ {b}
    BY <1>6 DEF WarmKept
  <2>2. Elems(idle') = Elems(idle) \cup {b}
    BY <2>1, FreshFits, Appended DEF Types
  <2>3. UNCHANGED <<leased, closer, janitor, forced>>
    BY <1>6 DEF WarmKept
  <2> QED BY <2>1, <2>2, <2>3 DEF Clean
<1>7. CASE WarmBuries
  <2>1. exists' = exists \ {warm.box} /\ UNCHANGED <<idle, leased, closer, janitor, tainted, forced>>
    BY <1>7 DEF WarmBuries, Remove, pool
  <2>2. warm.box \notin Elems(idle) \cup leased \cup Elems(closer.taken)
        /\ (warm.box = janitor.box => janitor.box = None)
    BY DEF Places
  <2> QED BY <2>1, <2>2 DEF Clean
<1>8. CASE Shutdown
  <2>1. idle' = <<>> /\ closer'.taken = idle
        /\ UNCHANGED <<leased, exists, janitor, tainted, forced>>
    BY <1>8 DEF Shutdown, engine
  <2> QED BY <2>1, NoElems DEF Clean
<1>9. CASE ShutdownBuries
  <2> DEFINE b == Head(closer.taken)
  <2>1. closer.taken \in Seq(Boxes) /\ closer.taken # <<>> /\ closer'.taken = Tail(closer.taken)
        /\ exists' = exists \ {b} /\ UNCHANGED <<idle, leased, janitor, tainted, forced>>
    BY <1>9 DEF ShutdownBuries, Remove, Types
  <2>2. Elems(closer'.taken) = Elems(closer.taken) \ {b} /\ b \in Elems(closer.taken)
    BY <2>1, Shifted DEF Places
  <2> HIDE DEF b
  <2>3. b # janitor.box /\ b \notin Elems(idle) \cup leased
    BY <2>2 DEF Places
  <2> QED BY <2>1, <2>2, <2>3 DEF Clean
<1>10. CASE Sweep
  <2>1. forced' = "swept" /\ idle' = idle /\ tainted' = tainted
    BY <1>10 DEF Sweep, pool
  <2> QED BY <2>1 DEF Clean
<1>11. CASE RecycleFails \/ ShutdownNotifies \/ Drained \/ GivesUp
  <2>1. /\ janitor'.box = janitor.box /\ closer'.taken = closer.taken
        /\ UNCHANGED <<idle, leased, tainted, exists, forced>>
    BY <1>11 DEF RecycleFails, ShutdownNotifies, Drained, GivesUp, pool, engine, Job, Types
  <2> QED BY <1>1, <2>1
<1>12. CASE (\E g \in Groups : Expire(g)) \/ WarmTooLate
  <2>1. UNCHANGED <<idle, leased, closer, janitor, tainted, forced>> /\ exists \subseteq exists'
    BY <1>12 DEF Expire, WarmTooLate, pool
  <2> QED BY <1>1, <2>1
<1>13. CASE ForceCloses
  <2>1. UNCHANGED <<idle, leased, closer, janitor, tainted, exists>> /\ forced = "off"
    BY <1>13 DEF ForceCloses, engine
  <2> QED BY <1>1, <2>1
<1>14. \/ \E m \in Members : Takes(m)
       \/ Reclaim \/ Recycled \/ RecycleFails \/ Destroyed
       \/ WarmKept \/ WarmTooLate \/ WarmBuries
       \/ CloserStep \/ ForceCloses \/ Sweep \/ \E g \in Groups : Expire(g)
       \/ UNCHANGED <<idle, leased, closer, janitor, tainted, exists, forced>>
  BY DEF Next, vars, AcquireStep, Inspect, Takes, Refused, ToldToWait, Poll, CreateFails,
     ReleaseLease, GroupStep, GroupResets, GroupActs, GroupCloses, GroupEnds, JanitorStep,
     WarmStep, WarmCounts, WarmFails, CreationLeaves, LoopStep, TrainStarts, NextUpdate, RunOver, pool, engine
<1> QED BY <1>1, <1>2, <1>3, <1>4, <1>5, <1>6, <1>7, <1>8, <1>9, <1>10, <1>11, <1>12, <1>13, <1>14
      DEF CloserStep

\* So idle containers are clean, and exist until the forced sweep, in every state.
LEMMA CleanHolds == Spec => []Clean
<1>1. Init => Clean
  <2> SUFFICES ASSUME Init PROVE Clean
    OBVIOUS
  <2>1. idle = <<>> /\ leased = {} /\ closer.taken = <<>> /\ janitor.box = None /\ tainted = {}
    BY DEF Init, Off, Job
  <2> QED BY <2>1, NoElems DEF Clean
<1> QED BY <1>1, CleanStep, PlacesHold, PTL DEF Spec

----------------------------------------------------------------------------
(* Who waits: the list of the Notify holds those who parked, each once; a   *)
(* group has members to serve only while it resets, and no group resets     *)
(* beside the optimizer step, so that a slot the warm-up gives back without  *)
(* telling anyone is one that nobody waits for.                             *)

Parks(ms) ==
    /\ parked \in Seq(Members) /\ Distinct(parked)
    /\ \A i \in DOMAIN parked : ms[parked[i]].pc = "parked"
ParkedFits == Parks(member) /\ permit \in BOOLEAN

Settled(m) == member[m].pc \in {"out", "failed", "holding"}

Stages ==
    /\ group \in [Groups -> {"fresh", "resetting", "acting", "closing", "done"}]
    /\ \A g \in Groups : group[g] # "resetting" => \A m \in g : Settled(m)
    /\ phase # "rollouts" => \A g \in Groups : group[g] \in {"fresh", "done"}

\* The members at a place are finitely many, and counted.
LEMMA AtFinite ==
    ASSUME NEW pc
    PROVE  /\ At(pc) \subseteq Members /\ IsFiniteSet(At(pc)) /\ Cardinality(At(pc)) \in Nat
           /\ At(pc)' \subseteq Members /\ IsFiniteSet(At(pc)') /\ Cardinality(At(pc)') \in Nat
<1>1. At(pc) \subseteq Members /\ At(pc)' \subseteq Members
  BY DEF At
<1> QED BY <1>1, MembersAssumption, FS_Subset, FS_CardinalityType

\* The first of a list without repetition, and the others.
LEMMA FirstParked ==
    ASSUME NEW STATE ms, Parks(ms), parked # <<>>
    PROVE  /\ Head(parked) \in Members /\ ms[Head(parked)].pc = "parked"
           /\ Tail(parked) \in Seq(Members) /\ Distinct(Tail(parked))
           /\ \A i \in DOMAIN Tail(parked) :
                 /\ Tail(parked)[i] \in Members /\ Tail(parked)[i] # Head(parked)
                 /\ ms[Tail(parked)[i]].pc = "parked"
<1>1. /\ Elems(Tail(parked)) = Elems(parked) \ {Head(parked)} /\ Distinct(Tail(parked))
      /\ Head(parked) \in Elems(parked)
  BY Shifted DEF Parks
<1>2. Tail(parked) \in Seq(Members)
  BY DEF Parks
<1>3. \A m \in Elems(parked) : m \in Members /\ ms[m].pc = "parked"
  BY DEF Elems, Parks
<1>4. \A i \in DOMAIN Tail(parked) : Tail(parked)[i] \in Elems(Tail(parked))
  BY DEF Elems
<1> QED BY <1>1, <1>2, <1>3, <1>4

\* notify_one wakes the member that parked first, and nobody else.
LEMMA NotifyOneParks ==
    ASSUME NEW STATE ms, ms \in MemberFn, permit \in BOOLEAN, Parks(ms), NotifyOne(ms)
    PROVE  /\ ParkedFits'
           /\ \A m \in Members : \/ member'[m] = ms[m]
                                 \/ ms[m].pc = "parked" /\ member'[m].pc = "woken"
           /\ \/ parked = <<>> /\ parked' = <<>> /\ permit' /\ member' = ms
              \/ /\ parked # <<>> /\ permit' = permit
                 /\ \E h \in Members : /\ ms[h].pc = "parked" /\ member'[h].pc = "woken"
                                       /\ \A m \in Members \ {h} : member'[m] = ms[m]
<1>1. CASE parked = <<>>
  <2>1. permit' = TRUE /\ member' = ms /\ parked' = parked
    BY <1>1 DEF NotifyOne
  <2>2. Parks(member)'
    BY <2>1 DEF Parks
  <2> QED BY <1>1, <2>1, <2>2 DEF ParkedFits
<1>2. CASE parked # <<>>
  <2> DEFINE h == Head(parked)
             t == Tail(parked)
  <2>1. /\ h \in Members /\ ms[h].pc = "parked" /\ t \in Seq(Members) /\ Distinct(t)
        /\ \A i \in DOMAIN t : t[i] \in Members /\ t[i] # h /\ ms[t[i]].pc = "parked"
    BY <1>2, FirstParked
  <2>2. parked' = t /\ member' = [ms EXCEPT ![h].pc = "woken"] /\ permit' = permit
    BY <1>2 DEF NotifyOne
  <2> HIDE DEF h, t
  <2>3. ms[h] \in [pc : MemberPcs, box : Boxes \cup {None}] /\ DOMAIN ms = Members
    BY <2>1 DEF MemberFn
  <2>4. [ms[h] EXCEPT !.pc = "woken"].pc = "woken"
    BY <2>3
  <2>5. member' = [ms EXCEPT ![h] = [ms[h] EXCEPT !.pc = "woken"]]
    BY <2>2
  <2>6. member'[h].pc = "woken" /\ \A m \in Members \ {h} : member'[m] = ms[m]
    BY <2>1, <2>3, <2>4, <2>5
  <2>7. \A i \in DOMAIN t : member'[t[i]].pc = "parked"
    BY <2>1, <2>6
  <2>8. ParkedFits'
    BY <2>1, <2>2, <2>7 DEF ParkedFits, Parks
  <2> QED BY <1>2, <2>1, <2>2, <2>6, <2>8
<1> QED BY <1>1, <1>2

\* notify_waiters leaves nobody told or parked.
LEMMA NotifyWaitersParks ==
    ASSUME permit \in BOOLEAN, NotifyWaiters
    PROVE  /\ ParkedFits' /\ parked' = <<>>
           /\ \A m \in Members : \/ member'[m] = member[m] /\ ~Waits(m)
                                 \/ Waits(m) /\ member'[m].pc = "woken"
<1>1. parked' = <<>> /\ permit' = permit
  BY DEF NotifyWaiters
<1>2. Job("woken", None).pc = "woken"
  BY DEF Job
<1>3. \A m \in Members : \/ member'[m] = member[m] /\ ~Waits(m)
                         \/ Waits(m) /\ member'[m].pc = "woken"
  BY <1>2 DEF NotifyWaiters, At, Waits
<1>4. ParkedFits'
  BY <1>1, NoElems DEF ParkedFits, Parks
<1> QED BY <1>1, <1>3, <1>4

\* The first elements of a sequence, and how many they are.
Firsts(s, n) == {s[i] : i \in 1 .. n}

\* The first n elements of a list without repetitions are n.
LEMMA FirstsCount ==
    ASSUME NEW n \in Nat, NEW s, \A i, j \in 1 .. n : s[i] = s[j] => i = j
    PROVE  IsFiniteSet(Firsts(s, n)) /\ Cardinality(Firsts(s, n)) = n
<1> DEFINE f == [i \in 1 .. n |-> s[i]]
           U == Firsts(s, n)
<1>1. f \in [1 .. n -> U] /\ (\A i, j \in 1 .. n : f[i] = f[j] => i = j)
      /\ \A u \in U : \E i \in 1 .. n : f[i] = u
  BY DEF Firsts
<1>2. IsFiniteSet(1 .. n) /\ Cardinality(1 .. n) = n
  BY FS_Interval
<1> HIDE DEF f, U
<1>3. f \in Bijection(1 .. n, U)
  BY <1>1 DEF Bijection, Injection, Surjection, IsInjective
<1>4. IsFiniteSet(U) /\ Cardinality(U) = Cardinality(1 .. n)
  BY <1>2, <1>3, FS_Bijection DEF ExistsBijection
<1> QED BY <1>2, <1>4 DEF U

\* Members that are dropped pass on the wake-ups they held: whoever is left
\* parked is left with as many awake as before.
LEMMA DropWaitersParks ==
    ASSUME Types, ParkedFits, NEW STATE gone, gone \in SUBSET Members, NEW STATE ms,
           \A m \in Members : ms[m] = IF m \in gone THEN Job("out", None) ELSE member[m],
           DropWaiters(gone, ms)
    PROVE  /\ ParkedFits'
           /\ \A m \in Members : \/ member'[m] = ms[m]
                                 \/ m \notin gone /\ member[m].pc = "parked" /\ member'[m].pc = "woken"
           /\ parked' # <<>> =>
                 parked # <<>> /\ Cardinality(At("woken")') = Cardinality(At("woken"))
<1>1. PICK K \in SUBSET (DOMAIN parked) : K = {i \in DOMAIN parked : parked[i] \notin gone}
  OBVIOUS
<1>2. PICK rest \in Seq(Members) : rest = Kept(parked, K)
  BY KeptFits DEF ParkedFits, Parks
<1>3. PICK n \in Nat : n = Len(rest)
  BY <1>2
<1>4. PICK held : held = Cardinality(gone \cap At("woken"))
  OBVIOUS
<1>5. IsFiniteSet(gone \cap At("woken")) /\ held \in Nat
  BY <1>4, AtFinite, FS_Intersection, FS_CardinalityType
<1>6. PICK next : next = IF held < n THEN held ELSE n
  OBVIOUS
<1>7. next \in 0 .. n /\ (next < n => next = held)
  BY <1>3, <1>5, <1>6
<1>8. /\ parked' = SubSeq(rest, next + 1, n)
      /\ permit' = (permit \/ held > n)
      /\ member' = [m \in Members |->
                      IF \E i \in 1 .. next : rest[i] = m THEN Job("woken", None) ELSE ms[m]]
  BY <1>1, <1>2, <1>3, <1>4, <1>6 DEF DropWaiters
<1>9. \A i \in 1 .. n : /\ rest[i] \in Members \ gone /\ member[rest[i]].pc = "parked"
                        /\ \A j \in 1 .. n : rest[i] = rest[j] => i = j
  <2>0. parked \in Seq(Members) /\ n = Cardinality(K)
    BY <1>2, <1>3, KeptFits DEF ParkedFits, Parks
  <2>1. \A i \in 1 .. n : Nth(K, i) \in K /\ rest[i] = parked[Nth(K, i)]
    BY <1>2, <2>0, KeptFits
  <2>2. \A i, j \in 1 .. n : i < j => Nth(K, i) < Nth(K, j)
    BY <2>0, KeptFits
  <2>3. K \subseteq Nat
    BY <2>0
  <2>4. \A i, j \in 1 .. n : Nth(K, i) = Nth(K, j) => i = j
    <3> SUFFICES ASSUME NEW i \in 1 .. n, NEW j \in 1 .. n, Nth(K, i) = Nth(K, j) PROVE i = j
      OBVIOUS
    <3>1. Nth(K, i) \in Nat /\ Nth(K, j) \in Nat
      BY <2>1, <2>3
    <3>2. ~(i < j) /\ ~(j < i)
      BY <2>2, <3>1
    <3> QED BY <3>2
  <2>5. \A i \in K : /\ i \in DOMAIN parked /\ parked[i] \in Members \ gone
                     /\ member[parked[i]].pc = "parked"
    BY <1>1, <2>0 DEF ParkedFits, Parks
  <2>6. \A i, j \in DOMAIN parked : parked[i] = parked[j] => i = j
    BY DEF ParkedFits, Parks, Distinct
  <2> QED BY <2>1, <2>4, <2>5, <2>6
<1> DEFINE W == Firsts(rest, next)
<1>10. 1 .. next \subseteq 1 .. n
  BY <1>7
<1>11. \A m \in Members : member'[m] = IF m \in W THEN Job("woken", None) ELSE ms[m]
  BY <1>8 DEF Firsts
<1>12. W \subseteq Members \ gone /\ \A m \in W : member[m].pc = "parked"
  BY <1>9, <1>10 DEF Firsts
<1>13. IsFiniteSet(W) /\ Cardinality(W) = next
  BY <1>7, <1>9, <1>10, FirstsCount
<1>14. \A i \in 1 .. n : i > next => rest[i] \notin W
  <2> SUFFICES ASSUME NEW i \in 1 .. n, i > next, NEW j \in 1 .. next, rest[i] = rest[j]
               PROVE  FALSE
    BY DEF Firsts
  <2>1. i = j
    BY <1>9, <1>10
  <2> QED BY <1>7, <2>1
<1> HIDE DEF W
<1>15. Job("woken", None).pc = "woken" /\ Job("out", None).pc = "out"
  BY DEF Job
<1>16. \A m \in Members : \/ member'[m] = ms[m]
                          \/ m \notin gone /\ member[m].pc = "parked" /\ member'[m].pc = "woken"
  BY <1>11, <1>12, <1>15
<1>17. ParkedFits'
  <2>1. /\ parked' \in Seq(Members) /\ DOMAIN parked' = 1 .. n - next
        /\ \A i \in 1 .. n - next : parked'[i] = rest[i + next]
    BY <1>2, <1>3, <1>7, <1>8
  <2>2. \A i \in 1 .. n - next : i + next \in 1 .. n /\ i + next > next
    BY <1>7
  <2>3. \A i \in 1 .. n - next : member'[parked'[i]].pc = "parked"
    <3> SUFFICES ASSUME NEW i \in 1 .. n - next PROVE member'[rest[i + next]].pc = "parked"
      BY <2>1
    <3>1. /\ rest[i + next] \in Members \ gone /\ rest[i + next] \notin W
          /\ member[rest[i + next]].pc = "parked"
      BY <1>9, <1>14, <2>2
    <3> QED BY <1>11, <3>1
  <2>4. Distinct(parked')
    <3> SUFFICES ASSUME NEW i \in 1 .. n - next, NEW j \in 1 .. n - next,
                        rest[i + next] = rest[j + next]
                 PROVE  i = j
      BY <2>1 DEF Distinct
    <3>1. i + next = j + next
      BY <1>9, <2>2
    <3> QED BY <1>7, <3>1
  <2>5. permit' \in BOOLEAN
    BY <1>8
  <2> QED BY <2>1, <2>3, <2>4, <2>5 DEF ParkedFits, Parks
<1>18. ASSUME parked' # <<>> 
      PROVE  parked # <<>> /\ Cardinality(At("woken")') = Cardinality(At("woken"))
  <2>0. parked # <<>>
    <3>1. parked \in Seq(Members) /\ n = Cardinality(K)
      BY <1>2, <1>3, KeptFits DEF ParkedFits, Parks
    <3>2. n <= Len(parked)
      BY <1>3, <3>1, KeptFits
    <3>3. SubSeq(rest, next + 1, n) # <<>>
      BY <1>8, <1>18
    <3>4. n # 0
      BY <1>2, <1>3, <1>7, <3>3
    <3> QED BY <1>3, <3>1, <3>2, <3>4
  <2>1. next = held
    <3>1. next # n
      BY <1>2, <1>3, <1>8, <1>18
    <3> QED BY <1>3, <1>7, <3>1
  <2>2. At("woken")' = (At("woken") \ gone) \cup W
    <3>1. \A m \in Members : member'[m].pc = "woken" <=> m \in W \/ (m \notin gone /\ member[m].pc = "woken")
      BY <1>11, <1>12, <1>15
    <3> QED BY <1>12, <3>1 DEF At
  <2>3. (At("woken") \ gone) \cap W = {}
    BY <1>12 DEF At
  <2>4. /\ IsFiniteSet(At("woken") \ gone)
        /\ Cardinality(At("woken") \ gone) = Cardinality(At("woken")) - held
    <3>1. At("woken") \cap gone = gone \cap At("woken")
      OBVIOUS
    <3>2. IsFiniteSet(gone)
      BY MembersAssumption, FS_Subset
    <3> QED BY <1>4, <3>1, <3>2, AtFinite, FS_Difference
  <2>5. Cardinality(At("woken")') = Cardinality(At("woken") \ gone) + Cardinality(W)
    BY <1>13, <2>2, <2>3, <2>4, DisjointCount
  <2> QED BY <1>5, <1>13, <2>0, <2>1, <2>4, <2>5, AtFinite
<1> QED BY <1>16, <1>17, <1>18

----------------------------------------------------------------------------
(* Who is awake: a free slot is one a member that was woken may take; while *)
(* a member is told to wait and has not polled yet, a slot that comes free  *)
(* leaves it the permit.                                                    *)

Enough == FreeSlots <= Cardinality(At("woken"))

Awake ==
    /\ \A m, n \in At("told") : m = n
    /\ parked # <<>> /\ ~closed => Enough
    /\ At("told") # {} /\ ~closed /\ ~permit => Enough

Keeps == \A m \in Members : Settled(m) => Settled(m)'

\* The numbers the free slots are computed from are numbers.
LEMMA SlotsCount ==
    ASSUME Types
    PROVE  FreeSlots \in Int /\ Len(idle) \in Nat /\ live \in Int /\ MaxLive \in Int
BY LimitsAssumption DEF Types, FreeSlots

\* Nothing moved among those who wait, and no slot came free.
LEMMA StillAwake ==
    ASSUME Types, Types', Awake, closed => closed', UNCHANGED notify, FreeSlots' <= FreeSlots,
           At("told")' = At("told"), At("woken")' = At("woken")
    PROVE  Awake'
<1>1. Enough => Enough'
  <2>1. FreeSlots \in Int /\ FreeSlots' \in Int
    BY LimitsAssumption DEF Types, FreeSlots
  <2> QED BY <2>1, AtFinite DEF Enough
<1> QED BY <1>1 DEF Awake, notify

\* Nobody waits any more.
LEMMA NobodyWaits ==
    ASSUME parked' = <<>>, \A m \in Members : member'[m].pc # "told"
    PROVE  Awake'
BY DEF Awake, At

\* A pool that is closed has no slot to give.
LEMMA ClosedAwake ==
    ASSUME closed', \A m, n \in At("told")' : m = n
    PROVE  Awake'
BY DEF Awake

\* One slot comes free at most, and one member is told of it.
LEMMA OneAwake ==
    ASSUME Types, Types', ParkedFits, Awake, closed => closed',
           NEW STATE ms, ms \in MemberFn, Parks(ms), NotifyOne(ms), FreeSlots' <= FreeSlots + 1,
           \A m \in Members : ms[m].pc = "woken" <=> member[m].pc = "woken",
           \A m \in Members : ms[m].pc = "told" => member[m].pc = "told"
    PROVE  Awake'
<1>0. FreeSlots \in Int /\ FreeSlots' \in Int
  BY LimitsAssumption DEF Types, FreeSlots
<1>1. /\ \A m \in Members : \/ member'[m] = ms[m]
                            \/ ms[m].pc = "parked" /\ member'[m].pc = "woken"
      /\ \/ parked = <<>> /\ parked' = <<>> /\ permit' /\ member' = ms
         \/ /\ parked # <<>> /\ permit' = permit
            /\ \E h \in Members : /\ ms[h].pc = "parked" /\ member'[h].pc = "woken"
                                  /\ \A m \in Members \ {h} : member'[m] = ms[m]
  BY NotifyOneParks DEF ParkedFits
<1>2. At("told")' \subseteq At("told")
  BY <1>1 DEF At
<1>3. CASE parked = <<>>
  BY <1>1, <1>2, <1>3 DEF Awake
<1>4. CASE parked # <<>>
  <2>1. PICK h \in Members : /\ ms[h].pc = "parked" /\ member'[h].pc = "woken"
                             /\ \A m \in Members \ {h} : member'[m] = ms[m]
    BY <1>1, <1>4
  <2>2. At("woken")' = At("woken") \cup {h} /\ h \notin At("woken")
    BY <2>1 DEF At
  <2>3. Cardinality(At("woken")') = Cardinality(At("woken")) + 1
    BY <2>2, AtFinite, FS_AddElement
  <2>4. Enough => Enough'
    BY <1>0, <2>3, AtFinite DEF Enough
  <2> QED BY <1>1, <1>2, <1>4, <2>4 DEF Awake
<1> QED BY <1>3, <1>4

\* The list stays as it is if those who parked do.
LEMMA ParkedStay ==
    ASSUME ParkedFits, parked' = parked, permit' \in BOOLEAN,
           \A m \in Members : member[m].pc = "parked" => member'[m].pc = "parked"
    PROVE  ParkedFits'
<1>1. \A i \in DOMAIN parked : parked[i] \in Members
  BY DEF ParkedFits, Parks
<1> QED BY <1>1 DEF ParkedFits, Parks

\* One less is left of a sequence once its last is popped.
LEMMA PoppedLen ==
    ASSUME NEW S, NEW s \in Seq(S), s # <<>>
    PROVE  Len(SubSeq(s, 1, Len(s) - 1)) = Len(s) - 1
<1>1. Len(s) \in Nat \ {0}
  OBVIOUS
<1>2. PICK n \in Nat : n = Len(s) - 1 /\ n + 1 = Len(s)
  BY <1>1
<1>3. Len(SubSeq(s, 1, n)) = n
  BY <1>2
<1> QED BY <1>2, <1>3

\* A member that looks at the pool takes a slot, waits if there is none, or is
\* refused.
LEMMA InspectAwake ==
    ASSUME Types, Types', ParkedFits, Awake, NEW m \in Members, Inspect(m)
    PROVE  ParkedFits' /\ Awake' /\ Keeps
<1>0. /\ FreeSlots \in Int /\ FreeSlots' \in Int /\ Len(idle) \in Nat /\ live \in Int
      /\ MaxLive \in Int
  BY LimitsAssumption DEF Types, FreeSlots
<1>1. /\ member[m].pc \in {"asking", "woken"} /\ \A n \in Members : member[n].pc # "told"
      /\ UNCHANGED notify /\ closed' = closed
  BY DEF Inspect, Calm, At, Refused, Pop, CountCreation, ToldToWait, pool, notify
<1>2. \E pc \in {"failed", "holding", "creating", "told"} :
          /\ member'[m].pc = pc /\ \A n \in Members \ {m} : member'[n] = member[n]
          /\ pc \in {"holding", "creating"} => FreeSlots' = FreeSlots - 1
          /\ pc = "told" => FreeSlots' = FreeSlots /\ FreeSlots <= 0
          /\ pc = "failed" => closed
  <2>0. member \in MemberFn /\ DOMAIN member = Members
    BY DEF Types, MemberFn
  <2>1. CASE Refused(m)
    <3>1. member' = [member EXCEPT ![m] = Job("failed", None)] /\ closed
      BY <2>1 DEF Refused, Moved
    <3>2. Job("failed", None).pc = "failed"
      BY DEF Job
    <3> QED BY <2>0, <3>1, <3>2
  <2>2. CASE Pop(m)
    <3>1. PICK b : member' = [member EXCEPT ![m] = Job("holding", b)]
      BY <2>2 DEF Pop
    <3>2. Job("holding", b).pc = "holding"
      BY DEF Job
    <3>3. Len(idle') = Len(idle) - 1 /\ live' = live
      <4>1. /\ idle \in Seq(Boxes) /\ idle # <<>> /\ live' = live
            /\ idle' = SubSeq(idle, 1, Len(idle) - 1)
        BY <2>2 DEF Pop, Types
      <4> QED BY <4>1, PoppedLen
    <3>4. FreeSlots' = FreeSlots - 1
      BY <1>0, <3>3 DEF FreeSlots
    <3> QED BY <2>0, <3>1, <3>2, <3>4
  <2>3. CASE CountCreation(m)
    <3>1. member' = [member EXCEPT ![m] = Job("creating", None)] /\ idle' = idle /\ live' = live + 1
      BY <2>3 DEF CountCreation, Moved
    <3>2. Job("creating", None).pc = "creating"
      BY DEF Job
    <3>4. FreeSlots' = FreeSlots - 1
      BY <1>0, <3>1 DEF FreeSlots
    <3> QED BY <2>0, <3>1, <3>2, <3>4
  <2>4. CASE ToldToWait(m)
    <3>1. member' = [member EXCEPT ![m] = Job("told", None)] /\ idle' = idle /\ live' = live
      BY <2>4 DEF ToldToWait, Moved, pool
    <3>2. Job("told", None).pc = "told"
      BY DEF Job
    <3>3. idle = <<>> /\ ~(live < MaxLive)
      BY <2>4 DEF ToldToWait, HasRoom
    <3>4. FreeSlots' = FreeSlots /\ FreeSlots <= 0
      <4>1. Len(idle) = 0
        BY <3>3
      <4> QED BY <1>0, <3>1, <3>3, <4>1 DEF FreeSlots
    <3> QED BY <2>0, <3>1, <3>2, <3>4
  <2> QED BY <2>1, <2>2, <2>3, <2>4 DEF Inspect
<1>3. PICK pc \in {"failed", "holding", "creating", "told"} :
          /\ member'[m].pc = pc /\ \A n \in Members \ {m} : member'[n] = member[n]
          /\ pc \in {"holding", "creating"} => FreeSlots' = FreeSlots - 1
          /\ pc = "told" => FreeSlots' = FreeSlots /\ FreeSlots <= 0
          /\ pc = "failed" => closed
  BY <1>2
<1>4. ParkedFits'
  <2>1. parked' = parked /\ permit' \in BOOLEAN
    BY <1>1 DEF notify, ParkedFits
  <2> QED BY <1>1, <1>3, <2>1, ParkedStay
<1>5. Keeps
  BY <1>1, <1>3 DEF Keeps, Settled
<1>6. At("told")' \subseteq {m} /\ At("woken")' = At("woken") \ {m} /\ (At("told")' # {} => pc = "told")
  BY <1>1, <1>3 DEF At
<1>7. Cardinality(At("woken")') >= Cardinality(At("woken")) - 1
  <2>1. CASE m \in At("woken")
    BY <1>6, <2>1, AtFinite, FS_RemoveElement
  <2>2. CASE m \notin At("woken")
    <3>1. At("woken")' = At("woken")
      BY <1>6, <2>2
    <3> QED BY <3>1, AtFinite
  <2> QED BY <2>1, <2>2
<1>8. CASE pc \in {"holding", "creating"}
  <2>1. Enough => Enough'
    BY <1>0, <1>3, <1>7, <1>8, AtFinite DEF Enough
  <2> QED BY <1>1, <1>4, <1>5, <1>6, <1>8, <2>1 DEF Awake, notify
<1>9. CASE pc = "told"
  <2>1. Enough'
    BY <1>0, <1>3, <1>9, AtFinite DEF Enough
  <2> QED BY <1>4, <1>5, <1>6, <2>1 DEF Awake
<1>10. CASE pc = "failed"
  BY <1>1, <1>3, <1>4, <1>5, <1>6, <1>10 DEF Awake
<1> QED BY <1>3, <1>8, <1>9, <1>10

\* The first poll takes the permit or parks behind the others.
LEMMA PollAwake ==
    ASSUME Types, Types', ParkedFits, Awake, NEW m \in Members, Poll(m)
    PROVE  ParkedFits' /\ Awake' /\ Keeps
<1>0. /\ member \in MemberFn /\ DOMAIN member = Members /\ member[m].pc = "told"
      /\ closed' = closed /\ FreeSlots' = FreeSlots /\ permit' = FALSE /\ permit \in BOOLEAN
  BY DEF Poll, Types, MemberFn, FreeSlots, pool, ParkedFits
<1>1. \A n \in Members \ {m} : member[n].pc # "told"
  BY <1>0 DEF Awake, At
<1>2. CASE permit
  <2>1. member' = [member EXCEPT ![m] = Job("woken", None)] /\ parked' = parked
    BY <1>2 DEF Poll, Moved
  <2>2. member'[m].pc = "woken" /\ \A n \in Members \ {m} : member'[n] = member[n]
    <3>1. Job("woken", None).pc = "woken"
      BY DEF Job
    <3> QED BY <1>0, <2>1, <3>1
  <2>3. ParkedFits' /\ Keeps
    BY <1>0, <2>1, <2>2, ParkedStay DEF Keeps, Settled
  <2>4. At("told")' = {} /\ At("woken")' = At("woken") \cup {m} /\ m \notin At("woken")
    BY <1>0, <1>1, <2>2 DEF At
  <2>5. Enough => Enough'
    <3>1. Cardinality(At("woken")') = Cardinality(At("woken")) + 1
      BY <2>4, AtFinite, FS_AddElement
    <3> QED BY <1>0, <3>1, SlotsCount, AtFinite DEF Enough
  <2> QED BY <1>0, <2>1, <2>3, <2>4, <2>5 DEF Awake
<1>3. CASE ~permit
  <2>1. member' = [member EXCEPT ![m] = Job("parked", None)] /\ parked' = Append(parked, m)
    BY <1>3 DEF Poll, Moved
  <2>2. member'[m].pc = "parked" /\ \A n \in Members \ {m} : member'[n] = member[n]
    <3>1. Job("parked", None).pc = "parked"
      BY DEF Job
    <3> QED BY <1>0, <2>1, <3>1
  <2>3. m \notin Elems(parked) /\ parked \in Seq(Members) /\ Distinct(parked)
    BY <1>0 DEF ParkedFits, Parks, Elems
  <2>4. Elems(parked') = Elems(parked) \cup {m} /\ Distinct(parked') /\ parked' \in Seq(Members)
    BY <2>1, <2>3, Appended
  <2>5. \A n \in Elems(parked) : n \in Members \ {m} /\ member[n].pc = "parked"
    BY <1>0 DEF ParkedFits, Parks, Elems
  <2>6. \A i \in DOMAIN parked' : parked'[i] \in Elems(parked')
    BY DEF Elems
  <2>7. ParkedFits'
    <3>1. \A n \in Elems(parked') : member'[n].pc = "parked"
      BY <2>2, <2>4, <2>5
    <3>2. \A i \in DOMAIN parked' : member'[parked'[i]].pc = "parked"
      BY <2>6, <3>1
    <3>3. permit' \in BOOLEAN
      BY <1>0
    <3> QED BY <2>4, <3>2, <3>3 DEF ParkedFits, Parks
  <2>8. At("told")' = {} /\ At("woken")' = At("woken")
    BY <1>0, <1>1, <2>2 DEF At
  <2>9. ~closed => Enough'
    <3>1. At("told") # {}
      BY <1>0 DEF At
    <3>2. ~closed => Enough
      BY <1>3, <3>1 DEF Awake
    <3> QED BY <1>0, <2>8, <3>2 DEF Enough
  <2>10. Keeps
    BY <1>0, <2>2 DEF Keeps, Settled
  <2> QED BY <1>0, <2>7, <2>8, <2>9, <2>10 DEF Awake
<1> QED BY <1>0, <1>2, <1>3

\* A creation that ends, and a lease that is dropped.
LEMMA MemberAwake ==
    ASSUME Types, Types', ParkedFits, Awake, NEW m \in Members,
           Created(m) \/ CreateFails(m) \/ ReleaseLease(m)
    PROVE  ParkedFits' /\ Awake' /\ Keeps
<1>0. member \in MemberFn /\ DOMAIN member = Members
  BY DEF Types, MemberFn
<1>1. ASSUME UNCHANGED notify, closed' = closed, FreeSlots' = FreeSlots,
             member[m].pc \in {"creating", "holding"},
             NEW pc \in {"out", "holding"}, NEW b, member' = [member EXCEPT ![m] = Job(pc, b)]
      PROVE  ParkedFits' /\ Awake' /\ Keeps
  <2>1. member'[m].pc = pc /\ \A n \in Members \ {m} : member'[n] = member[n]
    <3>1. Job(pc, b).pc = pc
      BY DEF Job
    <3> QED BY <1>0, <1>1, <3>1
  <2>2. ParkedFits' /\ Keeps
    <3>1. parked' = parked /\ permit' \in BOOLEAN
      BY <1>1 DEF notify, ParkedFits
    <3> QED BY <1>1, <2>1, <3>1, ParkedStay DEF Keeps, Settled
  <2>3. At("told")' = At("told") /\ At("woken")' = At("woken")
    BY <1>1, <2>1 DEF At
  <2>4. FreeSlots' <= FreeSlots
    BY <1>1, SlotsCount
  <2> QED BY <1>1, <2>2, <2>3, <2>4, StillAwake
<1>2. CASE Created(m)
  <2>1. \E b : member' = [member EXCEPT ![m] = Job("holding", b)]
    BY <1>2 DEF Created
  <2>2. UNCHANGED notify /\ closed' = closed /\ FreeSlots' = FreeSlots /\ member[m].pc = "creating"
    BY <1>2 DEF Created, FreeSlots
  <2> QED BY <1>1, <2>1, <2>2
<1>3. CASE ReleaseLease(m)
  <2>1. member' = [member EXCEPT ![m] = Job("out", None)]
    BY <1>3 DEF ReleaseLease, Moved
  <2>2. UNCHANGED notify /\ closed' = closed /\ FreeSlots' = FreeSlots /\ member[m].pc = "holding"
    BY <1>3 DEF ReleaseLease, FreeSlots, pool
  <2> QED BY <1>1, <2>1, <2>2
<1>4. CASE CreateFails(m)
  <2>1. PICK ms \in MemberFn : ms = Moved(m, "failed")
    BY MovedFits DEF MemberPcs
  <2>2. ms[m].pc = "failed" /\ \A n \in Members \ {m} : ms[n] = member[n]
    <3>1. Job("failed", None).pc = "failed" /\ "failed" \in MemberPcs
      BY DEF Job, MemberPcs
    <3> QED BY <2>1, <3>1, MovedFits
  <2>3. /\ NotifyOne(ms) /\ live' = live - 1 /\ idle' = idle /\ closed' = closed
        /\ member[m].pc = "creating"
    BY <1>4, <2>1 DEF CreateFails
  <2>4. Parks(ms)
    <3>1. \A i \in DOMAIN parked : parked[i] \in Members
      BY DEF ParkedFits, Parks
    <3> QED BY <2>2, <2>3, <3>1 DEF ParkedFits, Parks
  <2>5. FreeSlots' = FreeSlots + 1
    BY <2>3, SlotsCount DEF FreeSlots
  <2>6. FreeSlots' <= FreeSlots + 1
    BY <2>5, SlotsCount
  <2>7. \A n \in Members : /\ ms[n].pc = "woken" <=> member[n].pc = "woken"
                           /\ ms[n].pc = "told" => member[n].pc = "told"
    BY <2>2, <2>3
  <2>8. Awake'
    BY <2>3, <2>4, <2>6, <2>7, OneAwake
  <2>9. /\ ParkedFits'
        /\ \A n \in Members : \/ member'[n] = ms[n]
                              \/ ms[n].pc = "parked" /\ member'[n].pc = "woken"
    BY <2>3, <2>4, NotifyOneParks DEF ParkedFits
  <2>10. Keeps
    BY <2>2, <2>9 DEF Keeps, Settled
  <2> QED BY <2>8, <2>9, <2>10
<1> QED BY <1>2, <1>3, <1>4

\* A deadline drops the acquisitions of a group.
LEMMA ExpireAwake ==
    ASSUME Types, Types', ParkedFits, Awake, NEW g \in Groups, Expire(g)
    PROVE  ParkedFits' /\ Awake' /\ \A m \in Members : Settled(m) \/ m \in g => Settled(m)'
<1>1. PICK gone \in SUBSET Members : gone = {m \in g : member[m].pc # "holding"}
  BY GroupsAssumption
<1>2. PICK ms : ms = [m \in Members |-> IF m \in gone THEN Job("out", None) ELSE member[m]]
  OBVIOUS
<1>3. /\ DropWaiters(gone, ms) /\ closed' = closed /\ FreeSlots' = FreeSlots
      /\ \A m \in Members : member[m].pc # "told"
  BY <1>1, <1>2 DEF Expire, pool, FreeSlots, Calm, At
<1>4. \A m \in Members : ms[m] = IF m \in gone THEN Job("out", None) ELSE member[m]
  BY <1>2
<1>5. /\ ParkedFits'
      /\ \A m \in Members : \/ member'[m] = ms[m]
                            \/ m \notin gone /\ member[m].pc = "parked" /\ member'[m].pc = "woken"
      /\ parked' # <<>> =>
            parked # <<>> /\ Cardinality(At("woken")') = Cardinality(At("woken"))
  BY <1>3, <1>4, DropWaitersParks
<1>6. Job("out", None).pc = "out"
  BY DEF Job
<1>7. \A m \in Members : member'[m].pc # "told"
  BY <1>3, <1>4, <1>5, <1>6
<1>8. \A m \in Members : Settled(m) \/ m \in g => Settled(m)'
  BY <1>1, <1>4, <1>5, <1>6 DEF Settled
<1>9. Awake'
  <2>1. CASE parked' = <<>>
    BY <1>7, <2>1, NobodyWaits
  <2>2. CASE parked' # <<>>
    <3>1. parked # <<>>
      BY <1>5, <2>2
    <3>2. Enough => Enough'
      BY <1>3, <1>5, <2>2 DEF Enough
    <3> QED BY <1>3, <1>7, <3>1, <3>2 DEF Awake, At
  <2> QED BY <2>1, <2>2
<1> QED BY <1>5, <1>8, <1>9

\* Beside the optimizer step no group resets, so nobody waits.
LEMMA NoneInTraining ==
    ASSUME ParkedFits, Stages, phase # "rollouts"
    PROVE  parked = <<>> /\ \A m \in Members : Settled(m)
<1>1. \A m \in Members : Settled(m)
  <2> SUFFICES ASSUME NEW m \in Members PROVE Settled(m)
    OBVIOUS
  <2>1. PICK g \in Groups : m \in g
    BY GroupsAssumption
  <2>2. group[g] # "resetting"
    BY DEF Stages
  <2> QED BY <2>1, <2>2 DEF Stages
<1>2. parked = <<>>
  <2> SUFFICES ASSUME parked # <<>> PROVE FALSE
    OBVIOUS
  <2>1. parked[1] \in Members /\ member[parked[1]].pc = "parked"
    BY DEF ParkedFits, Parks
  <2> QED BY <1>1, <2>1 DEF Settled
<1> QED BY <1>1, <1>2

\* A step of the pool itself, that tells one member of the slot it frees.
LEMMA TellsOne ==
    ASSUME Types, Types', ParkedFits, Awake, closed => closed', FreeSlots' <= FreeSlots + 1,
           NotifyOne(member)
    PROVE  ParkedFits' /\ Awake' /\ Keeps
<1>1. member \in MemberFn /\ Parks(member) /\ permit \in BOOLEAN
  BY DEF Types, ParkedFits
<1>2. Awake'
  BY <1>1, OneAwake
<1>3. /\ ParkedFits'
      /\ \A m \in Members : \/ member'[m] = member[m]
                            \/ member[m].pc = "parked" /\ member'[m].pc = "woken"
  BY <1>1, NotifyOneParks
<1> QED BY <1>2, <1>3 DEF Keeps, Settled

\* One that tells everyone.
LEMMA TellsAll ==
    ASSUME ParkedFits, NotifyWaiters
    PROVE  ParkedFits' /\ Awake' /\ Keeps
<1>1. /\ ParkedFits' /\ parked' = <<>>
      /\ \A m \in Members : \/ member'[m] = member[m] /\ ~Waits(m)
                            \/ Waits(m) /\ member'[m].pc = "woken"
  BY NotifyWaitersParks DEF ParkedFits
<1>2. \A m \in Members : member'[m].pc # "told"
  BY <1>1 DEF Waits
<1> QED BY <1>1, <1>2, NobodyWaits DEF Keeps, Settled, Waits

\* One that tells nobody, and frees no slot of an open pool.
LEMMA TellsNone ==
    ASSUME Types, Types', ParkedFits, Awake, UNCHANGED <<notify, member>>, closed => closed',
           closed' \/ FreeSlots' <= FreeSlots
    PROVE  ParkedFits' /\ Awake' /\ Keeps
<1>1. ParkedFits' /\ Keeps
  BY DEF ParkedFits, Parks, Keeps, Settled, notify
<1>2. At("told")' = At("told") /\ At("woken")' = At("woken")
  BY DEF At
<1>3. Awake'
  <2>1. CASE closed'
    BY <1>2, <2>1, ClosedAwake DEF Awake
  <2>2. CASE FreeSlots' <= FreeSlots
    BY <1>2, <2>2, StillAwake
  <2> QED BY <2>1, <2>2
<1> QED BY <1>1, <1>3

\* The janitor, which frees a slot when it destroys a container, wakes one for it.
LEMMA JanitorAwake ==
    ASSUME Types, Types', ParkedFits, Awake, JanitorStep PROVE ParkedFits' /\ Awake' /\ Keeps
<1>0. FreeSlots \in Int /\ Len(idle) \in Nat /\ live \in Int /\ MaxLive \in Int
  BY SlotsCount
<1>1. CASE Reclaim \/ RecycleFails
  <2>1. UNCHANGED <<notify, member, closed, idle, live>>
    BY <1>1 DEF Reclaim, RecycleFails, pool
  <2>2. FreeSlots' <= FreeSlots
    BY <1>0, <2>1 DEF FreeSlots
  <2> QED BY <2>1, <2>2, TellsNone
<1>2. CASE Recycled
  <2>1. NotifyOne(member) /\ closed' = closed /\ live' = live /\ idle' = Append(idle, janitor.box)
    BY <1>2 DEF Recycled
  <2>2. Len(idle') = Len(idle) + 1
    BY <2>1 DEF Types
  <2>3. FreeSlots' <= FreeSlots + 1
    BY <1>0, <2>1, <2>2 DEF FreeSlots
  <2> QED BY <2>1, <2>3, TellsOne
<1>3. CASE Destroyed
  <2>1. NotifyOne(member) /\ closed' = closed /\ live' = live - 1 /\ idle' = idle
    BY <1>3 DEF Destroyed
  <2>2. FreeSlots' <= FreeSlots + 1
    BY <1>0, <2>1 DEF FreeSlots
  <2> QED BY <2>1, <2>2, TellsOne
<1> QED BY <1>1, <1>2, <1>3 DEF JanitorStep

\* The warm-up runs in training, when every member is settled: nobody waits for what it
\* takes or leaves.
LEMMA WarmAwake ==
    ASSUME Types, Types', Phases, Stages, ParkedFits, Awake, WarmStep
    PROVE  ParkedFits' /\ Awake' /\ Keeps
<1>1. phase = "training"
  <2>1. Off.pc = "off"
    BY DEF Off, Job
  <2> QED BY <2>1 DEF Phases, WarmStep, WarmCounts, WarmKept, WarmTooLate, WarmBuries, WarmFails
<1>2. parked = <<>> /\ \A m \in Members : Settled(m)
  BY <1>1, NoneInTraining
<1>3. CASE WarmBuries
  BY <1>3, TellsAll DEF WarmBuries
<1>4. CASE WarmCounts \/ WarmKept \/ WarmTooLate \/ WarmFails
  <2>1. member' = member /\ parked' = parked /\ permit' \in BOOLEAN
    BY <1>2, <1>4 DEF WarmCounts, WarmKept, WarmTooLate, WarmFails, NotifyOne, notify, ParkedFits
  <2>2. ParkedFits' /\ Keeps
    BY <2>1, ParkedStay DEF Keeps, Settled
  <2>3. Awake'
    BY <1>2, <2>1, NobodyWaits DEF Settled
  <2> QED BY <2>2, <2>3
<1> QED BY <1>3, <1>4 DEF WarmStep

\* The loop, the groups, the shutdown and the sweep free no slot of an open pool, and what
\* closes the pool wakes all.
LEMMA RestAwake ==
    ASSUME Types, Types', Phases, ParkedFits, Awake,
           \/ LoopStep \/ CloserStep \/ ForceCloses \/ Sweep
           \/ \E g \in Groups : GroupActs(g) \/ GroupCloses(g) \/ GroupEnds(g)
           \/ UNCHANGED vars
    PROVE  ParkedFits' /\ Awake' /\ Keeps
<1>1. CASE ShutdownNotifies \/ ForceCloses
  BY <1>1, TellsAll DEF ShutdownNotifies, ForceCloses
<1>2. CASE Shutdown \/ ShutdownBuries
  <2>1. UNCHANGED <<notify, member>> /\ closed'
    BY <1>2 DEF Shutdown, ShutdownBuries, Phases
  <2> QED BY <2>1, TellsNone
<1>3. CASE \/ LoopStep \/ Drained \/ GivesUp \/ Sweep
           \/ \E g \in Groups : GroupActs(g) \/ GroupCloses(g) \/ GroupEnds(g)
           \/ UNCHANGED vars
  <2>1. UNCHANGED <<notify, member, idle, live, closed>>
    BY <1>3 DEF LoopStep, TrainStarts, NextUpdate, RunOver, Drained, GivesUp, Sweep, GroupActs,
       GroupCloses, GroupEnds, vars, pool
  <2>2. FreeSlots' <= FreeSlots
    BY <2>1, SlotsCount DEF FreeSlots
  <2> QED BY <2>1, <2>2, TellsNone
<1> QED BY <1>1, <1>2, <1>3 DEF CloserStep

\* The members of a group that starts were settled: none of them was awake.
LEMMA ResetsAwake ==
    ASSUME Types, Types', Stages, ParkedFits, Awake, NEW g \in Groups, GroupResets(g)
    PROVE  ParkedFits' /\ Awake'
<1>1. /\ UNCHANGED <<pool, notify>> /\ g \subseteq Members /\ \A m \in g : Settled(m)
      /\ member' = [m \in Members |-> IF m \in g THEN Job("asking", None) ELSE member[m]]
  BY GroupsAssumption DEF GroupResets, Stages
<1>2. Job("asking", None).pc = "asking"
  BY DEF Job
<1>3. \A m \in Members : \/ member'[m] = member[m]
                         \/ Settled(m) /\ member'[m].pc = "asking"
  BY <1>1, <1>2
<1>4. ParkedFits'
  <2>1. parked' = parked /\ permit' \in BOOLEAN
    BY <1>1 DEF notify, ParkedFits
  <2> QED BY <1>3, <2>1, ParkedStay DEF Settled
<1>5. At("told")' = At("told") /\ At("woken")' = At("woken")
  BY <1>3 DEF At, Settled
<1>6. FreeSlots' <= FreeSlots /\ closed' = closed
  BY <1>1, SlotsCount DEF FreeSlots, pool
<1> QED BY <1>1, <1>4, <1>5, <1>6, StillAwake

\* The groups go through their rollout, and only one that resets has members
\* to serve.
LEMMA StagesStep ==
    ASSUME Types, Types', Phases, Stages, ParkedFits, Awake, [Next]_vars PROVE Stages'
<1> DEFINE Names == {"fresh", "resetting", "acting", "closing", "done"}
<1>1. ASSUME UNCHANGED <<group, phase>>, Keeps PROVE Stages'
  <2>1. \A g \in Groups : g \subseteq Members
    BY GroupsAssumption
  <2> QED BY <1>1, <2>1 DEF Stages, Keeps
<1>2. ASSUME NEW m \in Members, AcquireStep(m) \/ ReleaseLease(m) PROVE Stages'
  <2>1. Keeps
    BY <1>2, InspectAwake, PollAwake, MemberAwake DEF AcquireStep
  <2>2. UNCHANGED <<group, phase>>
    BY <1>2 DEF AcquireStep, Inspect, Poll, Created, CreateFails, ReleaseLease, loop
  <2> QED BY <1>1, <2>1, <2>2
<1>3. ASSUME NEW g \in Groups, NEW s \in Names, group' = [group EXCEPT ![g] = s], phase' = phase,
             s # "resetting" => \A m \in g : Settled(m)',
             \A h \in Groups : group[h] # "resetting" /\ h # g => \A m \in h : Settled(m) => Settled(m)',
             phase # "rollouts" => s = "done"
      PROVE  Stages'
  <2>1. DOMAIN group = Groups /\ \A h \in Groups : group[h] \in Names
    BY DEF Stages
  <2>2. \A h \in Groups : group'[h] = IF h = g THEN s ELSE group[h]
    BY <1>3, <2>1
  <2>3. group' \in [Groups -> Names]
    BY <1>3 DEF Stages
  <2>4. ASSUME NEW h \in Groups, group'[h] # "resetting", NEW m \in h PROVE Settled(m)'
    <3>1. CASE h = g
      BY <1>3, <2>2, <2>4, <3>1
    <3>2. CASE h # g
      BY <1>3, <2>2, <2>4, <3>2 DEF Stages
    <3> QED BY <3>1, <3>2
  <2>5. phase' # "rollouts" => \A h \in Groups : group'[h] \in {"fresh", "done"}
    BY <1>3, <2>2 DEF Stages
  <2> QED BY <2>3, <2>4, <2>5 DEF Stages
<1>4. ASSUME NEW g \in Groups, GroupResets(g) PROVE Stages'
  <2>1. /\ group' = [group EXCEPT ![g] = "resetting"] /\ phase' = phase /\ phase = "rollouts"
        /\ member' = [m \in Members |-> IF m \in g THEN Job("asking", None) ELSE member[m]]
    BY <1>4 DEF GroupResets
  <2>2. \A h \in Groups : h \subseteq Members /\ (h # g => h \cap g = {})
    BY GroupsAssumption
  <2>3. \A h \in Groups : h # g => \A m \in h : Settled(m) => Settled(m)'
    <3> SUFFICES ASSUME NEW h \in Groups, h # g, NEW m \in h, Settled(m) PROVE Settled(m)'
      OBVIOUS
    <3>1. m \in Members /\ m \notin g
      BY <2>2
    <3>2. member'[m] = member[m]
      BY <2>1, <3>1
    <3> QED BY <3>2 DEF Settled
  <2> QED BY <1>3, <2>1, <2>3
<1>5. ASSUME NEW g \in Groups, GroupActs(g) \/ GroupCloses(g) \/ GroupEnds(g) PROVE Stages'
  <2>1. member' = member /\ phase' = phase /\ group[g] \in {"resetting", "acting", "closing"}
    BY <1>5 DEF GroupActs, GroupCloses, GroupEnds
  <2>2. \E s \in Names \ {"resetting", "fresh"} : group' = [group EXCEPT ![g] = s]
    BY <1>5 DEF GroupActs, GroupCloses, GroupEnds
  <2>3. phase = "rollouts"
    BY <2>1 DEF Stages
  <2>4. \A m \in g : Settled(m)
    <3>1. CASE GroupActs(g)
      BY <3>1 DEF GroupActs, Settled
    <3>2. CASE GroupCloses(g) \/ GroupEnds(g)
      BY <3>2 DEF GroupCloses, GroupEnds, Stages
    <3> QED BY <1>5, <3>1, <3>2
  <2> QED BY <1>3, <2>1, <2>2, <2>3, <2>4 DEF Settled
<1>6. ASSUME NEW g \in Groups, Expire(g) PROVE Stages'
  <2>1. /\ group' = [group EXCEPT ![g] = "closing"] /\ phase' = phase
        /\ group[g] = "resetting"
    BY <1>6 DEF Expire
  <2>2. phase = "rollouts" /\ \A h \in Groups : h \subseteq Members
    BY <2>1, GroupsAssumption DEF Stages
  <2>3. \A m \in Members : Settled(m) \/ m \in g => Settled(m)'
    BY <1>6, ExpireAwake
  <2> QED BY <1>3, <2>1, <2>2, <2>3
<1>7. CASE JanitorStep \/ WarmStep \/ CloserStep \/ ForceCloses \/ Sweep \/ UNCHANGED vars
  <2>1. Keeps
    BY <1>7, JanitorAwake, WarmAwake, RestAwake
  <2>2. UNCHANGED <<group, phase>>
    BY <1>7 DEF JanitorStep, Reclaim, Recycled, RecycleFails, Destroyed, WarmStep, WarmCounts, WarmKept,
       WarmTooLate, WarmBuries, WarmFails, CloserStep, Shutdown, ShutdownBuries, ShutdownNotifies,
       Drained, GivesUp, ForceCloses, Sweep, vars, loop
  <2> QED BY <1>1, <2>1, <2>2
<1>8. CASE LoopStep
  <2>1. Keeps
    BY <1>8, RestAwake
  <2>2. /\ group' \in [Groups -> Names] /\ \A g \in Groups : group'[g] = "resetting" => group[g] = "resetting"
        /\ phase' # "rollouts" => \A g \in Groups : group'[g] \in {"fresh", "done"}
    BY <1>8 DEF LoopStep, TrainStarts, NextUpdate, RunOver, Idling, Stages
  <2>3. ASSUME NEW g \in Groups, group'[g] # "resetting", NEW m \in g PROVE Settled(m)'
    <3>1. group[g] # "resetting"
      BY <1>8, <2>3 DEF LoopStep, TrainStarts, NextUpdate, RunOver, Idling, Stages
    <3>2. m \in Members /\ Settled(m)
      BY <3>1, GroupsAssumption DEF Stages
    <3> QED BY <2>1, <3>2 DEF Keeps
  <2> QED BY <2>2, <2>3 DEF Stages
<1> QED BY <1>2, <1>4, <1>5, <1>6, <1>7, <1>8 DEF Next, GroupStep

\* No step frees more slots than it wakes waiters while somebody is parked.
LEMMA AwakeStep ==
    ASSUME Types, Types', Phases, Stages, ParkedFits, Awake, [Next]_vars
    PROVE  ParkedFits' /\ Awake'
<1>1. ASSUME NEW m \in Members, AcquireStep(m) \/ ReleaseLease(m) PROVE ParkedFits' /\ Awake'
  BY <1>1, InspectAwake, PollAwake, MemberAwake DEF AcquireStep
<1>2. ASSUME NEW g \in Groups, GroupResets(g) \/ Expire(g) PROVE ParkedFits' /\ Awake'
  BY <1>2, ResetsAwake, ExpireAwake
<1>3. CASE JanitorStep \/ WarmStep
  BY <1>3, JanitorAwake, WarmAwake
<1> QED BY <1>1, <1>2, <1>3, RestAwake DEF Next, GroupStep

\* So the free slots never outnumber those awake, in any state.
LEMMA AwakeHolds == Spec => [](Stages /\ ParkedFits /\ Awake)
<1>1. Init => Stages /\ ParkedFits /\ Awake
  <2> SUFFICES ASSUME Init PROVE Stages /\ ParkedFits /\ Awake
    OBVIOUS
  <2>1. \A m \in Members : member[m].pc = "out"
    BY DEF Init, Job
  <2>2. Stages
    BY <2>1, GroupsAssumption DEF Init, Stages, Settled
  <2>3. parked = <<>> /\ permit = FALSE
    BY DEF Init
  <2>4. ParkedFits
    <3>1. \A S : <<>> \in Seq(S)
      OBVIOUS
    <3>2. parked \in Seq(Members)
      BY <2>3, <3>1
    <3>3. Distinct(parked) /\ DOMAIN parked = {}
      BY <2>3, NoElems
    <3> QED BY <2>3, <3>2, <3>3 DEF ParkedFits, Parks
  <2>5. Awake
    BY <2>1, <2>3 DEF Awake, At
  <2> QED BY <2>2, <2>4, <2>5
<1> QED BY <1>1, StagesStep, AwakeStep, TypesHold, PhasesHold, PTL DEF Spec

----------------------------------------------------------------------------
(* How often a container was lent: one more lease is left to any that is    *)
(* idle, or on its way to be.                                               *)

UsesFit ==
    /\ uses \in [Boxes -> 0 .. MaxLeases]
    /\ \A b \in Elems(idle) : uses[b] < MaxLeases
    /\ janitor.pc = "recycling" => uses[janitor.box] < MaxLeases

Names ==
    /\ update \in 1 .. Updates
    /\ phase \in {"rollouts", "training", "over"}
    /\ phase = "training" => update < Updates
    /\ forced \in {"off", "sweeping", "swept"}

\* A container is handed out to be lent once more than it was.
LEMMA UsesStep ==
    ASSUME Types, Types', Places, UsesFit, [Next]_vars PROVE UsesFit'
<1>0. MaxLeases \in Nat /\ MaxLeases >= 1
  BY LimitsAssumption
<1>a. Elems(idle) \subseteq Boxes /\ (janitor.pc = "recycling" => janitor.box \in Boxes)
  BY DEF Types, Elems
<1>1. ASSUME uses' = uses, Elems(idle)' \subseteq Elems(idle),
             janitor'.pc = "recycling" => janitor' = janitor
      PROVE  UsesFit'
  BY <1>1 DEF UsesFit
<1>2. ASSUME NEW m \in Members, Takes(m) PROVE UsesFit'
  <2>1. CASE Inspect(m) /\ Pop(m)
    <3> DEFINE b == idle[Len(idle)]
    <3>1. /\ Elems(idle') = Elems(idle) \ {b} /\ b \in Elems(idle) /\ b \in Boxes
      BY <2>1, Popped DEF Pop, Types, Places
    <3>2. uses' = [uses EXCEPT ![b] = uses[b] + 1] /\ janitor' = janitor
      BY <2>1 DEF Inspect, Pop, HandOut
    <3> HIDE DEF b
    <3>3. uses[b] + 1 \in 0 .. MaxLeases
      BY <1>0, <3>1 DEF UsesFit
    <3>4. uses' \in [Boxes -> 0 .. MaxLeases] /\ \A c \in Boxes \ {b} : uses'[c] = uses[c]
      BY <3>1, <3>2, <3>3 DEF UsesFit
    <3>5. janitor.box # b
      BY <3>1 DEF Places
    <3> QED BY <1>a, <3>1, <3>2, <3>4, <3>5 DEF UsesFit
  <2>2. CASE Created(m)
    <3>1. PICK b \in Fresh : uses' = [uses EXCEPT ![b] = 1]
      BY <2>2 DEF Created, HandOut
    <3>2. /\ b \in Boxes /\ b \notin Elems(idle) /\ b # janitor.box
      BY FreshFits
    <3>3. idle' = idle /\ janitor' = janitor
      BY <2>2 DEF Created
    <3>4. uses' \in [Boxes -> 0 .. MaxLeases] /\ \A c \in Boxes \ {b} : uses'[c] = uses[c]
      BY <1>0, <3>1, <3>2 DEF UsesFit
    <3> QED BY <1>a, <3>2, <3>3, <3>4 DEF UsesFit
  <2>3. CASE Inspect(m) /\ CountCreation(m)
    BY <1>1, <2>3 DEF Inspect, CountCreation, engine
  <2> QED BY <1>2, <2>1, <2>2, <2>3 DEF Takes
<1>3. CASE Reclaim
  <2>1. /\ idle' = idle /\ uses' = uses
        /\ janitor' = Job(IF Reusable(Head(returns)) THEN "recycling" ELSE "destroying", Head(returns).box)
    BY <1>3 DEF Reclaim, engine
  <2>2. janitor'.pc = "recycling" => uses[janitor'.box] < MaxLeases
    BY <2>1 DEF Job, Reusable
  <2> QED BY <2>1, <2>2 DEF UsesFit
<1>4. CASE Recycled
  <2>1. janitor.box \in Boxes /\ janitor.pc = "recycling"
    BY <1>4 DEF Recycled, Types
  <2>2. /\ Elems(idle') = Elems(idle) \cup {janitor.box}
    BY <1>4, <2>1, Appended DEF Recycled, Types
  <2>3. uses' = uses /\ janitor'.pc = "off"
    BY <1>4 DEF Recycled, Off, Job
  <2> QED BY <2>1, <2>2, <2>3 DEF UsesFit
<1>5. CASE RecycleFails \/ Destroyed
  <2>1. janitor'.pc # "recycling"
    BY <1>5 DEF RecycleFails, Destroyed, Off, Job
  <2> QED BY <1>1, <1>5, <2>1 DEF RecycleFails, Destroyed, pool, engine
<1>6. CASE WarmKept
  <2>1. PICK b \in Fresh : idle' = Append(idle, b) /\ uses' = [uses EXCEPT ![b] = 0]
    BY <1>6 DEF WarmKept
  <2>2. /\ b \in Boxes /\ b \notin Elems(idle) /\ b # janitor.box
    BY FreshFits
  <2>3. Elems(idle') = Elems(idle) \cup {b} /\ janitor' = janitor
    BY <1>6, <2>1, <2>2, Appended DEF WarmKept, Types
  <2>4. /\ uses' \in [Boxes -> 0 .. MaxLeases] /\ uses'[b] = 0
        /\ \A c \in Boxes \ {b} : uses'[c] = uses[c]
    BY <1>0, <2>1, <2>2 DEF UsesFit
  <2> QED BY <1>0, <1>a, <2>2, <2>3, <2>4 DEF UsesFit
<1>7. CASE Shutdown
  <2>1. idle' = <<>> /\ uses' = uses /\ janitor' = janitor
    BY <1>7 DEF Shutdown, engine
  <2> QED BY <1>1, <2>1, NoElems
<1>8. CASE UNCHANGED <<idle, uses, janitor>>
  BY <1>1, <1>8 DEF Elems
<1>9. \/ \E m \in Members : Takes(m)
      \/ JanitorStep \/ WarmKept \/ Shutdown
      \/ UNCHANGED <<idle, uses, janitor>>
  BY DEF Next, vars, AcquireStep, Inspect, Takes, Refused, ToldToWait, Poll, CreateFails,
     ReleaseLease, GroupStep, GroupResets, GroupActs, GroupCloses, GroupEnds, Expire,
     WarmStep, WarmCounts, WarmTooLate, WarmBuries, WarmFails, LoopStep, TrainStarts, NextUpdate, RunOver,
     CloserStep, ShutdownBuries, ShutdownNotifies, Drained, GivesUp, ForceCloses, Sweep, CreationLeaves, pool, engine
<1> QED BY <1>2, <1>3, <1>4, <1>5, <1>6, <1>7, <1>8, <1>9 DEF JanitorStep

\* The update, the phase and the sweep stay within their ranges.
LEMMA NamesStep == ASSUME Names, [Next]_vars PROVE Names'
<1>1. Updates \in Nat
  BY UpdatesAssumption
<1>2. CASE LoopStep
  BY <1>1, <1>2 DEF LoopStep, TrainStarts, NextUpdate, RunOver, Names
<1>3. CASE ForceCloses \/ Sweep
  BY <1>3 DEF ForceCloses, Sweep, Names, loop
<1>4. CASE UNCHANGED <<phase, update, forced>>
  BY <1>4 DEF Names
<1>5. LoopStep \/ ForceCloses \/ Sweep \/ UNCHANGED <<phase, update, forced>>
  BY DEF Next, vars, AcquireStep, Inspect, Poll, Created, CreateFails,
     ReleaseLease, GroupStep, GroupResets, GroupActs, GroupCloses, GroupEnds, Expire, JanitorStep, Reclaim,
     Recycled, RecycleFails, Destroyed, WarmStep, WarmCounts, WarmKept, WarmTooLate, WarmBuries, WarmFails,
     CloserStep, Shutdown, ShutdownBuries, ShutdownNotifies, Drained, GivesUp, loop
<1> QED BY <1>2, <1>3, <1>4, <1>5

\* No container is leased more than MaxLeases times, and an idle one has a lease left.
LEMMA UsesHold == Spec => [](UsesFit /\ Names)
<1>1. Init => UsesFit /\ Names
  <2> SUFFICES ASSUME Init PROVE UsesFit /\ Names
    OBVIOUS
  <2>1. /\ uses = [b \in Boxes |-> 0] /\ idle = <<>> /\ janitor.pc = "off" /\ update = 1
        /\ phase = "rollouts" /\ forced = "off"
    BY DEF Init, Off, Job
  <2>2. Elems(idle) = {} /\ MaxLeases \in Nat /\ Updates \in Nat \ {0}
    BY <2>1, NoElems, LimitsAssumption, UpdatesAssumption
  <2>3. Names
    BY <2>1, <2>2 DEF Names
  <2>4. UsesFit
    BY <2>1, <2>2 DEF UsesFit
  <2> QED BY <2>3, <2>4
<1> QED BY <1>1, UsesStep, NamesStep, PlacesHold, PTL DEF Spec

----------------------------------------------------------------------------
(* The slots one by one, where no deadline drops a creation.                *)

Busy == IF janitor = Off THEN 0 ELSE 1

\* What every part of the sum is.
LEMMA PartsFit ==
    ASSUME Types
    PROVE  /\ Len(idle) \in Nat /\ Len(closer.taken) \in Nat /\ live \in Int
           /\ IsFiniteSet(leased) /\ Cardinality(leased) \in Nat
           /\ WarmMakes \in Nat /\ Busy \in Nat
           /\ (janitor = Off <=> janitor.pc = "off")
<1>1. IsFiniteSet(leased) /\ Cardinality(leased) \in Nat
  BY BoxesAssumption, FS_Subset, FS_CardinalityType DEF Types
<1>2. closer.taken \in Seq(Boxes)
  BY DEF Types
<1>3. janitor = Off <=> janitor.pc = "off"
  BY DEF Types, Off, Job
<1> QED BY <1>1, <1>2, <1>3 DEF Types, WarmMakes, Busy

SumFits ==
    /\ closer.pc # "burying" => closer.taken = <<>>
    /\ live = Len(idle) + Cardinality(leased) + Cardinality(Makers) + WarmMakes
                + Len(closer.taken) + Busy

\* The members that create stay the same when no member leaves or comes to it.
LEMMA MakersStay ==
    ASSUME \A m \in Members : member'[m].pc = "creating" <=> member[m].pc = "creating"
    PROVE  Makers' = Makers
BY DEF Makers, At

\* A wake-up takes nobody from a creation.
LEMMA WokenMakers ==
    ASSUME Types, ParkedFits, NotifyOne(member) \/ NotifyWaiters \/ member' = member
    PROVE  Makers' = Makers
<1>1. CASE NotifyOne(member)
  <2>1. member \in MemberFn /\ Parks(member) /\ permit \in BOOLEAN
    BY DEF Types, ParkedFits
  <2>2. \A m \in Members : \/ member'[m] = member[m]
                           \/ member[m].pc = "parked" /\ member'[m].pc = "woken"
    BY <1>1, <2>1, NotifyOneParks
  <2> QED BY <2>2, MakersStay
<1>2. CASE NotifyWaiters
  <2>1. \A m \in Members : \/ member'[m] = member[m]
                           \/ Waits(m) /\ member'[m].pc = "woken"
    BY <1>2, NotifyWaitersParks DEF ParkedFits
  <2> QED BY <2>1, MakersStay DEF Waits
<1>3. CASE member' = member
  BY <1>3, MakersStay
<1> QED BY <1>1, <1>2, <1>3

\* What the members do with the slots.
LEMMA MembersSum ==
    ASSUME Types, Types', Places, Leases, ParkedFits, SumFits, NEW m \in Members,
           AcquireStep(m) \/ ReleaseLease(m)
    PROVE  SumFits'
<1>0. member \in MemberFn /\ DOMAIN member = Members
  BY DEF Types, MemberFn
<1>1. PICK x \in Nat : x = Cardinality(Makers)
  BY FiniteMakers
<1>2. PICK y \in Nat : y = Cardinality(leased)
  BY PartsFit
<1>a. PICK z \in Nat : z = Len(idle)
  BY PartsFit
<1>b. PICK w \in Nat : w = WarmMakes
  BY PartsFit
<1>c. PICK t \in Nat : t = Len(closer.taken)
  BY PartsFit
<1>d. PICK u \in Nat : u = Busy
  BY PartsFit
<1>3. live = z + y + x + w + t + u
  BY <1>1, <1>2, <1>a, <1>b, <1>c, <1>d DEF SumFits
<1>4. Busy' = Busy /\ WarmMakes' = WarmMakes /\ closer' = closer
  BY DEF Busy, WarmMakes, AcquireStep, Inspect, Poll, Created, CreateFails, ReleaseLease
<1>5. ASSUME \A n \in Members \ {m} : member'[n] = member[n]
      PROVE  /\ member'[m].pc = "creating" => Makers' = Makers \cup {m}
             /\ member'[m].pc # "creating" => Makers' = Makers \ {m}
  BY <1>5 DEF Makers, At
<1>6. ASSUME live' = Len(idle') + Cardinality(leased') + Cardinality(Makers') + w + t + u
      PROVE  SumFits'
  BY <1>4, <1>6, <1>b, <1>c, <1>d DEF SumFits
<1>7. ASSUME NEW pc, NEW b, member' = [member EXCEPT ![m] = Job(pc, b)]
      PROVE  member'[m].pc = pc /\ \A n \in Members \ {m} : member'[n] = member[n]
  BY <1>0, <1>7 DEF Job
<1>8. CASE Inspect(m) /\ Pop(m)
  <2> DEFINE b == idle[Len(idle)]
  <2>1. b \in Elems(idle) /\ b \notin leased
    BY <1>8, Popped DEF Pop, Types, Places
  <2>2. member' = [member EXCEPT ![m] = Job("holding", b)]
    BY <1>8 DEF Pop
  <2>3. live' = live /\ leased' = leased \cup {b} /\ m \notin Makers
    BY <1>8 DEF Inspect, Pop, HandOut, Makers, At
  <2>4. idle # <<>> /\ idle' = SubSeq(idle, 1, Len(idle) - 1)
    BY <1>8 DEF Pop
  <2> HIDE DEF b
  <2>5. Makers' = Makers
    <3>1. member'[m].pc = "holding" /\ \A n \in Members \ {m} : member'[n] = member[n]
      BY <1>7, <2>2
    <3> QED BY <1>5, <2>3, <3>1
  <2>6. Cardinality(leased') = y + 1
    BY <1>2, <2>1, <2>3, PartsFit, FS_AddElement
  <2>7. Len(idle') = z - 1
    BY <1>a, <2>4, PoppedLen DEF Types
  <2>8. Cardinality(Makers') = x /\ live' = live
    BY <1>1, <2>3, <2>5
  <2> QED BY <1>3, <1>6, <2>6, <2>7, <2>8
<1>9. CASE Inspect(m) /\ CountCreation(m)
  <2>1. member' = [member EXCEPT ![m] = Job("creating", None)]
    BY <1>9 DEF CountCreation, Moved
  <2>2. leased' = leased /\ live' = live + 1 /\ idle' = idle /\ m \notin Makers
    BY <1>9 DEF Inspect, CountCreation, engine, Makers, At
  <2>3. Makers' = Makers \cup {m}
    BY <1>5, <1>7, <2>1
  <2>4. Cardinality(Makers') = x + 1
    BY <1>1, <2>2, <2>3, FiniteMakers, FS_AddElement
  <2>5. Cardinality(leased') = y /\ Len(idle') = z
    BY <1>a, <1>2, <2>2
  <2> QED BY <1>3, <1>6, <2>2, <2>4, <2>5
<1>10. CASE Created(m)
  <2>1. PICK b \in Fresh : /\ leased' = leased \cup {b}
                           /\ member' = [member EXCEPT ![m] = Job("holding", b)]
    BY <1>10 DEF Created, HandOut
  <2>2. idle' = idle /\ live' = live /\ m \in Makers /\ b \notin leased
    BY <1>10, FreshFits DEF Created, Makers, At
  <2>3. Makers' = Makers \ {m}
    <3>1. member'[m].pc = "holding" /\ \A n \in Members \ {m} : member'[n] = member[n]
      BY <1>7, <2>1
    <3> QED BY <1>5, <3>1
  <2>4. Cardinality(Makers') = x - 1 /\ Cardinality(leased') = y + 1
    BY <1>1, <1>2, <2>1, <2>2, <2>3, FiniteMakers, PartsFit, FS_AddElement, FS_RemoveElement
  <2>5. Len(idle') = z /\ live' = live
    BY <1>a, <2>2
  <2> QED BY <1>3, <1>6, <2>4, <2>5
<1>11. CASE CreateFails(m)
  <2>1. /\ idle' = idle /\ live' = live - 1 /\ leased' = leased /\ m \in Makers
        /\ NotifyOne(Moved(m, "failed"))
    BY <1>11 DEF CreateFails, Makers, At
  <2>2. PICK ms \in MemberFn : ms = Moved(m, "failed")
    BY MovedFits DEF MemberPcs
  <2>3. ms[m].pc = "failed" /\ \A n \in Members \ {m} : ms[n] = member[n]
    <3>1. Job("failed", None).pc = "failed" /\ "failed" \in MemberPcs
      BY DEF Job, MemberPcs
    <3> QED BY <2>2, <3>1, MovedFits
  <2>4. Parks(ms)
    <3>1. \A i \in DOMAIN parked : parked[i] \in Members
      BY DEF ParkedFits, Parks
    <3> QED BY <2>1, <2>3, <3>1 DEF ParkedFits, Parks, Makers, At
  <2>5. \A n \in Members : \/ member'[n] = ms[n]
                           \/ ms[n].pc = "parked" /\ member'[n].pc = "woken"
    BY <2>1, <2>2, <2>4, NotifyOneParks DEF ParkedFits
  <2>6. Makers' = Makers \ {m}
    BY <2>3, <2>5 DEF Makers, At
  <2>7. Cardinality(Makers') = x - 1
    BY <1>1, <2>1, <2>6, FiniteMakers, FS_RemoveElement
  <2>8. Cardinality(leased') = y /\ Len(idle') = z /\ live' = live - 1
    BY <1>a, <1>2, <2>1
  <2> QED BY <1>3, <1>6, <2>7, <2>8
<1>12. CASE \/ Inspect(m) /\ (Refused(m) \/ ToldToWait(m))
            \/ Poll(m) \/ ReleaseLease(m)
  <2>1. \E pc \in {"failed", "told", "woken", "parked", "out"} :
            member' = [member EXCEPT ![m] = Job(pc, None)]
    BY <1>12 DEF Inspect, Refused, ToldToWait, Poll, ReleaseLease, Moved
  <2>2. UNCHANGED <<idle, leased, live>> /\ m \notin Makers
    BY <1>12 DEF Inspect, Refused, ToldToWait, Poll, ReleaseLease, pool, Makers, At
  <2>3. Makers' = Makers
    <3>1. Makers' = Makers \ {m}
      BY <1>5, <1>7, <2>1
    <3> QED BY <2>2, <3>1
  <2>4. Cardinality(Makers') = x /\ Cardinality(leased') = y /\ Len(idle') = z /\ live' = live
    BY <1>a, <1>1, <1>2, <2>2, <2>3
  <2> QED BY <1>3, <1>6, <2>4
<1> QED BY <1>8, <1>9, <1>10, <1>11, <1>12 DEF AcquireStep, Inspect

\* What the janitor, the warm-up and the shutdown do with them.
LEMMA PoolSum ==
    ASSUME Types, Types', Places, Leases, ParkedFits, SumFits, JanitorStep \/ WarmStep \/ CloserStep
    PROVE  SumFits'
<1>1. PICK x \in Nat : x = Cardinality(Makers)
  BY FiniteMakers
<1>2. Cardinality(Makers') = x
  <2>1. NotifyOne(member) \/ NotifyWaiters \/ member' = member
    BY DEF JanitorStep, Reclaim, Recycled, RecycleFails, Destroyed, WarmStep, WarmCounts, WarmKept,
       WarmTooLate, WarmBuries, WarmFails, CloserStep, Shutdown, ShutdownBuries, ShutdownNotifies,
       Drained, GivesUp
  <2>2. Makers' = Makers
    BY <2>1, WokenMakers
  <2> QED BY <1>1, <2>2
<1>3. /\ Len(idle) \in Nat /\ Len(closer.taken) \in Nat /\ live \in Int
      /\ Cardinality(leased) \in Nat /\ WarmMakes \in Nat /\ Busy \in Nat
      /\ live = Len(idle) + Cardinality(leased) + x + WarmMakes + Len(closer.taken) + Busy
      /\ janitor = Off <=> janitor.pc = "off"
  BY <1>1, PartsFit DEF SumFits
<1>a. Len(idle) + Cardinality(leased) + x + Len(closer.taken) + Busy \in Int
  BY <1>3
<1>b. live = Len(idle) + Cardinality(leased) + x + WarmMakes + Len(closer.taken) + Busy
  BY <1>3
<1>t. closer'.pc # "burying" => closer'.taken = <<>>
  BY DEF SumFits, JanitorStep, Reclaim, Recycled, RecycleFails, Destroyed, WarmStep, WarmCounts,
     WarmKept, WarmTooLate, WarmBuries, WarmFails, CloserStep, Shutdown, ShutdownBuries,
     ShutdownNotifies, Drained, GivesUp, Types
<1>s. ASSUME live' = Len(idle') + Cardinality(leased') + x + WarmMakes' + Len(closer'.taken) + Busy'
      PROVE  SumFits'
  BY <1>2, <1>s, <1>t DEF SumFits
<1>4. CASE Reclaim
  <2>1. /\ leased' = leased \ {Head(returns).box} /\ UNCHANGED <<idle, live, warm, closer>>
        /\ janitor = Off /\ janitor' # Off
    BY <1>3, <1>4 DEF Reclaim, Off, Job
  <2>2. Head(returns).box \in leased
    BY <1>4, FirstReturn DEF Reclaim, Leases
  <2>3. Cardinality(leased') = Cardinality(leased) - 1
    BY <2>1, <2>2, PartsFit, FS_RemoveElement
  <2>4. WarmMakes' = WarmMakes /\ Busy = 0 /\ Busy' = 1
    BY <2>1 DEF WarmMakes, Busy
  <2>5. Len(idle') = Len(idle) /\ live' = live /\ Len(closer'.taken) = Len(closer.taken)
    BY <2>1
  <2> QED BY <1>3, <1>s, <2>3, <2>4, <2>5
<1>5. CASE Recycled
  <2>1. /\ idle' = Append(idle, janitor.box) /\ UNCHANGED <<leased, live, warm, closer>>
        /\ janitor # Off /\ janitor' = Off
    BY <1>3, <1>5 DEF Recycled
  <2>2. Len(idle') = Len(idle) + 1
    BY <2>1 DEF Types
  <2>3. WarmMakes' = WarmMakes /\ Busy = 1 /\ Busy' = 0
    BY <2>1 DEF WarmMakes, Busy
  <2>4. Cardinality(leased') = Cardinality(leased) /\ live' = live
        /\ Len(closer'.taken) = Len(closer.taken)
    BY <2>1
  <2> QED BY <1>3, <1>s, <2>2, <2>3, <2>4
<1>6. CASE RecycleFails
  <2>1. /\ UNCHANGED <<idle, leased, live, warm, closer>> /\ janitor # Off /\ janitor' # Off
    BY <1>3, <1>6 DEF RecycleFails, pool, Off, Job
  <2>2. WarmMakes' = WarmMakes /\ Busy' = Busy
    BY <2>1 DEF WarmMakes, Busy
  <2>3. Cardinality(leased') = Cardinality(leased) /\ live' = live /\ Len(idle') = Len(idle)
        /\ Len(closer'.taken) = Len(closer.taken)
    BY <2>1
  <2> QED BY <1>3, <1>s, <2>2, <2>3
<1>7. CASE Destroyed
  <2>1. /\ UNCHANGED <<idle, leased, warm, closer>> /\ janitor # Off /\ janitor' = Off /\ live' = live - 1
    BY <1>3, <1>7 DEF Destroyed
  <2>2. WarmMakes' = WarmMakes /\ Busy = 1 /\ Busy' = 0
    BY <2>1 DEF WarmMakes, Busy
  <2>3. Cardinality(leased') = Cardinality(leased) /\ live' = live - 1 /\ Len(idle') = Len(idle)
        /\ Len(closer'.taken) = Len(closer.taken)
    BY <2>1
  <2> QED BY <1>3, <1>s, <2>2, <2>3
<1>8. CASE WarmStep
  <2>1. UNCHANGED <<leased, closer, janitor>>
    BY <1>8 DEF WarmStep, WarmCounts, WarmKept, WarmTooLate, WarmBuries, WarmFails, pool
  <2>2. Busy' = Busy /\ Cardinality(leased') = Cardinality(leased)
        /\ Len(closer'.taken) = Len(closer.taken)
    BY <2>1 DEF Busy
  <2>k. PICK k \in Int : k = Len(idle) + Cardinality(leased) + x + Len(closer.taken) + Busy
    BY <1>a
  <2>l. live = k + WarmMakes
    <3>1. PICK w \in Nat : w = WarmMakes
      BY <1>3
    <3>2. PICK z \in Nat : z = Len(idle)
      BY <1>3
    <3>3. PICK y \in Nat : y = Cardinality(leased)
      BY <1>3
    <3>4. PICK t \in Nat : t = Len(closer.taken)
      BY <1>3
    <3>5. PICK u \in Nat : u = Busy
      BY <1>3
    <3>6. live = z + y + x + w + t + u /\ k = z + y + x + t + u
      BY <1>b, <2>k, <3>1, <3>2, <3>3, <3>4, <3>5
    <3> QED BY <3>1, <3>6
  <2>m. ASSUME Len(idle') = Len(idle), WarmMakes' \in Nat, live' = k + WarmMakes'
        PROVE  SumFits'
    <3>1. PICK z \in Nat : z = Len(idle)
      BY <1>3
    <3>2. PICK y \in Nat : y = Cardinality(leased)
      BY <1>3
    <3>3. PICK t \in Nat : t = Len(closer.taken)
      BY <1>3
    <3>4. PICK u \in Nat : u = Busy
      BY <1>3
    <3>5. PICK w \in Nat : w = WarmMakes'
      BY <2>m
    <3>6. k = z + y + x + t + u
      BY <2>k, <3>1, <3>2, <3>3, <3>4
    <3>7. live' = z + y + x + w + t + u
      BY <2>m, <3>5, <3>6
    <3> QED BY <1>s, <2>2, <2>m, <3>1, <3>2, <3>3, <3>4, <3>5, <3>7
  <2>3. CASE WarmKept
    <3>1. \E b \in Fresh : idle' = Append(idle, b)
      BY <2>3 DEF WarmKept
    <3>2. Len(idle') = Len(idle) + 1
      BY <3>1, FreshFits DEF Types
    <3>3. live' = live /\ WarmMakes = 1 /\ WarmMakes' = 0
      BY <2>3 DEF WarmKept, WarmMakes, Job
    <3> QED BY <1>3, <1>s, <2>2, <3>2, <3>3
  <2>4. CASE WarmCounts
    <3>1. idle' = idle /\ WarmMakes = 0
      BY <2>4 DEF WarmCounts, WarmMakes
    <3>2. Len(idle') = Len(idle)
      BY <3>1
    <3>3. CASE live' = live /\ warm' = Off
      <4>1. WarmMakes' = 0
        BY <3>3 DEF WarmMakes, Off, Job
      <4>2. WarmMakes' = WarmMakes /\ live' = live
        BY <3>1, <3>3, <4>1
      <4> QED BY <1>3, <1>s, <2>2, <3>2, <4>2
    <3>4. CASE live' = live + 1 /\ warm' = Job("creating", None)
      <4>1. WarmMakes' = 1
        BY <3>4 DEF WarmMakes, Job
      <4>2. WarmMakes = 0 /\ live' = live + 1
        BY <3>1, <3>4
      <4> QED BY <2>k, <2>l, <2>m, <3>2, <4>1, <4>2
    <3> QED BY <2>4, <3>3, <3>4 DEF WarmCounts
  <2>5. CASE WarmTooLate \/ WarmFails
    <3>1. idle' = idle /\ WarmMakes = 1 /\ live' = live - 1
      BY <2>5 DEF WarmTooLate, WarmFails, WarmMakes
    <3>2. WarmMakes' = 0
      BY <2>5 DEF WarmTooLate, WarmFails, WarmMakes, Off, Job
    <3>3. live' = live - 1 /\ WarmMakes = 1 /\ WarmMakes' = 0 /\ Len(idle') = Len(idle)
      BY <3>1, <3>2
    <3> QED BY <2>k, <2>l, <2>m, <3>3
  <2>6. CASE WarmBuries
    <3>1. idle' = idle /\ WarmMakes = 0 /\ WarmMakes' = 0 /\ live' = live
      BY <2>6 DEF WarmBuries, WarmMakes, pool, Job
    <3>2. Len(idle') = Len(idle)
      BY <3>1
    <3> QED BY <1>3, <1>s, <2>2, <3>1, <3>2
  <2> QED BY <1>8, <2>3, <2>4, <2>5, <2>6 DEF WarmStep
<1>9. CASE CloserStep
  <2>1. UNCHANGED <<leased, warm, janitor>>
    BY <1>9 DEF CloserStep, Shutdown, ShutdownBuries, ShutdownNotifies, Drained, GivesUp, pool
  <2>2. Busy' = Busy /\ WarmMakes' = WarmMakes /\ Cardinality(leased') = Cardinality(leased)
    BY <2>1 DEF Busy, WarmMakes
  <2>3. CASE Shutdown
    <3>1. live' = live /\ idle' = <<>> /\ closer'.taken = idle
      BY <2>3 DEF Shutdown
    <3>2. Len(closer.taken) = 0
      BY <2>3 DEF Shutdown, SumFits
    <3>3. live' = live /\ Len(idle') = 0 /\ Len(closer'.taken) = Len(idle)
      BY <3>1
    <3> QED BY <1>3, <1>s, <2>2, <3>2, <3>3
  <2>4. CASE ShutdownBuries
    <3>1. /\ live' = live - 1 /\ idle' = idle /\ closer'.taken = Tail(closer.taken)
          /\ closer.taken \in Seq(Boxes) /\ closer.taken # <<>>
      BY <2>4 DEF ShutdownBuries, Types
    <3>2. Len(closer'.taken) = Len(closer.taken) - 1
      BY <3>1
    <3>3. live' = live - 1 /\ Len(idle') = Len(idle)
      BY <3>1
    <3>4. PICK z \in Nat : z = Len(idle)
      BY <1>3
    <3>5. PICK y \in Nat : y = Cardinality(leased)
      BY <1>3
    <3>6. PICK t \in Nat : t = Len(closer.taken)
      BY <1>3
    <3>7. PICK u \in Nat : u = Busy
      BY <1>3
    <3>8. PICK w \in Nat : w = WarmMakes
      BY <1>3
    <3>9. live = z + y + x + w + t + u
      BY <1>b, <3>4, <3>5, <3>6, <3>7, <3>8
    <3>10. live' = z + y + x + w + (t - 1) + u
      BY <3>3, <3>9
    <3> QED BY <1>s, <2>2, <3>2, <3>3, <3>4, <3>5, <3>6, <3>7, <3>8, <3>10
  <2>5. CASE ShutdownNotifies \/ Drained \/ GivesUp
    <3>1. live' = live /\ idle' = idle /\ closer'.taken = closer.taken
      BY <2>5 DEF ShutdownNotifies, Drained, GivesUp, Types, pool
    <3>2. live' = live /\ Len(idle') = Len(idle) /\ Len(closer'.taken) = Len(closer.taken)
      BY <3>1
    <3> QED BY <1>3, <1>s, <2>2, <3>2
  <2> QED BY <1>9, <2>3, <2>4, <2>5 DEF CloserStep
<1> QED BY <1>4, <1>5, <1>6, <1>7, <1>8, <1>9 DEF JanitorStep

\* Where no deadline drops a creation, no slot is lost.
LEMMA SumStep ==
    ASSUME ~Deadlines, Types, Types', Places, Leases, Phases, Stages, ParkedFits, SumFits, [Next]_vars
    PROVE  SumFits'
<1>1. ASSUME NEW m \in Members, AcquireStep(m) \/ ReleaseLease(m) PROVE SumFits'
  BY <1>1, MembersSum
<1>2. CASE JanitorStep \/ WarmStep \/ CloserStep
  BY <1>2, PoolSum
<1>3. ASSUME UNCHANGED <<idle, leased, live, warm, closer, janitor>>, Makers' = Makers PROVE SumFits'
  BY <1>3 DEF SumFits, WarmMakes, Busy
<1>4. ASSUME NEW g \in Groups, GroupStep(g) PROVE SumFits'
  <2>1. UNCHANGED <<idle, leased, live, warm, closer, janitor>>
    BY <1>4 DEF GroupStep, GroupResets, GroupActs, GroupCloses, GroupEnds, pool
  <2>2. CASE GroupResets(g)
    <3>1. /\ \A m \in g : Settled(m)
          /\ member' = [m \in Members |-> IF m \in g THEN Job("asking", None) ELSE member[m]]
      BY <2>2 DEF GroupResets, Stages
    <3>2. Job("asking", None).pc = "asking"
      BY DEF Job
    <3>3. Makers' = Makers
      BY <3>1, <3>2, MakersStay DEF Settled
    <3> QED BY <1>3, <2>1, <3>3
  <2>3. CASE GroupActs(g) \/ GroupCloses(g) \/ GroupEnds(g)
    <3>1. Makers' = Makers
      BY <2>3 DEF GroupActs, GroupCloses, GroupEnds, Makers, At
    <3> QED BY <1>3, <2>1, <3>1
  <2> QED BY <1>4, <2>2, <2>3 DEF GroupStep
<1>5. CASE LoopStep \/ ForceCloses \/ Sweep \/ UNCHANGED vars
  <2>1. NotifyWaiters \/ member' = member
    BY <1>5 DEF LoopStep, TrainStarts, NextUpdate, RunOver, ForceCloses, Sweep, vars
  <2>2. Makers' = Makers
    BY <2>1, WokenMakers
  <2>3. UNCHANGED <<idle, leased, live, closer, janitor>>
    BY <1>5 DEF LoopStep, TrainStarts, NextUpdate, RunOver, ForceCloses, Sweep, vars, pool
  <2>4. CASE TrainStarts
    <3>1. WarmMakes = 0
      BY <2>4 DEF TrainStarts, Phases, WarmMakes, Off, Job
    <3>2. WarmMakes' = 0
      BY <2>4 DEF TrainStarts, WarmMakes, Job
    <3> QED BY <2>2, <2>3, <3>1, <3>2 DEF SumFits, Busy
  <2>5. CASE NextUpdate \/ RunOver \/ ForceCloses \/ Sweep \/ UNCHANGED vars
    <3>1. warm' = warm
      BY <2>5 DEF NextUpdate, RunOver, ForceCloses, Sweep, vars
    <3> QED BY <2>2, <2>3, <3>1, <1>3
  <2> QED BY <1>5, <2>4, <2>5 DEF LoopStep
<1>6. \A g \in Groups : ~Expire(g)
  BY DEF Expire
<1> QED BY <1>1, <1>2, <1>4, <1>5, <1>6 DEF Next

----------------------------------------------------------------------------
(* The containers that run on after a removal failed.                       *)

StraysKnown == stray \subseteq Boxes

\* A removal that fails leaves the container it was of.
LEMMA RemoveLeaves == ASSUME NEW b, Types, StraysKnown, Remove(b) PROVE StraysKnown'
BY DEF Types, StraysKnown, Remove, Strays

\* A creation that fails leaves at most the container it made.
LEMMA CreationStrays == ASSUME StraysKnown, CreationLeaves PROVE StraysKnown'
BY DEF StraysKnown, CreationLeaves, Strays, Fresh

\* Nothing else touches the strays but the sweep, which removes some.
LEMMA StraysStep == ASSUME Types, StraysKnown, [Next]_vars PROVE StraysKnown'
<1>1. CASE \/ Destroyed \/ WarmBuries \/ ShutdownBuries
           \/ WarmFails \/ \E m \in Members : CreateFails(m)
  BY <1>1, RemoveLeaves, CreationStrays
     DEF Destroyed, WarmBuries, ShutdownBuries, WarmFails, CreateFails
<1>2. CASE Sweep
  BY <1>2 DEF Sweep, StraysKnown
<1>3. CASE UNCHANGED stray
  BY <1>3 DEF StraysKnown
<1>4. \/ Destroyed \/ WarmBuries \/ ShutdownBuries
      \/ WarmFails \/ (\E m \in Members : CreateFails(m)) \/ Sweep
      \/ UNCHANGED stray
  BY DEF Next, vars, AcquireStep, Inspect, Refused, Pop, CountCreation, ToldToWait, Poll, Created,
     ReleaseLease, GroupStep, GroupResets, GroupActs, GroupCloses, GroupEnds, Expire,
     JanitorStep, Reclaim, Recycled, RecycleFails, WarmStep, WarmCounts, WarmKept, WarmTooLate,
     LoopStep, TrainStarts, NextUpdate, RunOver, CloserStep, Shutdown, ShutdownNotifies, Drained,
     GivesUp, ForceCloses, engine
<1> QED BY <1>1, <1>2, <1>3, <1>4

\* The strays are containers.
LEMMA StraysHold == Spec => []StraysKnown
<1>1. Init => StraysKnown
  BY DEF Init, StraysKnown
<1> QED BY <1>1, TypesHold, StraysStep, PTL DEF Spec

----------------------------------------------------------------------------
(* What follows.                                                            *)

\* The containers that are idle, lent or being destroyed, those being created
\* and those of cancelled acquisitions never exceed max_live together,
\* whatever failed, expired or came too late, and a container is one episode's
\* at a time (pool.rs: acquire, reclaim, prewarm, shutdown).  The containers
\* whose removal failed are not of this count, as they are not of the pool's.
THEOREM LeasesAlwaysFit == Spec => []LeasesFit
<1>1. Types /\ Count => LiveBounded
  <2> SUFFICES ASSUME Types, Count PROVE LiveBounded
    OBVIOUS
  <2>1. live \in Int /\ MaxLive \in Int /\ WarmMakes \in Nat
        /\ Creating = Cardinality(Makers) + WarmMakes
    BY LimitsAssumption DEF Types, WarmMakes, Creating, Makers
  <2>2. Cardinality(exists) \in Nat /\ None \notin exists
    BY BoxesAssumption, FS_Subset, FS_CardinalityType DEF Types
  <2>3. CASE warm.pc = "burying"
    <3>1. exists \subseteq Held \cup {warm.box}
      BY <2>2 DEF Held
    <3>2. Cardinality(Held \cup {warm.box}) <= Cardinality(Held) + 1
          /\ IsFiniteSet(Held \cup {warm.box})
      BY FiniteHeld, FS_AddElement
    <3>3. Cardinality(exists) <= Cardinality(Held) + 1
      <4>1. Cardinality(exists) <= Cardinality(Held \cup {warm.box})
        BY <3>1, <3>2, FS_Subset
      <4>2. Cardinality(Held \cup {warm.box}) \in Nat
        BY <3>2, FS_CardinalityType
      <4> QED BY <2>2, <3>2, <4>1, <4>2, FiniteHeld
    <3> QED BY <2>1, <2>2, <2>3, <3>3, FiniteHeld, FiniteMakers DEF Count, LiveBounded
  <2>4. CASE warm.pc # "burying"
    <3>1. exists \subseteq Held
      BY <2>2, <2>4 DEF Held, Types
    <3>2. Cardinality(exists) <= Cardinality(Held)
      BY <3>1, FiniteHeld, FS_Subset
    <3> QED BY <2>1, <2>2, <3>2, FiniteHeld, FiniteMakers DEF Count, LiveBounded
  <2> QED BY <2>3, <2>4
<1>2. Types /\ Places /\ Leases => OneHolder
  BY DEF Places, Leases, OneHolder, At, Elems
<1> QED BY <1>1, <1>2, PlacesHold, CountHolds, PTL DEF LeasesFit

\* A pool that was closed, by the signal handler or by a shutdown that drains,
\* leaves no acquisition to wait, and a shutdown that saw no live container
\* left none behind that nobody had tried to remove (pool.rs: shutdown,
\* force_cleanup): what runs on after it is what the engine failed to remove.
THEOREM ClosingAlwaysEmpties == Spec => []ClosingEmpties
<1>1. Phases => ClosedPoolParksNobody
  BY DEF Phases, ClosedPoolParksNobody, At, Waits
<1>2. Types /\ Phases /\ Count => DrainedMeansGone
  <2> SUFFICES ASSUME Types, Phases, Count, closer.pc = "drained" PROVE exists = {}
    BY DEF DrainedMeansGone
  <2>1. live = 0 /\ WarmMakes \in Nat /\ warm.box = None
    BY DEF Count, WarmMakes, Phases, Off, Job
  <2>2. Cardinality(Held) = 0
    BY <2>1, FiniteHeld, FiniteMakers DEF Count
  <2>3. Held = {}
    BY <2>2, FiniteHeld, FS_EmptySet
  <2> QED BY <2>1, <2>3, BoxesAssumption DEF Held, Types
<1> QED BY <1>1, <1>2, TypesHold, PhasesHold, CountHolds, PTL DEF ClosingEmpties

\* What an acquisition can pop has had no episode since its last cleanup that
\* went through (pool.rs: reclaim).
THEOREM IdleIsAlwaysClean == Spec => []IdleIsClean
<1>1. Types /\ Clean => IdleIsClean
  <2> SUFFICES ASSUME Types, Clean, NEW i \in DOMAIN idle
               PROVE  idle[i] \in exists \ tainted \/ forced = "swept"
    BY DEF IdleIsClean
  <2>1. idle[i] \in Elems(idle) /\ idle[i] \in Boxes
    BY DEF Elems, Types
  <2> QED BY <2>1, BoxesAssumption DEF Clean
<1> QED BY <1>1, TypesHold, CleanHolds, PTL

\* The model's types hold in every reachable state: a container is lent at most
\* max_leases_per_container times, and the pool counts at most max_live slots
\* and never less than none (pool.rs: acquire, reclaim, destroy).
THEOREM TypeCorrect == Spec => []TypeOK
<1>1. Types /\ Count => live \in 0 .. MaxLive
  <2> SUFFICES ASSUME Types, Count PROVE live \in 0 .. MaxLive
    OBVIOUS
  <2>1. live \in Int /\ MaxLive \in Int /\ WarmMakes \in Nat
    BY LimitsAssumption DEF Types, WarmMakes
  <2> QED BY <2>1, FiniteHeld, FiniteMakers DEF Count
<1>2. Types /\ (live \in 0 .. MaxLive) /\ Stages /\ ParkedFits /\ UsesFit /\ Names /\ StraysKnown => TypeOK
  BY DEF StraysKnown, Types, MemberFn, Stages, ParkedFits, Parks, UsesFit, Names, TypeOK
<1> QED BY <1>1, <1>2, TypesHold, StraysHold, CountHolds, AwakeHolds, UsesHold, PTL

\* A slot of the pool that is free while acquisitions wait is one that a member
\* already woken will look at: no notification is lost, whoever fails, expires,
\* or comes back (pool.rs: acquire, destroy, reclaim; tokio's Notify).
THEOREM FreeSlotsAlwaysWake == Spec => []FreeSlotWakesWaiter
<1>1. Awake => FreeSlotWakesWaiter
  BY DEF Awake, Enough, FreeSlotWakesWaiter
<1> QED BY <1>1, AwakeHolds, PTL

\* Every slot the pool counts belongs to a container it holds, lends or
\* destroys, or to a creation under way, for any limits, as long as no rollout
\* has a deadline: max_rollout_secs is what loses slots (pool.rs: PoolState::live).
THEOREM SlotsAreAlwaysHeld == ASSUME ~Deadlines PROVE Spec => []SlotsAreHeld
<1>1. Init => SumFits
  <2> SUFFICES ASSUME Init PROVE SumFits
    OBVIOUS
  <2>1. /\ \A m \in Members : member[m].pc = "out"
        /\ idle = <<>> /\ closer.taken = <<>> /\ leased = {} /\ live = 0 /\ janitor = Off
        /\ warm.pc = "off"
    BY DEF Init, Off, Job
  <2>2. Makers = {} /\ WarmMakes = 0 /\ Busy = 0 /\ Cardinality({}) = 0
    BY <2>1, FS_EmptySet DEF Makers, At, WarmMakes, Busy
  <2> QED BY <2>1, <2>2 DEF SumFits
<1>2. Types /\ SumFits => SlotsAreHeld
  <2> SUFFICES ASSUME Types, SumFits PROVE SlotsAreHeld
    OBVIOUS
  <2>1. Creating = Cardinality(Makers) + WarmMakes
    BY DEF Creating, Makers, WarmMakes
  <2>2. PICK x \in Nat : x = Cardinality(Makers)
    BY FiniteMakers
  <2>3. PICK w \in Nat : w = WarmMakes
    BY PartsFit
  <2>4. PICK t \in Nat : t = Len(closer.taken)
    BY PartsFit
  <2>5. PICK u \in Nat : u = Busy
    BY PartsFit
  <2>6. PICK y \in Nat : y = Cardinality(leased)
    BY PartsFit
  <2>7. PICK z \in Nat : z = Len(idle)
    BY PartsFit
  <2>8. live = z + y + x + w + t + u
    BY <2>2, <2>3, <2>4, <2>5, <2>6, <2>7 DEF SumFits
  <2>9. live = z + y + (x + w) + t + u
    BY <2>8
  <2> QED BY <2>1, <2>2, <2>3, <2>4, <2>5, <2>6, <2>7, <2>9 DEF SlotsAreHeld, Busy
<1>3. SumFits /\ (Types /\ Places /\ Leases) /\ (Types /\ Places /\ Leases)'
      /\ Phases /\ (Stages /\ ParkedFits /\ Awake) /\ [Next]_vars
          => SumFits'
  BY SumStep
<1> QED BY <1>1, <1>2, <1>3, PlacesHold, PhasesHold, AwakeHolds, PTL DEF Spec

=============================================================================
