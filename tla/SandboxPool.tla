---------------------------- MODULE SandboxPool ----------------------------
(***************************************************************************)
(* The pool of containers (retrograd-container/src/pool.rs) under the      *)
(* agent training loop that uses it: groups of members that each acquire a *)
(* container in their environment's reset, act, and drop their lease       *)
(* (retrograd-agent rollout/lockstep.rs, retrograd-env sandbox.rs); the    *)
(* janitor task that does the slow half of a release; the warm-up that     *)
(* runs beside the optimizer step; the shutdown at the end of the run; the *)
(* forced cleanup of a second interrupt.                                   *)
(*                                                                         *)
(* Every acquisition is polled by the one task that joins the rollouts, so *)
(* between its decision to wait and its first poll no other acquisition    *)
(* moves (Calm).  The janitor and the signal handler run in parallel.      *)
(*                                                                         *)
(* A removal that fails is logged and swallowed, and the pool counts the   *)
(* container no more: it runs on as a stray, the reaper's from then on.    *)
(*                                                                         *)
(* Left out: metrics; a min_idle above the demand of an update; what a     *)
(* process an episode left behind writes after the wipe of the workspace   *)
(* and before it is killed.                                                *)
(***************************************************************************)
EXTENDS Integers, Sequences, FiniteSets, Subsequence

CONSTANTS Members,    \* the trajectories of an update
          Groups,     \* their partition into groups
          Boxes,      \* names for containers
          None,       \* no container
          MaxLive,    \* PoolConfig::max_live
          MaxLeases,  \* PoolConfig::max_leases_per_container
          Reuse,      \* whether the reuse policy is Workspace
          Deadlines,  \* whether max_rollout_secs is positive
          Updates,    \* bound: updates of the run
          Failures,   \* bound: removals that fail
          Interrupts  \* whether the run may be interrupted by force

ASSUME BoxesAssumption == None \notin Boxes /\ IsFiniteSet(Boxes)
ASSUME MembersAssumption == IsFiniteSet(Members)
ASSUME GroupsAssumption ==
    /\ UNION Groups = Members
    /\ \A g, h \in Groups : g # h => g \cap h = {}
ASSUME LimitsAssumption == MaxLive \in Nat \ {0} /\ MaxLeases \in Nat \ {0}
ASSUME SwitchesAssumption == {Reuse, Deadlines, Interrupts} \subseteq BOOLEAN
ASSUME UpdatesAssumption == Updates \in Nat \ {0}
ASSUME FailuresAssumption == Failures \in Nat

VARIABLES
    idle,    \* PoolState::idle, popped from its end
    leased,  \* PoolState::leased
    live,    \* PoolState::live
    closed,  \* PoolState::closed
    permit,  \* the one permit the Notify stores
    parked,  \* the acquisitions in the Notify's list, oldest first
    returns, \* the channel of released leases, to the janitor
    janitor, \* what the janitor does, and to which container
    warm,    \* what the warm-up does, and with which container
    closer,  \* what the shutdown does, and the containers it took
    forced,  \* where the forced cleanup is
    member,  \* where each member is, and the container it holds
    group,   \* where the rollout of each group is
    phase,   \* what the training loop does
    update,  \* the number of the update
    exists,  \* the containers the engine runs, but for the strays
    stray,   \* those that run on after a removal that failed
    uses,    \* Entry::leases of each container
    tainted  \* the containers an episode has had since their last cleanup

pool == <<idle, leased, live, closed>>
notify == <<permit, parked>>
loop == <<group, phase, update>>
engine == <<exists, stray, uses, tainted>>
vars == <<pool, notify, returns, janitor, warm, closer, forced, member, loop, engine>>

----------------------------------------------------------------------------
(* Types.                                                                   *)

Job(pc, b) == [pc |-> pc, box |-> b]
Off == Job("off", None)

\* A member asks, then is handed a container, creates one, or is told to wait:
\* it parks at its first poll, until a notification wakes it.
MemberPcs == {"out", "asking", "told", "parked", "woken", "creating", "holding", "failed"}
JanitorPcs == {"off", "recycling", "destroying"}
WarmPcs == {"off", "checking", "creating", "burying"}
CloserPcs == {"off", "burying", "draining", "drained", "gaveup"}

At(pc) == {m \in Members : member[m].pc = pc}

\* The containers the pool, a lease or one of its tasks knows of.
Known ==
    {idle[i] : i \in DOMAIN idle} \cup leased
    \cup {janitor.box, warm.box} \cup {closer.taken[i] : i \in DOMAIN closer.taken}
Fresh == Boxes \ (exists \cup stray \cup Known)

TypeOK ==
    /\ idle \in Seq(Boxes)
    /\ leased \subseteq Boxes
    /\ live \in 0 .. MaxLive
    /\ closed \in BOOLEAN
    /\ permit \in BOOLEAN
    /\ parked \in Seq(Members)
    /\ returns \in Seq([box : Boxes, fit : BOOLEAN])
    /\ janitor \in [pc : JanitorPcs, box : Boxes \cup {None}]
    /\ warm \in [pc : WarmPcs, box : Boxes \cup {None}]
    /\ closer \in [pc : CloserPcs, taken : Seq(Boxes)]
    /\ forced \in {"off", "sweeping", "swept"}
    /\ member \in [Members -> [pc : MemberPcs, box : Boxes \cup {None}]]
    /\ group \in [Groups -> {"fresh", "resetting", "acting", "closing", "done"}]
    /\ phase \in {"rollouts", "training", "over"}
    /\ update \in 1 .. Updates
    /\ exists \subseteq Boxes
    /\ stray \subseteq Boxes
    /\ uses \in [Boxes -> 0 .. MaxLeases]
    /\ tainted \subseteq Boxes

Init ==
    /\ idle = <<>> /\ leased = {} /\ live = 0 /\ closed = FALSE
    /\ permit = FALSE /\ parked = <<>>
    /\ returns = <<>>
    /\ janitor = Off /\ warm = Off
    /\ closer = [pc |-> "off", taken |-> <<>>]
    /\ forced = "off"
    /\ member = [m \in Members |-> Job("out", None)]
    /\ group = [g \in Groups |-> "fresh"]
    /\ phase = "rollouts" /\ update = 1
    /\ exists = {} /\ stray = {} /\ uses = [b \in Boxes |-> 0] /\ tainted = {}

----------------------------------------------------------------------------
(* The Notify (tokio).  notify_one wakes the oldest waiter or stores one    *)
(* permit; notify_waiters wakes whoever registered before it, parked or     *)
(* not; a notified acquisition that is dropped passes its wake-up on.  ms   *)
(* is what the step otherwise makes of the members.                         *)

NotifyOne(ms) ==
    \/ /\ parked = <<>>
       /\ permit' = TRUE
       /\ member' = ms
       /\ UNCHANGED parked
    \/ /\ parked # <<>>
       /\ parked' = Tail(parked)
       /\ member' = [ms EXCEPT ![Head(parked)].pc = "woken"]
       /\ UNCHANGED permit

NotifyWaiters ==
    /\ parked' = <<>>
    /\ member' = [m \in Members |->
                    IF m \in At("told") \cup At("parked") THEN Job("woken", None) ELSE member[m]]
    /\ UNCHANGED permit

\* The acquisitions of `gone` are dropped; the wake-ups they held are passed on.
DropWaiters(gone, ms) ==
    LET rest == Kept(parked, {i \in DOMAIN parked : parked[i] \notin gone})
        held == Cardinality(gone \cap At("woken"))
        next == IF held < Len(rest) THEN held ELSE Len(rest)
    IN  /\ parked' = SubSeq(rest, next + 1, Len(rest))
        /\ permit' = (permit \/ held > Len(rest))
        /\ member' = [m \in Members |->
                        IF \E i \in 1 .. next : rest[i] = m THEN Job("woken", None) ELSE ms[m]]

----------------------------------------------------------------------------
(* The engine.  A call on it may fail and leave a container running.        *)

Strays(b) == Cardinality(stray) < Failures /\ stray' = stray \cup {b}

\* ContainerSandbox::destroy answers nothing, whether the removal succeeds or not.
Remove(b) ==
    /\ exists' = exists \ {b}
    /\ UNCHANGED stray \/ (b \in exists /\ Strays(b))

\* A creation may fail once the container is made: nothing removes it when it
\* did not start, and the removal of one that lacks a capability may fail.
CreationLeaves ==
    /\ UNCHANGED stray \/ \E b \in Fresh : Strays(b)
    /\ UNCHANGED <<exists, uses, tainted>>

----------------------------------------------------------------------------
(* acquire.  Reading the state, popping the idle set and counting a         *)
(* creation are one critical section.                                       *)

Calm == At("told") = {}
Moved(m, pc) == [member EXCEPT ![m] = Job(pc, None)]
HasRoom == live < MaxLive

\* hand_out: the container goes into the table of leases, whatever was closed
\* meanwhile, and the environment writes its task into it.
HandOut(m, b, leases) ==
    /\ leased' = leased \cup {b}
    /\ uses' = [uses EXCEPT ![b] = leases]
    /\ tainted' = tainted \cup {b}

Refused(m) ==
    /\ closed
    /\ member' = Moved(m, "failed")
    /\ UNCHANGED <<pool, notify, engine>>

\* A fault: the container is handed out and left in the idle set.
PopPeeks(m) ==
    /\ ~closed /\ idle # <<>>
    /\ LET b == idle[Len(idle)]
       IN  /\ member' = [member EXCEPT ![m] = Job("holding", b)]
           /\ HandOut(m, b, uses[b] + 1)
    /\ UNCHANGED <<idle, live, closed, notify, exists, stray>>

Pop(m) ==
    /\ ~closed /\ idle # <<>>
    /\ idle' = SubSeq(idle, 1, Len(idle) - 1)
    /\ LET b == idle[Len(idle)]
       IN  /\ member' = [member EXCEPT ![m] = Job("holding", b)]
           /\ HandOut(m, b, uses[b] + 1)
    /\ UNCHANGED <<live, closed, notify, exists, stray>>

CountCreation(m) ==
    /\ ~closed /\ idle = <<>> /\ HasRoom
    /\ live' = live + 1
    /\ member' = Moved(m, "creating")
    /\ UNCHANGED <<idle, leased, closed, notify, engine>>

ToldToWait(m) ==
    /\ ~closed /\ idle = <<>> /\ ~HasRoom
    /\ member' = Moved(m, "told")
    /\ UNCHANGED <<pool, notify, engine>>

Inspect(m) ==
    /\ member[m].pc \in {"asking", "woken"} /\ Calm
    /\ Refused(m) \/ Pop(m) \/ CountCreation(m) \/ ToldToWait(m)
    /\ UNCHANGED <<returns, janitor, warm, closer, forced, loop>>

\* The first poll of the registered notification.
Poll(m) ==
    /\ member[m].pc = "told"
    /\ permit' = FALSE
    /\ \/ permit /\ member' = Moved(m, "woken") /\ UNCHANGED parked
       \/ ~permit /\ member' = Moved(m, "parked") /\ parked' = Append(parked, m)
    /\ UNCHANGED <<pool, returns, janitor, warm, closer, forced, loop, engine>>

Created(m) ==
    /\ member[m].pc = "creating" /\ Calm
    /\ \E b \in Fresh :
          /\ exists' = exists \cup {b}
          /\ member' = [member EXCEPT ![m] = Job("holding", b)]
          /\ HandOut(m, b, 1)
    /\ UNCHANGED <<idle, live, closed, notify, returns, janitor, warm, closer, forced, loop, stray>>

\* A fault: the slot is given back and nobody is told.
CreateFailsSilently(m) ==
    /\ member[m].pc = "creating" /\ Calm
    /\ live' = live - 1
    /\ member' = Moved(m, "failed")
    /\ CreationLeaves
    /\ UNCHANGED <<idle, leased, closed, notify, returns, janitor, warm, closer, forced, loop>>

\* A fault: the slot of the failed creation is not given back.
CreateFailsCounted(m) ==
    /\ member[m].pc = "creating" /\ Calm
    /\ NotifyOne(Moved(m, "failed"))
    /\ CreationLeaves
    /\ UNCHANGED <<pool, returns, janitor, warm, closer, forced, loop>>

CreateFails(m) ==
    /\ member[m].pc = "creating" /\ Calm
    /\ live' = live - 1
    /\ NotifyOne(Moved(m, "failed"))
    /\ CreationLeaves
    /\ UNCHANGED <<idle, leased, closed, returns, janitor, warm, closer, forced, loop>>

----------------------------------------------------------------------------
(* The rollout of a group.  Its members' resets are joined: none goes on    *)
(* before the last has its container or its error.                          *)

GroupResets(g) ==
    /\ phase = "rollouts" /\ group[g] = "fresh" /\ Calm
    /\ group' = [group EXCEPT ![g] = "resetting"]
    /\ member' = [m \in Members |-> IF m \in g THEN Job("asking", None) ELSE member[m]]
    /\ UNCHANGED <<pool, notify, returns, janitor, warm, closer, forced, phase, update, engine>>

GroupActs(g) ==
    /\ group[g] = "resetting" /\ Calm
    /\ \A m \in g : member[m].pc \in {"holding", "failed"}
    /\ group' = [group EXCEPT ![g] = "acting"]
    /\ UNCHANGED <<pool, notify, returns, janitor, warm, closer, forced, member, phase, update, engine>>

\* The deadline drops the resets that are not done.  One that was creating
\* leaves its slot counted, and perhaps its container running.
Expire(g) ==
    LET waiting == {m \in g : member[m].pc # "holding"}
        creating == {m \in g : member[m].pc = "creating"}
    IN  /\ Deadlines
        /\ group[g] = "resetting" /\ Calm
        /\ DropWaiters(waiting, [m \in Members |->
                IF m \in waiting THEN Job("out", None) ELSE member[m]])
        /\ \E orphans \in SUBSET Fresh :
              /\ Cardinality(orphans) <= Cardinality(creating)
              /\ exists' = exists \cup orphans
        /\ group' = [group EXCEPT ![g] = "closing"]
        /\ UNCHANGED <<pool, returns, janitor, warm, closer, forced, phase, update, stray, uses, tainted>>

GroupCloses(g) ==
    /\ group[g] = "acting" /\ Calm
    /\ group' = [group EXCEPT ![g] = "closing"]
    /\ UNCHANGED <<pool, notify, returns, janitor, warm, closer, forced, member, phase, update, engine>>

\* The lease of a member is dropped: it is unfit if the member poisoned it or
\* its container became unhealthy.
ReleaseLease(m) ==
    /\ \E g \in Groups : m \in g /\ group[g] = "closing"
    /\ member[m].pc = "holding" /\ Calm
    /\ \E fit \in BOOLEAN : returns' = Append(returns, [box |-> member[m].box, fit |-> fit])
    /\ member' = Moved(m, "out")
    /\ UNCHANGED <<pool, notify, janitor, warm, closer, forced, loop, engine>>

GroupEnds(g) ==
    /\ group[g] = "closing" /\ Calm
    /\ \A m \in g : member[m].pc # "holding"
    /\ group' = [group EXCEPT ![g] = "done"]
    /\ UNCHANGED <<pool, notify, returns, janitor, warm, closer, forced, member, phase, update, engine>>

----------------------------------------------------------------------------
(* The janitor.                                                             *)

\* A fault: a container retires one episode late.
ReusableOnceMore(entry) == entry.fit /\ ~closed /\ Reuse /\ uses[entry.box] <= MaxLeases
Reusable(entry) == entry.fit /\ ~closed /\ Reuse /\ uses[entry.box] < MaxLeases

Reclaim ==
    /\ janitor.pc = "off" /\ returns # <<>>
    /\ LET entry == Head(returns)
       IN  /\ leased' = leased \ {entry.box}
           /\ janitor' = Job(IF Reusable(entry) THEN "recycling" ELSE "destroying", entry.box)
    /\ returns' = Tail(returns)
    /\ UNCHANGED <<idle, live, closed, notify, warm, closer, forced, member, loop, engine>>

\* reset_workspace, which wipes the workspace and then kills what still runs.
Recycled ==
    /\ janitor.pc = "recycling"
    /\ tainted' = tainted \ {janitor.box}
    /\ idle' = Append(idle, janitor.box)
    /\ janitor' = Off
    /\ NotifyOne(member)
    /\ UNCHANGED <<leased, live, closed, returns, warm, closer, forced, loop, exists, stray, uses>>

\* A fault: a doubtful cleanup returns the container.
RecycleForgiven ==
    /\ janitor.pc = "recycling"
    /\ idle' = Append(idle, janitor.box)
    /\ janitor' = Off
    /\ NotifyOne(member)
    /\ UNCHANGED <<leased, live, closed, returns, warm, closer, forced, loop, engine>>

RecycleFails ==
    /\ janitor.pc = "recycling"
    /\ janitor' = Job("destroying", janitor.box)
    /\ UNCHANGED <<pool, notify, returns, warm, closer, forced, member, loop, engine>>

\* A fault: the slot is free again and nobody is told.
DestroyedSilently ==
    /\ janitor.pc = "destroying"
    /\ Remove(janitor.box)
    /\ live' = live - 1
    /\ janitor' = Off
    /\ UNCHANGED <<idle, leased, closed, notify, returns, warm, closer, forced, member, loop, uses, tainted>>

Destroyed ==
    /\ janitor.pc = "destroying"
    /\ Remove(janitor.box)
    /\ live' = live - 1
    /\ janitor' = Off
    /\ NotifyOne(member)
    /\ UNCHANGED <<idle, leased, closed, returns, warm, closer, forced, loop, uses, tainted>>

----------------------------------------------------------------------------
(* The warm-up of the next update, beside the optimizer step.               *)

Wanted == Cardinality(Members)

WarmCounts ==
    /\ warm.pc = "checking"
    /\ IF closed \/ Len(idle) >= Wanted \/ ~HasRoom
       THEN warm' = Off /\ UNCHANGED live
       ELSE warm' = Job("creating", None) /\ live' = live + 1
    /\ UNCHANGED <<idle, leased, closed, notify, returns, janitor, closer, forced, member, loop, engine>>

WarmKept ==
    /\ warm.pc = "creating" /\ ~closed
    /\ \E b \in Fresh :
          /\ exists' = exists \cup {b}
          /\ idle' = Append(idle, b)
          /\ uses' = [uses EXCEPT ![b] = 0]
          /\ tainted' = tainted \ {b}
    /\ warm' = Job("checking", None)
    /\ NotifyOne(member)
    /\ UNCHANGED <<leased, live, closed, returns, janitor, closer, forced, loop, stray>>

\* The pool was closed while it created: its slot is given back, then the
\* container is destroyed.
WarmTooLate ==
    /\ warm.pc = "creating" /\ closed
    /\ \E b \in Fresh : exists' = exists \cup {b} /\ warm' = Job("burying", b)
    /\ live' = live - 1
    /\ UNCHANGED <<idle, leased, closed, notify, returns, janitor, closer, forced, member, loop, stray, uses, tainted>>

WarmBuries ==
    /\ warm.pc = "burying"
    /\ Remove(warm.box)
    /\ warm' = Job("checking", None)
    /\ NotifyWaiters
    /\ UNCHANGED <<pool, returns, janitor, closer, forced, loop, uses, tainted>>

\* No waiter is told: none runs beside the optimizer step.
WarmFails ==
    /\ warm.pc = "creating"
    /\ live' = live - 1
    /\ warm' = Off
    /\ CreationLeaves
    /\ UNCHANGED <<idle, leased, closed, notify, returns, janitor, closer, forced, member, loop>>

----------------------------------------------------------------------------
(* The training loop: the updates, then the shutdown of the environments.   *)

Idling == \A g \in Groups : group[g] \in {"fresh", "done"}

TrainStarts ==
    /\ phase = "rollouts" /\ update < Updates
    /\ \A g \in Groups : group[g] = "done"
    /\ phase' = "training"
    /\ warm' = Job("checking", None)
    /\ UNCHANGED <<pool, notify, returns, janitor, closer, forced, member, group, update, engine>>

NextUpdate ==
    /\ phase = "training" /\ warm = Off
    /\ phase' = "rollouts"
    /\ update' = update + 1
    /\ group' = [g \in Groups |-> "fresh"]
    /\ UNCHANGED <<pool, notify, returns, janitor, warm, closer, forced, member, engine>>

\* After the last update, or as soon as one fails.
RunOver ==
    /\ phase # "over" /\ warm = Off /\ Idling
    /\ phase' = "over"
    /\ UNCHANGED <<pool, notify, returns, janitor, warm, closer, forced, member, group, update, engine>>

Shutdown ==
    /\ phase = "over" /\ closer.pc = "off"
    /\ closed' = TRUE
    /\ idle' = <<>>
    /\ closer' = [pc |-> "burying", taken |-> idle]
    /\ UNCHANGED <<leased, live, notify, returns, janitor, warm, forced, member, loop, engine>>

ShutdownBuries ==
    /\ closer.pc = "burying" /\ closer.taken # <<>>
    /\ Remove(Head(closer.taken))
    /\ live' = live - 1
    /\ closer' = [closer EXCEPT !.taken = Tail(@)]
    /\ UNCHANGED <<idle, leased, closed, notify, returns, janitor, warm, forced, member, loop, uses, tainted>>

ShutdownNotifies ==
    /\ closer.pc = "burying" /\ closer.taken = <<>>
    /\ closer' = [closer EXCEPT !.pc = "draining"]
    /\ NotifyWaiters
    /\ UNCHANGED <<pool, returns, janitor, warm, forced, loop, engine>>

Drained ==
    /\ closer.pc = "draining" /\ live = 0
    /\ closer' = [closer EXCEPT !.pc = "drained"]
    /\ UNCHANGED <<pool, notify, returns, janitor, warm, forced, member, loop, engine>>

\* DRAIN_TIMEOUT.
GivesUp ==
    /\ closer.pc = "draining" /\ live # 0
    /\ closer' = [closer EXCEPT !.pc = "gaveup"]
    /\ UNCHANGED <<pool, notify, returns, janitor, warm, forced, member, loop, engine>>

----------------------------------------------------------------------------
(* force_cleanup, from the signal handler: it closes the pool, then sweeps  *)
(* every container with the run's label.  The process exits after it; until *)
(* then its other tasks go on.                                              *)

\* A fault: only one of those who wait is told.
ForceClosesOne ==
    /\ Interrupts /\ forced = "off"
    /\ closed' = TRUE
    /\ forced' = "sweeping"
    /\ NotifyOne(member)
    /\ UNCHANGED <<idle, leased, live, returns, janitor, warm, closer, loop, engine>>

ForceCloses ==
    /\ Interrupts /\ forced = "off"
    /\ closed' = TRUE
    /\ forced' = "sweeping"
    /\ NotifyWaiters
    /\ UNCHANGED <<idle, leased, live, returns, janitor, warm, closer, loop, engine>>

\* What it cannot list or remove is logged and stays.
Sweep ==
    /\ forced = "sweeping"
    /\ exists' \in SUBSET exists /\ stray' \in SUBSET stray
    /\ forced' = "swept"
    /\ UNCHANGED <<pool, notify, returns, janitor, warm, closer, member, loop, uses, tainted>>

----------------------------------------------------------------------------
AcquireStep(m) == Inspect(m) \/ Poll(m) \/ Created(m) \/ CreateFails(m)
GroupStep(g) == GroupResets(g) \/ GroupActs(g) \/ GroupCloses(g) \/ GroupEnds(g)
JanitorStep == Reclaim \/ Recycled \/ RecycleFails \/ Destroyed
WarmStep == WarmCounts \/ WarmKept \/ WarmTooLate \/ WarmBuries \/ WarmFails
LoopStep == TrainStarts \/ NextUpdate \/ RunOver
CloserStep == Shutdown \/ ShutdownBuries \/ ShutdownNotifies \/ Drained \/ GivesUp

Next ==
    \/ \E m \in Members : AcquireStep(m) \/ ReleaseLease(m)
    \/ \E g \in Groups : GroupStep(g) \/ Expire(g)
    \/ JanitorStep \/ WarmStep \/ LoopStep \/ CloserStep
    \/ ForceCloses \/ Sweep

Spec == Init /\ [][Next]_vars

\* The runtime polls every task that can go on; the engine answers every call;
\* an episode ends.  Nothing is assumed of the signals.
FairSpec ==
    /\ Spec
    /\ \A m \in Members : WF_vars(AcquireStep(m)) /\ WF_vars(ReleaseLease(m))
    /\ \A g \in Groups : WF_vars(GroupStep(g))
    /\ WF_vars(JanitorStep)

----------------------------------------------------------------------------
(* Properties.                                                              *)

Creating == Cardinality(At("creating")) + (IF warm.pc = "creating" THEN 1 ELSE 0)

\* max_live bounds the containers that are idle, leased or being destroyed,
\* those being created and those of cancelled acquisitions, together.  A stray
\* is outside: the pool gave its slot back when its removal failed.
LiveBounded == Cardinality(exists) + Creating <= MaxLive

\* What pool.rs says of max_live, "Hard bound on live containers", and of live,
\* "Containers that exist right now": not so once a removal has failed.
HardBound == Cardinality(exists \cup stray) <= MaxLive

\* A container is one episode's at a time: two members never hold the same,
\* and one that is held, or whose release waits, is neither idle nor recycled.
OneHolder ==
    /\ \A m, n \in At("holding") : m # n => member[m].box # member[n].box
    /\ \A m \in At("holding") :
          /\ member[m].box \in leased
          /\ member[m].box # janitor.box
          /\ \A i \in DOMAIN idle : idle[i] # member[m].box
          /\ \A i \in DOMAIN returns : returns[i].box # member[m].box

\* The pool keeps what it counts within its bound and lends a container once.
LeasesFit == LiveBounded /\ OneHolder

\* A slot that is free never sleeps on a waiter: as many of those who wait are
\* awake as there are slots to take, whoever failed, expired or came back.
FreeSlots == Len(idle) + (MaxLive - live)
FreeSlotWakesWaiter ==
    parked # <<>> /\ ~closed => FreeSlots <= Cardinality(At("woken"))

\* Once the pool is closed by force or its shutdown drains, no acquisition is
\* left waiting, registered or parked: each comes back to be refused.
ClosedPoolParksNobody ==
    forced # "off" \/ closer.pc \in {"draining", "drained", "gaveup"}
        => At("told") \cup At("parked") = {}

\* A shutdown that saw no live container left none behind but the strays,
\* whose removal had failed: none that nobody had tried to remove.
DrainedMeansGone == closer.pc = "drained" => exists = {}

\* Closing empties the pool: of those who wait and, once drained, of the
\* containers it still counts.
ClosingEmpties == ClosedPoolParksNobody /\ DrainedMeansGone

\* Every slot the pool counts belongs to a container it holds or destroys, or
\* to a creation under way (pool.rs: "Containers that exist right now").
SlotsAreHeld ==
    live = Len(idle) + Cardinality(leased) + Creating + Len(closer.taken)
           + (IF janitor = Off THEN 0 ELSE 1)

\* A container can be acquired only if no episode had it, or its cleanup went
\* through since.
IdleIsClean == \A i \in DOMAIN idle : idle[i] \in exists \ tainted \/ forced = "swept"

\* With no deadline, a group that resets gets to act.  pool.rs says it of a
\* group larger than the bound too: it "serializes".
EveryGroupActs == \A g \in Groups : group[g] = "resetting" ~> group[g] = "acting" \/ forced = "swept"
GroupSerializes == \A g \in Groups : group[g] = "resetting" ~> group[g] # "resetting" \/ closed
=============================================================================
