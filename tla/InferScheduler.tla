--------------------------- MODULE InferScheduler ---------------------------
(***************************************************************************)
(* The step-wise inference scheduler and the prefix tree of its KV pool.   *)
(* One thread owns it and calls `pump`: drop the cancelled requests, admit *)
(* queued ones into free slots, compose one step of the backend, hand out  *)
(* the tokens it sampled and retire the completions that end.  Clients     *)
(* drop their streams from other threads at any time.                      *)
(*                                                                         *)
(* The pool is unified and the model dense, so a hit may be partial, and   *)
(* adapters are serialized: the configuration the serving session has.     *)
(* Sampled tokens are all `Word`; a completion ends when it likes, or at   *)
(* its budget.  A batch holds a token of every slot, so the rotation of    *)
(* decode rows is left out, and so are host snapshots (an evicted node is  *)
(* dropped), retentions, per-row adapters and lent slots.                  *)
(***************************************************************************)
EXTENDS Integers, Sequences, FiniteSets, SequencesExt, FiniteSetsExt, Subsequence

CONSTANTS
    Requests,
    Prompt,      \* the prompt of each request, a sequence of tokens
    Copies,      \* how many completions each request asks for
    Budget,      \* max_new_tokens of each request
    Adapter,     \* the adapter each request names, or None
    Broken,      \* adapters that cannot be activated
    Leavers,     \* requests whose client may drop the stream
    Word,        \* the token the model samples
    Slots,       \* sequence slots of the pool
    Cells,       \* cells of the pool
    Batch,       \* n_batch
    QueueCap,    \* queue_capacity
    MinPrefix,   \* min_prefix_len
    Updates,     \* bound: how often the weights change between two batches
    Faults,      \* whether a step may fail for a reason of the backend's own
    Torn,        \* whether a flag may be set while remove_cancelled runs
    Modes,       \* admission modes explored
    None         \* the base model, and where a lookup finds no node

ASSUME InferAssumption ==
    /\ \A r \in Requests :
        /\ Prompt[r] \in Seq(Int) /\ Prompt[r] # <<>>
        /\ Copies[r] \in Nat \ {0} /\ Budget[r] \in Nat \ {0}
    /\ {Slots, Cells, QueueCap, MinPrefix} \subseteq Nat \ {0}
    /\ Batch \in Nat /\ Batch >= Slots /\ Batch > 1
    /\ Leavers \subseteq Requests /\ Updates \in Nat /\ {Faults, Torn} \subseteq BOOLEAN
    /\ Modes \subseteq {"Lockstep", "Continuous"} /\ Word \in Int
    /\ None \notin [path : Seq(Int), slot : Int]

VARIABLES
    mode,        \* AdmissionMode, chosen once
    at,          \* where the thread is within a pump
    queue,       \* requests waiting for admission, oldest first
    wave,        \* requests selected for the wave, and the cells held for each
    pins,        \* paths the selection has pinned
    groups,      \* live groups, in order of admission
    kv,          \* what each slot holds, position by position
    dormant,     \* nodes of the tree that own a slot, least recent first
    adapter,     \* the active adapter
    weights,     \* generation of the weights
    key,         \* what the tree is valid under
    cancelled,   \* requests whose cancellation flag is set
    sent,        \* requests submitted
    told         \* completions of each request told of their end

vars == <<mode, at, queue, wave, pins, groups, kv, dormant, adapter, weights,
          key, cancelled, sent, told>>

Pool == 1 .. Slots
CacheKey == <<adapter, weights>>
Init ==
    /\ mode \in Modes /\ at = "idle"
    /\ queue = <<>> /\ wave = <<>> /\ pins = {} /\ groups = <<>>
    /\ kv = [s \in Pool |-> <<>>] /\ dormant = <<>>
    /\ adapter = None /\ weights = 0 /\ key = CacheKey
    /\ cancelled = {} /\ sent = {}
    /\ told = [r \in Requests |-> 0]

-----------------------------------------------------------------------------
(* The pool: slots hold cells, a copy shares the cells of its source.      *)

CellsUsed(pool) == {c.cell : c \in UNION {Range(pool[s]) : s \in Pool}}
FreeCells(pool) == (1 .. Cells) \ CellsUsed(pool)

\* seq_cp of positions [0, n), seq_cp of whole slots, each pair a source and
\* its destination, and seq_rm of whole slots.
Copy(pool, src, dst, n) ==
    [pool EXCEPT ![dst] = SubSeq(pool[src], 1, Min({n, Len(pool[src])}))]
CopyAll(pool, pairs) == [s \in Pool |->
    IF \E c \in pairs : c[2] = s THEN pool[(CHOOSE c \in pairs : c[2] = s)[1]] ELSE pool[s]]
Clear(pool, ss) == [s \in Pool |-> IF s \in ss THEN <<>> ELSE pool[s]]

-----------------------------------------------------------------------------
(* Groups.  A member is named by its group and its place in it.            *)

PromptOf(g) == Prompt[g.ms[1].req]
On(g) == {i \in DOMAIN g.ms : g.ms[i].on}
\* A shared prefix stops before the token each member samples from.
PrefixEnd(g) == Len(PromptOf(g)) - (IF Len(g.ms) > 1 THEN 1 ELSE 0)
LiveSlots(gs) == UNION {{g.ms[i].slot : i \in On(g)} : g \in Range(gs)}
StillLive(gs) == Kept(gs, {g \in DOMAIN gs : On(gs[g]) # {}})
DormantSlots == {d.slot : d \in Range(dormant)}
Reserved(g) == Total([i \in On(g) |-> Len(PromptOf(g)) - g.hit + Budget[g.ms[i].req]])

Member(gs, p) == gs[p[1]].ms[p[2]]
\* Completions of `r` being decoded, and of all requests.
Decoding(r) == {p \in (DOMAIN groups) \X Pool :
    p[2] \in On(groups[p[1]]) /\ Member(groups, p).req = r}
Members == {p \in (DOMAIN groups) \X Pool : p[2] \in On(groups[p[1]])}

\* The prompt of a member and what it has sampled; how much of that its slot
\* holds.
Own(gs, p) == PromptOf(gs[p[1]]) \o [j \in 1 .. Member(gs, p).gen |-> Word]
Resident(gs, pool, p) == Len(pool[Member(gs, p).slot])
Path(gs, pool, p) == SubSeq(Own(gs, p), 1, Resident(gs, pool, p))
\* Of the members `ps`, ended in this order, those whose slot becomes a node of
\* the tree: what it holds is long enough and has no node yet.
BecomeNodes(gs, pool, ps) == {k \in DOMAIN ps :
    /\ Resident(gs, pool, ps[k]) \in MinPrefix .. Len(Own(gs, ps[k]))
    /\ \A d \in Range(dormant) : d.path # Path(gs, pool, ps[k])
    /\ \A n \in 1 .. k - 1 : Path(gs, pool, ps[n]) # Path(gs, pool, ps[k])}
Ended(m) == [m EXCEPT !.on = FALSE]
EndIn(gs, ps) == [g \in DOMAIN gs |-> [gs[g] EXCEPT !.ms = [i \in DOMAIN gs[g].ms |->
    IF <<g, i>> \in Range(ps) THEN Ended(gs[g].ms[i]) ELSE gs[g].ms[i]]]]

\* finish_member, for each of `ps`.
Retire(gs, pool, ps) ==
    LET kept == BecomeNodes(gs, pool, ps)
        node(p) == [path |-> Path(gs, pool, p), slot |-> Member(gs, p).slot]
    IN  /\ groups' = StillLive(EndIn(gs, ps))
        /\ kv' = Clear(pool, {Member(gs, ps[k]).slot : k \in DOMAIN ps \ kept})
        /\ dormant' = dormant \o Kept([k \in DOMAIN ps |-> node(ps[k])], kept)

-----------------------------------------------------------------------------
(* Callers.                                                                *)

\* Scheduler::submit, on the thread: a full queue refuses the call, and the
\* callers hold the request back until there is room.
Submit(r) ==
    /\ at = "idle" /\ r \notin sent /\ Len(queue) < QueueCap
    /\ queue' = Append(queue, r) /\ sent' = sent \cup {r}
    /\ UNCHANGED <<mode, at, wave, pins, groups, kv, dormant, adapter, weights,
                   key, cancelled, told>>

\* The client drops its stream; one that leaves its stream full for longer
\* than slow_client_timeout is cancelled by the same flag.
Cancel(r) ==
    /\ r \in (Leavers \cap sent) \ cancelled /\ told[r] < Copies[r]
    /\ cancelled' = cancelled \cup {r}
    /\ UNCHANGED <<mode, at, queue, wave, pins, groups, kv, dormant, adapter,
                   weights, key, sent, told>>

\* The weights change between two batches of requests (a training step).
Update ==
    /\ at = "idle" /\ queue = <<>> /\ groups = <<>> /\ weights < Updates
    /\ weights' = weights + 1
    /\ UNCHANGED <<mode, at, queue, wave, pins, groups, kv, dormant, adapter,
                   key, cancelled, sent, told>>

-----------------------------------------------------------------------------
(* A pump: cancellation.                                                   *)

\* A cancelled request that waits is dropped without a word.
Sweep ==
    /\ at = "idle" /\ (queue # <<>> \/ groups # <<>>)
    /\ queue' = Sift(queue, Requests \ cancelled)
    /\ at' = "remove"
    /\ UNCHANGED <<mode, wave, pins, groups, kv, dormant, adapter, weights, key,
                   cancelled, sent, told>>

Staying(g, flags) == {i \in On(g) : g.ms[i].req \notin flags}
\* The prefix a cancelled leader has prefilled goes to the first member that
\* stays.
Inherits(g) ==
    g.phase = "prefill" /\ g.ms[g.leader].req \in cancelled /\ Staying(g, cancelled) # {}
HandedOver == [g \in DOMAIN groups |->
    IF Inherits(groups[g])
    THEN [groups[g] EXCEPT !.leader = Min(Staying(groups[g], cancelled))]
    ELSE groups[g]]
HandOver == CopyAll(kv, {
    <<groups[g].ms[groups[g].leader].slot, HandedOver[g].ms[HandedOver[g].leader].slot>> :
    g \in {g \in DOMAIN groups : Inherits(groups[g]) /\ groups[g].pos > 0}})

\* remove_cancelled looks at the flags twice: for the leader, and again for
\* the members to end.  `late` are the flags set in between.
RemoveCancelled ==
    /\ at = "remove"
    /\ \E late \in IF Torn THEN SUBSET ((Leavers \cap sent) \ cancelled) ELSE {{}} :
        /\ cancelled' = cancelled \cup late
        /\ Retire(HandedOver, HandOver,
                  InOrder({p \in Members : Member(groups, p).req \in cancelled \cup late}))
    /\ at' = IF queue = <<>> THEN "step" ELSE "admit"
    /\ UNCHANGED <<mode, queue, wave, pins, adapter, weights, key, sent, told>>

-----------------------------------------------------------------------------
(* A pump: admission.                                                      *)

Refuse(rs) == told' = [r \in Requests |-> told[r] + (IF r \in rs THEN Copies[r] ELSE 0)]
WholeNeed(r) == Copies[r] * (Len(Prompt[r]) + Budget[r])
\* A fault: what can never fit waits for room.
ImpossibleWaits(r) == FALSE
\* What can never fit is refused, not kept waiting.
Impossible(r) == Copies[r] > Slots \/ WholeNeed(r) > Cells

\* A fault: the tree survives a change of weights.
TreeKept(newKey) == key' = newKey /\ UNCHANGED <<kv, dormant>>

\* refresh_key: a tree computed under another key is dropped.
Refresh(newKey) ==
    /\ key' = newKey
    /\ IF newKey = key THEN UNCHANGED <<kv, dormant>>
       ELSE dormant' = <<>> /\ kv' = Clear(kv, DormantSlots)

\* With nothing live the front of the queue chooses the adapter; an adapter
\* that cannot be activated refuses its requests.
ChooseAdapter ==
    /\ at = "admit"
    /\ LET possible == Sift(queue, {r \in Requests : ~Impossible(r)})
           target == IF groups = <<>> /\ possible # <<>>
                     THEN Adapter[Head(possible)] ELSE adapter
           broken == target # adapter /\ target \in Broken
           refused == {r \in Range(queue) : Impossible(r) \/ (broken /\ Adapter[r] = target)}
       IN  /\ queue' = Sift(queue, Requests \ refused)
           /\ Refuse(refused)
           /\ adapter' = IF broken THEN adapter ELSE target
           /\ Refresh(<<adapter', weights>>)
           /\ at' = IF possible = <<>> \/ broken THEN "step" ELSE "place"
    /\ UNCHANGED <<mode, wave, pins, groups, weights, cancelled, sent>>

Candidates == Sift(queue, {r \in Requests : Adapter[r] = adapter})
\* A fault: the requests of other adapters are not put back.
OthersLost == <<>>
Others == Sift(queue, {r \in Requests : Adapter[r] # adapter})

Common(p, q) == Max({n \in 0 .. Min({Len(p), Len(q)}) : SubSeq(p, 1, n) = SubSeq(q, 1, n)})
Cold == [len |-> 0, node |-> None]
\* The node that shares the most tokens with `p`: the one that ends there, or
\* else the deepest of those that go on with the smallest token.  The last
\* token of a prompt is never taken from the tree.
Hit(p) ==
    LET best == Max({0} \cup {Common(d.path, p) : d \in Range(dormant)})
        near == {d \in Range(dormant) : Common(d.path, p) = best}
        ends == {d \in near : Len(d.path) = best}
        next(d) == d.path[best + 1]
        first == {d \in near : \A e \in near : next(d) <= next(e)}
    IN  IF Min({best, Len(p) - 1}) = 0 THEN Cold
        ELSE [len |-> Min({best, Len(p) - 1}),
              node |-> IF ends # {} THEN CHOOSE d \in ends : TRUE
                       ELSE CHOOSE d \in first : \A e \in first : Len(d.path) >= Len(e.path)]

\* A node is least recently used at the head; a hit or a pin renews it.
Renewed(node) == IF node = None THEN dormant ELSE Append(Without(dormant, node), node)

Need(r) == Copies[r] * (Len(Prompt[r]) + Budget[r] - Hit(Prompt[r]).len)
\* capacity: what the pool reports, or the bound on what it may come to hold.
Committed == Max({Cardinality(CellsUsed(kv)),
    Total([g \in DOMAIN groups |-> Reserved(groups[g])])
        + Total([d \in DOMAIN dormant |-> Len(dormant[d].path)])})
InWave == {w.req : w \in Range(wave)}
\* The completions of requests, none of which asks for more than there are slots.
Seats(rs) == {s \in rs \X Pool : s[2] <= Copies[s[1]]}
FreeSlots == Pool \ (LiveSlots(groups) \cup DormantSlots)
\* The request fits beside the live groups, the tree and the pending wave.
Fits(r) ==
    /\ Cardinality(Seats(InWave)) + Copies[r] <= Cardinality(FreeSlots)
    /\ Total([i \in DOMAIN wave |-> wave[i].need]) + Need(r) <= Cells - Committed

\* A fault: the nodes a wave counts on are evicted with the others.
PinsIgnored(d) == FALSE
Pinned(d) == d.path \in pins
Evictable == Sift(dormant, {d \in Range(dormant) : ~Pinned(d)})

\* admit_group: free slots from the lowest, the cached prefix in the first.
Place(rs) ==
    LET seats == InOrder({s \in (DOMAIN rs) \X Pool : s[2] <= Copies[rs[s[1]]]})
        hit == Hit(Prompt[rs[1]])
        group == [ms |-> [i \in DOMAIN seats |->
                      [req |-> rs[seats[i][1]], slot |-> Nth(FreeSlots, i), gen |-> 0, on |-> TRUE]],
                  leader |-> 1, phase |-> "prefill", hit |-> hit.len, pos |-> 0]
    IN  /\ groups' = Append(groups, [group EXCEPT !.pos = Min({hit.len, PrefixEnd(group)})])
        /\ kv' = IF hit = Cold THEN kv ELSE Copy(kv, hit.node.slot, Nth(FreeSlots, 1), hit.len)
        /\ dormant' = Renewed(hit.node)

MayPlace == at = "place" /\ Candidates # <<>> /\ (mode = "Lockstep" => groups = <<>>)
FrontFits == MayPlace /\ Fits(Head(Candidates))

\* Continuous: the front joins the live groups as soon as it fits.
AdmitFront ==
    /\ mode = "Continuous" /\ FrontFits
    /\ Place(<<Head(Candidates)>>)
    /\ queue' = Without(queue, Head(Candidates))
    /\ UNCHANGED <<mode, at, wave, pins, adapter, weights, key, cancelled, sent, told>>

\* Lockstep: the front joins the wave, and the node it hits is pinned.
SelectFront ==
    /\ mode = "Lockstep" /\ FrontFits
    /\ LET node == Hit(Prompt[Head(Candidates)]).node
       IN  /\ pins' = IF node = None THEN pins ELSE pins \cup {node.path}
           /\ dormant' = Renewed(node)
    /\ wave' = Append(wave, [req |-> Head(Candidates), need |-> Need(Head(Candidates))])
    /\ queue' = Without(queue, Head(Candidates))
    /\ UNCHANGED <<mode, at, groups, kv, adapter, weights, key, cancelled, sent, told>>

\* The front does not fit: the least recently used node makes room.  There
\* are at most as many nodes as slots, so the bound on evictions never bites.
Evict ==
    /\ MayPlace /\ ~FrontFits /\ Evictable # <<>>
    /\ kv' = Clear(kv, {Head(Evictable).slot})
    /\ dormant' = Without(dormant, Head(Evictable))
    /\ UNCHANGED <<mode, at, queue, wave, pins, groups, adapter, weights, key,
                   cancelled, sent, told>>

\* Nothing more fits.  The other adapters' requests go ahead of what is left.
EndSelection ==
    /\ at = "place" /\ (MayPlace => ~FrontFits /\ Evictable = <<>>)
    /\ queue' = Others \o Candidates
    /\ at' = IF wave = <<>> THEN "step" ELSE "wave"
    /\ UNCHANGED <<mode, wave, pins, groups, kv, dormant, adapter, weights, key,
                   cancelled, sent, told>>

\* The wave is placed by length of prompt, identical prompts as one group;
\* the order of the sampling parameters within a length is left open.
PlaceWave ==
    /\ at = "wave"
    /\ \E r \in InWave :
        /\ \A q \in InWave : Len(Prompt[r]) <= Len(Prompt[q])
        /\ LET run == Sift(wave, {w \in Range(wave) : Prompt[w.req] = Prompt[r]})
           IN  Place([i \in DOMAIN run |-> run[i].req])
        /\ wave' = Sift(wave, {w \in Range(wave) : Prompt[w.req] # Prompt[r]})
    /\ IF wave' = <<>> THEN at' = "step" /\ pins' = {} ELSE UNCHANGED <<at, pins>>
    /\ UNCHANGED <<mode, queue, adapter, weights, key, cancelled, sent, told>>

-----------------------------------------------------------------------------
(* A pump: the step.                                                       *)

\* A prefilled prefix is copied to the other members; members that have all
\* sampled their first token decode.
Prefilled(g) == g.phase = "prefill" /\ g.pos = PrefixEnd(g)
Advanced(g) ==
    CASE Prefilled(g) /\ Len(g.ms) > 1 -> [g EXCEPT !.phase = "terminal", !.pos = 1]
      [] Prefilled(g) /\ Len(g.ms) = 1 -> [g EXCEPT !.phase = "decode"]
      [] g.phase = "terminal" /\ \A i \in On(g) : i < g.pos -> [g EXCEPT !.phase = "decode"]
      [] OTHER -> g
Ready == [g \in DOMAIN groups |-> Advanced(groups[g])]
ReadyPool == CopyAll(kv, {
    <<groups[p[1]].ms[groups[p[1]].leader].slot, Member(groups, p).slot>> :
    p \in {p \in Members : Prefilled(groups[p[1]])}})

\* One token of every decoding member; a lockstep wave prefills entirely
\* before it decodes.
Decodes(gs) ==
    IF mode = "Lockstep" /\ \E g \in Range(gs) : g.phase # "decode" THEN {}
    ELSE {p \in (DOMAIN gs) \X Pool : gs[p[1]].phase = "decode" /\ p[2] \in On(gs[p[1]])}

\* What the other groups have to feed: tokens of the prompt, up to the end of
\* the prefix, or the last one for each member that has not sampled yet.
Wants(g) == CASE g.phase = "prefill" -> g.pos + 1 .. PrefixEnd(g)
              [] g.phase = "terminal" -> {i \in On(g) : i >= g.pos}
              [] OTHER -> {}
Wanted(gs) == UNION {{g} \X Wants(gs[g]) : g \in DOMAIN gs}
\* They take what the batch has left, in the order of the groups.
Taken(gs) == {p \in Wanted(gs) :
    Cardinality({q \in Wanted(gs) : Before(q, p)}) < Batch - Cardinality(Decodes(gs))}

\* A token of a step: the member it is of, its slot and its place there, and
\* whether the member samples from it.
Feed(gs, p, pos, tok, sample) ==
    [of |-> p, slot |-> Member(gs, p).slot, pos |-> pos, tok |-> tok, sample |-> sample]
FeedDecode(gs, p) ==
    Feed(gs, p, Len(PromptOf(gs[p[1]])) + Member(gs, p).gen - 1, Word, TRUE)
FeedPrompt(gs, p) ==
    LET g == gs[p[1]]
        last == Len(PromptOf(g))
    IN  IF g.phase = "prefill"
        THEN Feed(gs, <<p[1], g.leader>>, p[2] - 1, PromptOf(g)[p[2]], p[2] = last)
        ELSE Feed(gs, p, last - 1, PromptOf(g)[last], TRUE)
Compose(gs) ==
    LET ds == InOrder(Decodes(gs))
        ts == InOrder(Taken(gs))
    IN  [n \in DOMAIN ds |-> FeedDecode(gs, ds[n])] \o [n \in DOMAIN ts |-> FeedPrompt(gs, ts[n])]
Fed == Compose(Ready)

\* The backend takes a step whose tokens find cells and continue their slots.
Accepted(pool, fed) ==
    /\ Len(fed) <= Cardinality(FreeCells(pool))
    /\ \A n \in DOMAIN fed :
        fed[n].pos = Len(pool[fed[n].slot])
                       + Cardinality({m \in 1 .. n - 1 : fed[m].slot = fed[n].slot})
Written(pool, fed) ==
    LET cells == [n \in DOMAIN fed |->
            [cell |-> Nth(FreeCells(pool), n), tok |-> <<CacheKey, fed[n].tok>>]]
    IN  [s \in Pool |-> pool[s] \o Kept(cells, {n \in DOMAIN fed : fed[n].slot = s})]

\* A fault: the budget is looked at before the token is counted.
BudgetLate(m) == m.gen > Budget[m.req]
BudgetSpent(m) == m.gen >= Budget[m.req]

\* The members that sample, and those of them who still listen.
Sampling(fed) == {fed[n].of : n \in {n \in DOMAIN fed : fed[n].sample}}
Emitting(fed) == {p \in Sampling(fed) : Member(groups, p).req \notin cancelled}
Sampled(m) == [m EXCEPT !.gen = @ + 1]
\* A group after the step: how far it has come, and its members' new tokens.
MovedOn(g, ks) ==
    IF ks = {} THEN g.pos ELSE Max(ks) + (IF g.phase = "prefill" THEN 0 ELSE 1)
Emitted(gs, taken, emitting) == [g \in DOMAIN gs |->
    [gs[g] EXCEPT
        !.pos = MovedOn(gs[g], {k \in Wants(gs[g]) : <<g, k>> \in taken}),
        !.ms = [i \in DOMAIN gs[g].ms |->
            IF <<g, i>> \in emitting THEN Sampled(gs[g].ms[i]) ELSE gs[g].ms[i]]]]

\* Members end because their client has left, at a stop of their own, or at
\* their budget; a client that listens is told.
Step ==
    /\ at = "step" /\ Fed # <<>> /\ Accepted(ReadyPool, Fed)
    /\ LET fed == Fed
           emitting == Emitting(fed)
           after == Emitted(Ready, Taken(Ready), emitting)
           spent == {p \in emitting : BudgetSpent(Member(after, p))}
       IN  \E stops \in SUBSET (emitting \ spent) :
             LET finish == stops \cup spent
                 ends == {p \in Sampling(fed) : p \in emitting => p \in finish}
             IN  /\ Retire(after, Written(ReadyPool, fed),
                           Kept([n \in DOMAIN fed |-> fed[n].of],
                                {n \in DOMAIN fed : fed[n].sample /\ fed[n].of \in ends}))
                 /\ told' = [r \in Requests |->
                      told[r] + Cardinality({p \in finish : Member(groups, p).req = r})]
    /\ at' = "idle"
    /\ UNCHANGED <<mode, queue, wave, pins, adapter, weights, key, cancelled, sent>>

\* The backend refuses the step: every live completion is told, and the
\* slots are given back empty.
StepFails ==
    /\ at = "step" /\ Fed # <<>> /\ (Faults \/ ~Accepted(ReadyPool, Fed))
    /\ kv' = Clear(kv, LiveSlots(groups) \cup {f.slot : f \in Range(Fed)})
    /\ told' = [r \in Requests |-> told[r] + Cardinality(Decoding(r))]
    /\ groups' = <<>> /\ at' = "idle"
    /\ UNCHANGED <<mode, queue, wave, pins, dormant, adapter, weights, key,
                   cancelled, sent>>

\* Nothing is live.
NoStep ==
    /\ at = "step" /\ groups = <<>>
    /\ at' = "idle"
    /\ UNCHANGED <<mode, queue, wave, pins, groups, kv, dormant, adapter,
                   weights, key, cancelled, sent, told>>

Pump ==
    \/ Sweep \/ RemoveCancelled \/ ChooseAdapter
    \/ AdmitFront \/ SelectFront \/ Evict \/ EndSelection \/ PlaceWave
    \/ Step \/ StepFails \/ NoStep

Next ==
    \/ Pump \/ Update
    \/ \E r \in Requests : Submit(r) \/ Cancel(r)

Spec == Init /\ [][Next]_vars

Idle == at = "idle" /\ queue = <<>> /\ groups = <<>>

\* The owner of the scheduler pumps it while it is not idle: weak fairness of
\* Pump, which is enabled exactly then (StepsGoThrough).
FairSpec == Spec /\ ([]<>Idle \/ []<><<Pump>>_vars)

-----------------------------------------------------------------------------
(* Properties.                                                             *)

\* What a slot holds, each position under the weights it was computed with.
Holds(s, path, under) ==
    /\ Len(kv[s]) <= Len(path)
    /\ \A n \in DOMAIN kv[s] : kv[s][n].tok = <<under, path[n]>>

TypeOK ==
    /\ mode \in Modes
    /\ at \in {"idle", "remove", "admit", "place", "wave", "step"}
    /\ Range(queue) \cup InWave \subseteq sent /\ sent \subseteq Requests
    /\ Len(queue) <= QueueCap
    /\ \A g \in Range(groups) :
        /\ g.phase \in {"prefill", "terminal", "decode"}
        /\ Len(g.ms) <= Slots /\ g.leader \in DOMAIN g.ms
        /\ g.hit \in 0 .. Len(PromptOf(g)) - 1
        /\ g.pos \in 0 .. Len(PromptOf(g)) + Slots
        /\ \A m \in Range(g.ms) :
             m.slot \in Pool /\ m.gen \in 0 .. Budget[m.req] /\ m.on \in BOOLEAN
        /\ \A i \in On(g) : g.ms[i].gen < Budget[g.ms[i].req]
    /\ \A s \in Pool : \A c \in Range(kv[s]) : c.cell \in 1 .. Cells
    /\ cancelled \subseteq sent \cap Leavers
    /\ pins \subseteq {d.path : d \in Range(dormant)}
    /\ weights \in 0 .. Updates
    /\ \A r \in Requests : told[r] \in 0 .. Copies[r]

\* A slot has one user, and holds that user's own prefix: a live member the
\* prompt and what it has sampled, computed under the adapter and the weights
\* in force; a node of the tree exactly its path, under the tree's key; a
\* free slot nothing.  Copies from the tree, hand-overs from a cancelled
\* leader, evictions and retirements never mix two requests, nor reuse what
\* other weights computed (scheduler.rs:1485-1488 and 545-547, kv.rs:14-19).
SlotsHoldTheirOwn ==
    /\ Cardinality(LiveSlots(groups)) = Cardinality(Members)
    /\ Cardinality(DormantSlots) = Len(dormant)
    /\ LiveSlots(groups) \cap DormantSlots = {}
    /\ \A s \in Pool \ (LiveSlots(groups) \cup DormantSlots) : kv[s] = <<>>
    /\ \A d \in Range(dormant) : Len(kv[d.slot]) = Len(d.path) /\ Holds(d.slot, d.path, key)
    /\ \A p \in Members :
        LET m == Member(groups, p) IN
        /\ Holds(m.slot, Own(groups, p), CacheKey)
        /\ groups[p[1]].phase = "decode" =>
             Len(kv[m.slot]) = Len(Own(groups, p)) - 1

\* A step finds its cells: admission charges each request what it will come
\* to hold, so a live member "never writes more than its reservation" and no
\* step runs out of cells (scheduler.rs:1341-1344).
StepFindsCells == at = "step" => Accepted(ReadyPool, Fed)

\* Live completions always have a token to feed, so a pump never idles over
\* them; and of a wave admitted in lockstep StepFindsCells is true: the nodes
\* its requests hit are pinned while it is selected, "so a later eviction
\* cannot take back the cells it was charged without"
\* (scheduler.rs:1286-1289).
LiveAreFed == at = "step" /\ groups # <<>> => Fed # <<>>
StepsGoThrough == LiveAreFed /\ (mode = "Lockstep" => StepFindsCells)

\* Every completion of a request is in one place: queued or in the wave, live,
\* or told of its end, exactly once, whatever a cancellation, a refusal, a
\* broken adapter or a failed step does in between.  Only a request whose
\* stream was dropped goes untold (scheduler.rs:1782-1803 and 1930-1947).
StreamsEndOnce ==
    \A r \in Requests :
        LET waits == IF r \in Range(queue) \cup InWave THEN Copies[r] ELSE 0
            lives == Cardinality(Decoding(r))
        IN  /\ told[r] + waits + lives <= Copies[r]
            /\ r \in sent \ cancelled => told[r] + waits + lives = Copies[r]

\* Every request submitted is told of its end or cancelled: the front is not
\* overtaken for ever by requests of other adapters, by smaller ones, or by
\* the tree's hold on the slots (scheduler.rs:1222-1229 and 1327-1328).
\* The requests are finitely many and none is untold again, so "in the end all
\* are" says it of each.
QueuedAreServed ==
    <>[](\A r \in sent : told[r] = Copies[r] \/ r \in cancelled)

=============================================================================
