--------------------------- MODULE DeviceSession ---------------------------
(***************************************************************************)
(* The serving session and the training runs it shares the device with.    *)
(* One thread (`retrograd-serve`) owns the loaded model.  It takes one     *)
(* envelope at a time from a bounded inbox, looks at the yield flag after  *)
(* each, and pumps its scheduler one step between two envelopes while      *)
(* requests are live.  A loaded model holds a permit of the semaphore the  *)
(* runs queue on; a run that finds none free raises the flag, wakes the    *)
(* thread and only then takes its place in the line.                       *)
(*                                                                         *)
(* Prompts, tokens and adapters are left out: a step of the scheduler      *)
(* admits what fits and ends some of the requests it decodes.  Requests    *)
(* of `Others` name another base model, `Embeds` are embeddings, `Budgets` *)
(* ask for another reasoning budget than the default.                      *)
(***************************************************************************)
EXTENDS Naturals, Sequences, FiniteSets, SequencesExt, Subsequence

CONSTANTS
    Requests,   \* one-shot requests of clients
    Others,     \* those that name the second base model
    Embeds,     \* those that are embeddings
    Budgets,    \* those that replace the reasoning budget
    Leavers,    \* those whose client may go away before the answer
    Runs,       \* training runs
    Permits,    \* permits of the device semaphore
    Slots,      \* requests the scheduler decodes at once
    QueueCap,   \* SessionOptions::queue
    None        \* no model, no request

ASSUME SessionAssumption ==
    /\ UNION {Others, Embeds, Budgets, Leavers} \subseteq Requests
    /\ Budgets \cap Embeds = {}
    /\ {Permits, Slots, QueueCap} \subseteq Nat \ {0}
    /\ None \notin Requests \cup {"A", "B"}
    /\ IsFiniteSet(Runs)

VARIABLES
    inbox,      \* envelopes, oldest first
    yielding,   \* yield_requested
    model,      \* base model loaded, or None
    budget,     \* whether the engine runs the non-default reasoning budget
    queue,      \* requests waiting for admission in the scheduler
    live,       \* requests being decoded
    lease,      \* whether the session holds a permit
    at,         \* what the thread does next
    job,        \* the request it does it for
    st,         \* what each request has come to
    free,       \* permits nobody holds
    line,       \* runs queued on the semaphore
    run         \* where each run's task stands

thread == <<inbox, yielding, model, budget, queue, live, at, job>>
device == <<lease, free, line, run>>
vars == <<inbox, yielding, model, budget, queue, live, lease, at, job, st,
          free, line, run>>

Wake == "wake"
Base(r) == IF r \in Others THEN "B" ELSE "A"
Final == {"answered", "busy", "refused", "failed", "lost", "left"}
InboxCap == QueueCap + 1

\* The request is in the scheduler, its stream open.
InScheduler == live \cup Range(queue)
\* Scheduler::is_idle, of a loaded model.
Busy == model # None /\ InScheduler # {}
\* Requests whose client still holds the stream.
Listening(rs) == {r \in rs : st[r] # "left"}
\* `rs` come to `what`, except those nobody listens to.
Settle(rs, what) == [r \in Requests |->
    IF r \in Listening(rs) THEN what ELSE st[r]]

TypeOK ==
    /\ inbox \in Seq(Requests \cup {Wake}) /\ Len(inbox) <= InboxCap
    /\ yielding \in BOOLEAN /\ budget \in BOOLEAN /\ lease \in BOOLEAN
    /\ model \in {None, "A", "B"}
    /\ queue \in Seq(Requests) /\ Len(queue) <= QueueCap
    /\ live \in SUBSET Requests /\ Cardinality(live) <= Slots
    /\ at \in {"look", "serve", "lease", "load", "submit", "drain", "check",
               "unload", "pump"}
    /\ job \in Requests \cup {None}
    /\ st \in [Requests -> {"new", "sent", "open"} \cup Final]
    /\ free \in 0 .. Permits
    /\ line \in Seq(Runs) /\ Len(line) <= Cardinality(Runs)
    /\ run \in [Runs -> {"new", "refused", "flagged", "woken", "waiting",
                         "training", "done"}]

Init ==
    /\ inbox = <<>> /\ yielding = FALSE
    /\ model = None /\ budget = FALSE /\ queue = <<>> /\ live = {}
    /\ lease = FALSE
    /\ at = "look" /\ job = None
    /\ st = [r \in Requests |-> "new"]
    /\ free = Permits /\ line = <<>>
    /\ run = [u \in Runs |-> "new"]

-----------------------------------------------------------------------------
(* The semaphore: a permit given back goes to the first in the line.       *)

\* What is free, the line and the runs, once a permit is given back while
\* the runs stand as `runs`.
GiveBack(runs) ==
    IF line = <<>>
    THEN free' = free + 1 /\ run' = runs /\ UNCHANGED line
    ELSE /\ run' = [runs EXCEPT ![Head(line)] = "training"]
         /\ line' = Tail(line)
         /\ UNCHANGED free

-----------------------------------------------------------------------------
(* Clients.                                                                *)

\* Session::submit and Session::embed: try_send, a full inbox answers 503.
Submit(r) ==
    /\ st[r] = "new"
    /\ IF Len(inbox) < InboxCap
       THEN inbox' = Append(inbox, r) /\ st' = [st EXCEPT ![r] = "sent"]
       ELSE st' = [st EXCEPT ![r] = "busy"] /\ UNCHANGED inbox
    /\ UNCHANGED <<yielding, model, budget, queue, live, at, job, device>>

\* The client disconnects or times out: the reply channel or the stream of
\* its request is dropped.
Leave(r) ==
    /\ r \in Leavers /\ st[r] \in {"sent", "open"}
    /\ st' = [st EXCEPT ![r] = "left"]
    /\ UNCHANGED <<thread, device>>

-----------------------------------------------------------------------------
(* The session's thread.                                                   *)

\* Takes an envelope.  A job whose client has left is skipped.
Receive ==
    /\ at = "look" /\ inbox # <<>>
    /\ inbox' = Tail(inbox)
    /\ LET e == Head(inbox)
           served == e # Wake /\ e \in Listening(Requests)
       IN  /\ at' = IF served THEN "serve" ELSE "check"
           /\ job' = IF served THEN e ELSE None
    /\ UNCHANGED <<yielding, model, budget, queue, live, st, device>>

\* Nothing to take while requests are live: go on to the next step.
ReceiveNothing ==
    /\ at = "look" /\ inbox = <<>> /\ Busy
    /\ at' = "check"
    /\ UNCHANGED <<inbox, yielding, model, budget, queue, live, job, st, device>>

\* A fault: the lease is dropped as soon as the weights are loaded.
LeaseDroppedFirst ==
    /\ at = "load"
    /\ lease' = FALSE
    /\ GiveBack(run)
    /\ model' = Base(job) /\ at' = "submit"
    /\ UNCHANGED <<inbox, yielding, budget, queue, live, job, st>>

\* Worker::unload, not graceful: the scheduler goes with every stream it
\* still holds, then the lease.
Unload ==
    /\ model' = None /\ queue' = <<>> /\ live' = {} /\ budget' = FALSE
    /\ st' = Settle(InScheduler, "lost")
    /\ lease' = FALSE
    /\ GiveBack(run)

\* The idle bound passes without a request.
IdleTimeout ==
    /\ at = "look" /\ inbox = <<>> /\ model # None /\ ~Busy
    /\ Unload
    /\ at' = "check"
    /\ UNCHANGED <<inbox, yielding, job>>

\* ensure: the loaded model serves the request, or it goes before the next
\* is loaded.
Ensure ==
    /\ at = "serve"
    /\ IF model = Base(job)
       THEN at' = "submit" /\ UNCHANGED <<model, budget, queue, live, st, device>>
       ELSE /\ at' = "lease"
            /\ IF model = None
               THEN UNCHANGED <<model, budget, queue, live, st, device>>
               ELSE Unload
    /\ UNCHANGED <<inbox, yielding, job>>

\* DevicePermit::acquire polls try_acquire_owned until its deadline.
TakeLease ==
    /\ at = "lease" /\ free > 0
    /\ free' = free - 1 /\ lease' = TRUE /\ at' = "load"
    /\ UNCHANGED <<inbox, yielding, model, budget, queue, live, job, st, line, run>>

\* The job ends here for this reason, and the thread looks at the flag.
EndJob(what) ==
    /\ st' = Settle({job}, what)
    /\ at' = "check" /\ job' = None

LeaseRefused ==
    /\ at = "lease" /\ free = 0
    /\ EndJob("busy")
    /\ UNCHANGED <<inbox, yielding, model, budget, queue, live, device>>

Load ==
    /\ at = "load"
    /\ model' = Base(job) /\ at' = "submit"
    /\ UNCHANGED <<inbox, yielding, budget, queue, live, job, st, device>>

\* The weights do not load: the lease taken for them is dropped.
LoadFails ==
    /\ at = "load"
    /\ EndJob("failed")
    /\ lease' = FALSE
    /\ GiveBack(run)
    /\ UNCHANGED <<inbox, yielding, model, budget, queue, live>>

\* Embeddings and a new reasoning budget need an idle scheduler first.
NeedsDrain(r) == r \in Embeds \/ (r \in Budgets) # budget

\* serve: the request joins the scheduler's queue, or finds it full.
Accept ==
    IF Len(queue) < QueueCap
    THEN /\ queue' = Append(queue, job)
         /\ st' = Settle({job}, "open")
         /\ at' = "check" /\ job' = None
    ELSE EndJob("busy") /\ UNCHANGED queue

Serve ==
    /\ at = "submit"
    /\ IF NeedsDrain(job)
       THEN at' = "drain" /\ UNCHANGED <<queue, st, job>>
       ELSE Accept
    /\ UNCHANGED <<inbox, yielding, model, budget, live, device>>

\* The scheduler has drained: the embedding is extracted, or the budget
\* replaced and the request submitted.
Drained ==
    /\ at = "drain" /\ ~Busy
    /\ IF job \in Embeds
       THEN EndJob("answered") /\ UNCHANGED <<queue, budget>>
       ELSE budget' = (job \in Budgets) /\ Accept
    /\ UNCHANGED <<inbox, yielding, model, live, device>>

\* A fault: the model goes at once, the requests in flight with it.
YieldAtOnce ==
    /\ at = "check"
    /\ yielding' = FALSE
    /\ IF yielding /\ model # None
       THEN Unload /\ at' = "look"
       ELSE /\ at' = IF Busy THEN "pump" ELSE "look"
            /\ UNCHANGED <<model, budget, queue, live, st, device>>
    /\ UNCHANGED <<inbox, job>>

\* The flag is taken; with a model loaded the queued requests are refused
\* and the ones in flight run to their end before anything else.
CheckYield ==
    /\ at = "check"
    /\ yielding' = FALSE
    /\ IF yielding /\ model # None
       THEN /\ at' = "unload"
            /\ st' = Settle(Range(queue), "refused")
            /\ queue' = <<>>
       ELSE /\ at' = IF Busy THEN "pump" ELSE "look"
            /\ UNCHANGED <<queue, st>>
    /\ UNCHANGED <<inbox, model, budget, live, job, device>>

\* The model and its contexts are freed, then the permit goes back.
Unloaded ==
    /\ at = "unload" /\ ~Busy
    /\ Unload
    /\ at' = "look"
    /\ UNCHANGED <<inbox, yielding, job>>

\* A fault: admission counts one slot more than there are.
AdmittedOneTooMany ==
    LET kept == Listening(live)
        waiting == Kept(queue, {i \in DOMAIN queue : queue[i] \in Listening(Requests)})
        room == Slots + 1 - Cardinality(kept)
        joining == SubSeq(waiting, 1, IF Len(waiting) < room THEN Len(waiting) ELSE room)
    IN  [live |-> kept \cup Range(joining),
         queue |-> SubSeq(waiting, Len(joining) + 1, Len(waiting))]

\* Scheduler::pump: requests whose client left are swept, queued ones join
\* up to Slots, and some of those decoded end.
Admitted ==
    LET kept == Listening(live)
        waiting == Kept(queue, {i \in DOMAIN queue : queue[i] \in Listening(Requests)})
        room == Slots - Cardinality(kept)
        joining == SubSeq(waiting, 1, IF Len(waiting) < room THEN Len(waiting) ELSE room)
    IN  [live |-> kept \cup Range(joining),
         queue |-> SubSeq(waiting, Len(joining) + 1, Len(waiting))]

\* Where the thread goes after a step that worked, or that failed.
AfterStep == IF at = "pump" THEN "look" ELSE at

Pump ==
    /\ at \in {"pump", "drain", "unload"} /\ Busy
    /\ \E ended \in SUBSET Admitted.live :
         /\ ended # {} \/ Admitted.live # live \/ Admitted.queue # queue
         /\ live' = Admitted.live \ ended
         /\ st' = Settle(ended, "answered")
    /\ queue' = Admitted.queue
    /\ at' = AfterStep
    /\ UNCHANGED <<inbox, yielding, model, budget, job, device>>

\* A fault: a drain that fails is not reported to the request it was for.
DrainFailureSwallowed ==
    /\ at \in {"pump", "drain", "unload"} /\ Busy
    /\ live' = {} /\ queue' = Admitted.queue
    /\ st' = Settle(Admitted.live, "failed")
    /\ at' = IF at = "drain" THEN "check" ELSE AfterStep
    /\ job' = IF at = "drain" THEN None ELSE job
    /\ UNCHANGED <<inbox, yielding, model, budget, device>>

\* The backend fails a step: every request decoded is told, and a drain for
\* a request reports the failure to it.  A drain before a yield goes on.
PumpFails ==
    /\ at \in {"pump", "drain", "unload"} /\ Busy
    /\ live' = {} /\ queue' = Admitted.queue
    /\ LET told == Admitted.live \cup (IF at = "drain" THEN {job} ELSE {})
       IN  st' = Settle(told, "failed")
    /\ at' = IF at = "drain" THEN "check" ELSE AfterStep
    /\ job' = IF at = "drain" THEN None ELSE job
    /\ UNCHANGED <<inbox, yielding, model, budget, device>>

Thread ==
    \/ Receive \/ ReceiveNothing
    \/ Ensure \/ TakeLease \/ LeaseRefused \/ Load \/ LoadFails
    \/ Serve \/ Drained
    \/ CheckYield \/ Unloaded
    \/ Pump \/ PumpFails

-----------------------------------------------------------------------------
(* The task of a run (worker::spawn).                                      *)

TryStart(u) ==
    /\ run[u] = "new"
    /\ IF free > 0
       THEN run' = [run EXCEPT ![u] = "training"] /\ free' = free - 1
       ELSE run' = [run EXCEPT ![u] = "refused"] /\ UNCHANGED free
    /\ UNCHANGED <<thread, st, lease, line>>

\* Session::yield_device: the flag first, then a best-effort Wake.
RaiseFlag(u) ==
    /\ run[u] = "refused"
    /\ yielding' = TRUE
    /\ run' = [run EXCEPT ![u] = "flagged"]
    /\ UNCHANGED <<inbox, model, budget, queue, live, at, job, st, lease, free, line>>

SendWake(u) ==
    /\ run[u] = "flagged"
    /\ inbox' = IF Len(inbox) < InboxCap THEN Append(inbox, Wake) ELSE inbox
    /\ run' = [run EXCEPT ![u] = "woken"]
    /\ UNCHANGED <<yielding, model, budget, queue, live, at, job, st, lease, free, line>>

\* A fault: the Wake goes out before the flag is stored.
WakeBeforeFlag(u) ==
    \/ /\ run[u] = "refused"
       /\ inbox' = IF Len(inbox) < InboxCap THEN Append(inbox, Wake) ELSE inbox
       /\ run' = [run EXCEPT ![u] = "flagged"]
       /\ UNCHANGED <<yielding, model, budget, queue, live, at, job, st, lease, free, line>>
    \/ /\ run[u] = "flagged"
       /\ yielding' = TRUE
       /\ run' = [run EXCEPT ![u] = "woken"]
       /\ UNCHANGED <<inbox, model, budget, queue, live, at, job, st, lease, free, line>>

Ask(u) == RaiseFlag(u) \/ SendWake(u)

\* acquire_owned: a free permit, or the end of the line.
Join(u) ==
    /\ run[u] = "woken"
    /\ IF free > 0
       THEN /\ run' = [run EXCEPT ![u] = "training"]
            /\ free' = free - 1 /\ UNCHANGED line
       ELSE /\ run' = [run EXCEPT ![u] = "waiting"]
            /\ line' = Append(line, u) /\ UNCHANGED free
    /\ UNCHANGED <<thread, st, lease>>

\* The run's thread is joined and its permit dropped.
Finish(u) ==
    /\ run[u] = "training"
    /\ GiveBack([run EXCEPT ![u] = "done"])
    /\ UNCHANGED <<thread, st, lease>>

RunStep(u) == TryStart(u) \/ Ask(u) \/ Join(u) \/ Finish(u)

-----------------------------------------------------------------------------
Next ==
    \/ Thread \/ IdleTimeout
    \/ \E r \in Requests : Submit(r) \/ Leave(r)
    \/ \E u \in Runs : RunStep(u)

Spec == Init /\ [][Next]_vars

\* The thread runs, the idle bound passes, and the task of a run that has
\* been created goes on to the end of its training.
FairSpec ==
    /\ Spec
    /\ WF_vars(Thread) /\ WF_vars(IdleTimeout)
    /\ \A u \in Runs : WF_vars(RunStep(u))

-----------------------------------------------------------------------------
(* Properties.                                                             *)

\* Weights are on the device only under a permit, and permits are neither
\* lost nor made up: a load that fails, a base model replaced, an idle model
\* dropped and a yield each give back exactly the one they hold, after the
\* weights have gone, so the runs that train and the loaded model never
\* exceed max_concurrent_runs (session.rs:20-26 and 972-975).
DeviceFits ==
    /\ model # None => lease
    /\ (at \in {"look", "check", "pump"} /\ lease) => model # None
    /\ Cardinality({u \in Runs : run[u] = "training"})
         + (IF lease THEN 1 ELSE 0) + free = Permits
    /\ line # <<>> => free = 0

\* A yield is never slept through: when the thread blocks on an empty inbox
\* the flag is down, unless the run that raised it has still to send its
\* Wake.  The flag is stored before the Wake, and a Wake that finds the
\* inbox full needs none (session.rs:504-509).
NoYieldSleptThrough ==
    (yielding /\ at = "look" /\ inbox = <<>> /\ ~Busy)
        => \E u \in Runs : run[u] = "flagged"

\* A request that has an open stream loses it without an answer only to a
\* change of base model: giving the device back to a run, or after the idle
\* bound, "in-flight requests are finished properly" (session.rs:23).
InFlightSurvivesYield ==
    [][\A r \in Requests : st[r] # "lost" /\ st'[r] = "lost"
         => at = "serve" /\ Base(job) # model]_vars

\* Everyone is served: every request that got into the inbox comes to an
\* answer, and every run that asks for the device trains, whatever the
\* session was doing when it asked (worker.rs:48-51).
EveryoneIsServed ==
    /\ \A r \in Requests : st[r] = "sent" ~> st[r] \in Final
    /\ \A u \in Runs : run[u] = "refused" ~> run[u] = "training"

\* "The requests after it are refused by the lease, and the run gets the
\* device" (session.rs:501-503): between a run's ask and its place in the
\* line the session does not take the device anew.
YieldIsHonoured ==
    [][~lease /\ lease' => \A u \in Runs : run[u] \notin {"flagged", "woken"}]_vars

=============================================================================
