---------------------------- MODULE RunControl -----------------------------
(***************************************************************************)
(* How a live run of the server is driven: the task and the thread of each *)
(* run (runtime/worker.rs, runtime/control.rs), the HTTP handlers that     *)
(* command it (api/control.rs, api/inference.rs), the device semaphore the *)
(* runs queue for, and the drain of a graceful shutdown (shutdown.rs).     *)
(*                                                                         *)
(* A handler takes three separate steps, as in the code: it reads the      *)
(* status, it queues a command, it asks for a transition.  The thread of   *)
(* the run reads its queue only inside its progress callback.  What the    *)
(* status looks like when these interleave is what this module is about.   *)
(*                                                                         *)
(* Left out: the journal, the event ring and the disk; PATCH, whose        *)
(* command changes schedules only; the chat session, one more holder of a  *)
(* permit; an operating system that refuses a thread, a closed semaphore.  *)
(* Every run here has a checkpoint directory.                              *)
(***************************************************************************)
EXTENDS RunStatus, Integers, Sequences, FiniteSets

CONSTANTS Runs,        \* runs a client may create
          Clients,     \* concurrent HTTP requests
          Offers,      \* the routes the clients use
          QueueDepth,  \* QUEUE_DEPTH of the command channel
          Permits,     \* max_concurrent_runs, the size of the device semaphore
          MaxRequests, \* bound: accepted requests in a behaviour
          Drains       \* whether the server is ever shut down

Routes == {"pause", "resume", "cancel_now", "cancel_boundary", "cancel_keep",
           "checkpoint", "ask"}

ASSUME RunsAssumption == IsFiniteSet(Runs)
ASSUME OffersAssumption == Offers \subseteq Routes
ASSUME DepthAssumption == QueueDepth \in Nat \ {0}
ASSUME PermitsAssumption == Permits \in Nat \ {0}
ASSUME RequestsAssumption == MaxRequests \in Nat
ASSUME DrainsAssumption == Drains \in BOOLEAN

----------------------------------------------------------------------------
(* Commands.  `ask` stands for evaluate, generate and with_trainer: the     *)
(* commands that carry a reply channel; `abandoned` is one whose handler    *)
(* no longer listens.                                                       *)

CancelAts == {"boundary", "now"}
NoCancel == [at |-> "none", checkpoint |-> FALSE]
Cancels == {NoCancel} \cup [at : CancelAts, checkpoint : BOOLEAN]

Plain(kind) == [kind |-> kind]
CancelCommand(at, checkpoint) ==
    [kind |-> "cancel", cancel |-> [at |-> at, checkpoint |-> checkpoint]]
Ask(c) == [kind |-> "ask", from |-> c]

Commands == [kind : {"pause", "resume", "checkpoint", "abandoned"}]
            \cup [kind : {"cancel"}, cancel : [at : CancelAts, checkpoint : BOOLEAN]]
            \cup [kind : {"ask"}, from : Clients]

\* The command a route queues.  A cancellation "now" cannot ask for a checkpoint.
CommandOf(c, route) ==
    CASE route = "cancel_now"      -> CancelCommand("now", FALSE)
      [] route = "cancel_boundary" -> CancelCommand("boundary", FALSE)
      [] route = "cancel_keep"     -> CancelCommand("boundary", TRUE)
      [] route = "ask"             -> Ask(c)
      [] OTHER                     -> Plain(route)

\* The statuses in which a handler goes on to queue its command.
Admits(kind) ==
    CASE kind = "pause"  -> {"running", "starting"}
      [] kind = "resume" -> {"paused", "pausing"}
      [] kind = "cancel" -> {"starting", "running", "pausing", "paused"}
      [] OTHER           -> {"running", "pausing", "paused"}

----------------------------------------------------------------------------
VARIABLES
    status,    \* the status in each run's handle
    terminals, \* the terminal events each run has published, in order
    device,    \* free permits of the device semaphore
    line,      \* the runs waiting for a permit, first come first served
    worker,    \* where the task of each run, then its thread, is
    failed,    \* whether the run's outcome is an error
    commands,  \* the command channel of each run
    thread,    \* ChannelControl and the loop around it
    client,    \* what each HTTP request is doing
    requests,  \* accepted requests so far
    drain      \* the shutdown drain

vars == <<status, terminals, device, line, worker, failed, commands, thread,
          client, requests, drain>>

\* The task before it has a thread, the thread with the parts of its callback,
\* the task once the thread is over.
BeforeThread == {"unborn", "spawned", "queueing", "granted", "admitted"}
\* A question is answered inside the callback, from its queue or from its pause.
Answering == {"answering", "answering2"}
OnThread == {"loading", "training", "draining", "pausing", "pausing2", "parked", "deciding"}
            \cup Answering
AfterThread == {"exited", "joined", "announcing", "over"}
WorkerStates == BeforeThread \cup OnThread \cup AfterThread

HoldsPermit == {"granted", "admitted", "exited"} \cup OnThread

ThreadStates == [paused : BOOLEAN, cancel : Cancels, boundary : BOOLEAN,
                 asked : BOOLEAN, saved : BOOLEAN]

Idle == [pc |-> "idle"]
ClientStates ==
    {Idle} \cup [pc : {"send", "mark", "await"}, run : Runs, command : Commands]
           \cup [pc : {"withdraw", "announce", "served"}, run : Runs]

DrainStates == [pc : {"off", "sweep", "done"}, todo : SUBSET Runs]
               \cup [pc : {"cancel", "mark"}, todo : SUBSET Runs, run : Runs]

Init ==
    /\ status = [r \in Runs |-> "queued"]
    /\ terminals = [r \in Runs |-> <<>>]
    /\ device = Permits
    /\ line = <<>>
    /\ worker = [r \in Runs |-> "unborn"]
    /\ failed = [r \in Runs |-> FALSE]
    /\ commands = [r \in Runs |-> <<>>]
    /\ thread = [r \in Runs |-> [paused |-> FALSE, cancel |-> NoCancel, boundary |-> TRUE,
                                 asked |-> FALSE, saved |-> FALSE]]
    /\ client = [c \in Clients |-> Idle]
    /\ requests = 0
    /\ drain = [pc |-> "off", todo |-> {}]

----------------------------------------------------------------------------
(* Shared pieces.                                                           *)

\* RunHandle::transition: checked and applied under the state lock.
Transition(r, to) == status' = [status EXCEPT ![r] = After(@, to)]

Publish(r, outcome) == terminals' = [terminals EXCEPT ![r] = Append(@, outcome)]

\* The receiving half lives in the task, then in the thread, and dies with it.
Receiving(r) == worker[r] \in {"spawned", "queueing", "granted", "admitted"} \cup OnThread

\* The handlers that wait on run r at one of `pcs` have their answer, or learn
\* that there will be none: the reply channel is used or dropped.
Replied(r, pcs) ==
    client' = [c \in Clients |->
                 IF client[c].pc \in pcs /\ client[c].run = r THEN Idle ELSE client[c]]

\* A fault: the reply channels outlive the queue.
DropQueueLeaky(r) == commands' = [commands EXCEPT ![r] = <<>>] /\ UNCHANGED client

\* Dropping the receiver drops the queue, and with it the reply channels; the
\* question the thread was at goes with the thread.
DropQueue(r) ==
    /\ commands' = [commands EXCEPT ![r] = <<>>]
    /\ Replied(r, {"await", "served"})

\* A fault: off by one.
RoomOffByOne(r) == Len(commands[r]) <= QueueDepth

Room(r) == Len(commands[r]) < QueueDepth

Enqueue(r, command) == commands' = [commands EXCEPT ![r] = Append(@, command)]

\* A fault: the last cancellation wins.
MergedLatest(previous, new) == new

\* A later cancellation may strengthen an earlier one, never weaken it.
Merged(previous, new) ==
    IF previous = NoCancel THEN new
    ELSE [at |-> IF "now" \in {previous.at, new.at} THEN "now" ELSE "boundary",
          checkpoint |-> previous.checkpoint \/ new.checkpoint]

\* A fault: a cancellation does not release a pause.
AppliedHeld(t, command) ==
    CASE command.kind = "pause"      -> [t EXCEPT !.paused = TRUE]
      [] command.kind = "resume"     -> [t EXCEPT !.paused = FALSE]
      [] command.kind = "cancel"     -> [t EXCEPT !.cancel = Merged(@, command.cancel)]
      [] OTHER                       -> t

\* ChannelControl::apply, on the control's own state.
Applied(t, command) ==
    CASE command.kind = "pause"      -> [t EXCEPT !.paused = TRUE]
      [] command.kind = "resume"     -> [t EXCEPT !.paused = FALSE]
      [] command.kind = "cancel"     -> [t EXCEPT !.paused = FALSE,
                                                  !.cancel = Merged(@, command.cancel)]
      [] command.kind = "checkpoint" -> [t EXCEPT !.asked = TRUE]
      [] OTHER                       -> t

\* One command taken from the channel and applied; the answer to a question
\* takes a forward pass, during which its handler may time out.
Serve(r) ==
    LET command == Head(commands[r]) IN
    /\ commands' = [commands EXCEPT ![r] = Tail(@)]
    /\ thread' = [thread EXCEPT ![r] = Applied(@, command)]
    /\ client' = IF command.kind = "ask"
                 THEN [client EXCEPT ![command.from] = [pc |-> "served", run |-> r]]
                 ELSE client

IsQuestion(command) == command.kind = "ask"

Goto(r, pc) == worker' = [worker EXCEPT ![r] = pc]

----------------------------------------------------------------------------
(* The task of a run.                                                       *)

\* POST /v1/runs: registered in `queued`, its task spawned.
Create(r) ==
    /\ worker[r] = "unborn"
    /\ drain.pc = "off"
    /\ Goto(r, "spawned")
    /\ UNCHANGED <<status, terminals, device, line, failed, commands, thread, client,
                   requests, drain>>

\* try_acquire_owned, or a place in the semaphore's line.
Acquire(r) ==
    /\ worker[r] = "spawned"
    /\ IF device > 0
       THEN /\ device' = device - 1
            /\ Goto(r, "granted")
            /\ UNCHANGED line
       ELSE /\ line' = Append(line, r)
            /\ Goto(r, "queueing")
            /\ UNCHANGED device
    /\ UNCHANGED <<status, terminals, failed, commands, thread, client, requests, drain>>

\* A fault: nobody in the line is woken.
ReleaseSilent(r, pc) == device' = device + 1 /\ Goto(r, pc) /\ UNCHANGED line

\* A permit given back: to the head of the line, else to the semaphore.
Release(r, pc) ==
    IF line = <<>>
    THEN /\ device' = device + 1
         /\ Goto(r, pc)
         /\ UNCHANGED line
    ELSE /\ line' = Tail(line)
         /\ worker' = [worker EXCEPT ![r] = pc, ![Head(line)] = "granted"]
         /\ UNCHANGED device

\* A fault: the task returns without its permit.
WithdrawnLeaky(r) ==
    /\ worker[r] = "granted"
    /\ status[r] \in Terminal
    /\ Goto(r, "over")
    /\ DropQueue(r)
    /\ UNCHANGED <<status, terminals, device, line, failed, thread, requests, drain>>

\* Cancelled while it waited: nothing was loaded, the task returns.
Withdrawn(r) ==
    /\ worker[r] = "granted"
    /\ status[r] \in Terminal
    /\ Release(r, "over")
    /\ DropQueue(r)
    /\ UNCHANGED <<status, terminals, failed, thread, requests, drain>>

\* The terminal check passed; the transition to `starting` is another step.
Admit(r) ==
    /\ worker[r] = "granted"
    /\ status[r] \notin Terminal
    /\ Goto(r, "admitted")
    /\ UNCHANGED <<status, terminals, device, line, failed, commands, thread, client,
                   requests, drain>>

\* A fault: the transition is forgotten.
StartSilent(r) ==
    /\ worker[r] = "admitted"
    /\ Goto(r, "loading")
    /\ UNCHANGED <<status, terminals, device, line, failed, commands, thread, client, requests,
                   drain>>

Start(r) ==
    /\ worker[r] = "admitted"
    /\ Transition(r, "starting")
    /\ Goto(r, "loading")
    /\ UNCHANGED <<terminals, device, line, failed, commands, thread, client, requests, drain>>

----------------------------------------------------------------------------
(* The thread of a run.                                                     *)

\* The thread ends with an outcome; the channel closes.
Exit(r, error) ==
    /\ Goto(r, "exited")
    /\ failed' = [failed EXCEPT ![r] = error]
    /\ DropQueue(r)

\* The model cannot be loaded, a step or the saving of the output fails, or the
\* thread panics, perhaps at work on an answer.
Fail(r) ==
    /\ worker[r] \in {"loading", "training"} \cup Answering
    /\ Exit(r, TRUE)
    /\ UNCHANGED <<status, terminals, device, line, thread, requests, drain>>

\* loop_started
LoopStarts(r) ==
    /\ worker[r] = "loading"
    /\ Transition(r, "running")
    /\ Goto(r, "training")
    /\ UNCHANGED <<terminals, device, line, failed, commands, thread, client, requests, drain>>

\* The last iteration is done, or patience is exhausted: after a boundary.
LoopEnds(r) ==
    /\ worker[r] = "training"
    /\ thread[r].boundary
    /\ Exit(r, FALSE)
    /\ UNCHANGED <<status, terminals, device, line, thread, requests, drain>>

\* A progress callback: in the middle of an iteration, then at its boundary.
Callback(r) ==
    /\ worker[r] = "training"
    /\ Goto(r, "draining")
    /\ thread' = [thread EXCEPT ![r].boundary = ~@]
    /\ UNCHANGED <<status, terminals, device, line, failed, commands, client, requests, drain>>

\* poll: while let Ok(command) = try_recv().
Drain(r) ==
    /\ worker[r] = "draining"
    /\ commands[r] # <<>>
    /\ Serve(r)
    /\ Goto(r, IF IsQuestion(Head(commands[r])) THEN "answering" ELSE "draining")
    /\ UNCHANGED <<status, terminals, device, line, failed, requests, drain>>

\* poll: the queue is empty; a paused run does not return.
Drained(r) ==
    /\ worker[r] = "draining"
    /\ commands[r] = <<>>
    /\ Goto(r, IF thread[r].paused THEN "pausing" ELSE "deciding")
    /\ UNCHANGED <<status, terminals, device, line, failed, commands, thread, client,
                   requests, drain>>

\* poll: through `pausing` ...
Pausing(r) ==
    /\ worker[r] = "pausing"
    /\ Transition(r, "pausing")
    /\ Goto(r, "pausing2")
    /\ UNCHANGED <<terminals, device, line, failed, commands, thread, client, requests, drain>>

\* ... to `paused`, then blocking_recv.
Park(r) ==
    /\ worker[r] = "pausing2"
    /\ Transition(r, "paused")
    /\ Goto(r, "parked")
    /\ UNCHANGED <<terminals, device, line, failed, commands, thread, client, requests, drain>>

\* blocking_recv returned a command; `while self.paused` goes round again.
Wake(r) ==
    /\ worker[r] = "parked"
    /\ commands[r] # <<>>
    /\ Serve(r)
    /\ Goto(r, IF IsQuestion(Head(commands[r])) THEN "answering2"
               ELSE IF thread'[r].paused THEN "pausing" ELSE "deciding")
    /\ UNCHANGED <<status, terminals, device, line, failed, requests, drain>>

\* apply: the answer is sent, to a handler that may have gone; the callback goes
\* on reading its queue, or stays in its pause.
Answer(r) ==
    /\ worker[r] \in Answering
    /\ Replied(r, {"served"})
    /\ Goto(r, IF worker[r] = "answering" THEN "draining" ELSE "pausing")
    /\ UNCHANGED <<status, terminals, device, line, failed, commands, thread, requests, drain>>

Stops(t) == t.cancel # NoCancel /\ (t.cancel.at = "now" \/ t.boundary)

\* A fault: stopping forgets the checkpoint the cancellation asked for.
AfterCallbackForgetful(t) == [t EXCEPT !.asked = @ /\ ~t.boundary, !.saved = t.asked /\ t.boundary]

\* request_checkpoint, and checkpoint_boundary in the rest of the callback.
AfterCallback(t) ==
    LET wanted == t.asked \/ (Stops(t) /\ t.cancel.checkpoint /\ t.boundary)
    IN  [t EXCEPT !.asked = wanted /\ ~t.boundary, !.saved = wanted /\ t.boundary]

\* poll's last part: `paused` becomes `running`, and the loop carries on ...
Continue(r) ==
    /\ worker[r] = "deciding"
    /\ ~Stops(thread[r])
    /\ IF status[r] = "paused" THEN Transition(r, "running") ELSE UNCHANGED status
    /\ thread' = [thread EXCEPT ![r] = AfterCallback(@)]
    /\ Goto(r, "training")
    /\ UNCHANGED <<terminals, device, line, failed, commands, client, requests, drain>>

\* ... or stops at this callback, which still runs to its end; saving the
\* output may fail.
Stop(r) ==
    /\ worker[r] = "deciding"
    /\ Stops(thread[r])
    /\ IF status[r] = "paused" THEN Transition(r, "running") ELSE UNCHANGED status
    /\ thread' = [thread EXCEPT ![r] = AfterCallback(@)]
    /\ \E error \in BOOLEAN : Exit(r, error)
    /\ UNCHANGED <<terminals, device, line, requests, drain>>

----------------------------------------------------------------------------
(* The task again, once the thread is joined.                               *)

\* A fault: the task of a thread that died returns.
JoinAssumed(r) ==
    /\ worker[r] = "exited"
    /\ Release(r, IF failed[r] THEN "over" ELSE "joined")
    /\ UNCHANGED <<status, terminals, failed, commands, thread, client, requests, drain>>

\* The permit is dropped before the final status is recorded.
Join(r) ==
    /\ worker[r] = "exited"
    /\ Release(r, "joined")
    /\ UNCHANGED <<status, terminals, failed, commands, thread, client, requests, drain>>

Outcome(r) == IF failed[r] THEN "failed"
              ELSE IF thread[r].cancel # NoCancel THEN "cancelled" ELSE "completed"

\* complete, cancelled, fail: the transition, whose result only fail looks at ...
Conclude(r) ==
    /\ worker[r] = "joined"
    /\ Transition(r, Outcome(r))
    /\ Goto(r, "announcing")
    /\ UNCHANGED <<terminals, device, line, failed, commands, thread, client, requests, drain>>

\* ... and the terminal event.
AnnounceOutcome(r) ==
    /\ worker[r] = "announcing"
    /\ Publish(r, IF failed[r] THEN status[r] ELSE Outcome(r))
    /\ Goto(r, "over")
    /\ UNCHANGED <<status, device, line, failed, commands, thread, client, requests, drain>>

----------------------------------------------------------------------------
(* The handlers.  A request the status refuses, and a repeated one that is  *)
(* answered as already done, change nothing.                                *)

Asks(c, r) ==
    /\ client[c] = Idle
    /\ worker[r] # "unborn"
    /\ drain.pc = "off"
    /\ requests < MaxRequests
    /\ requests' = requests + 1
    /\ UNCHANGED <<status, terminals, device, line, worker, failed, commands, thread, drain>>

\* The status is read and admits the command.
Request(c, r, route) ==
    /\ status[r] \in Admits(CommandOf(c, route).kind)
    /\ client' = [client EXCEPT ![c] = [pc |-> "send", run |-> r,
                                        command |-> CommandOf(c, route)]]
    /\ Asks(c, r)

\* A cancellation that finds the run queued sends no command.
RequestWithdrawal(c, r, route) ==
    /\ CommandOf(c, route).kind = "cancel"
    /\ status[r] \in {"queued", "resolving"}
    /\ client' = [client EXCEPT ![c] = [pc |-> "withdraw", run |-> r]]
    /\ Asks(c, r)

\* try_send: queued, or refused because the thread is gone or the queue full.
Send(c) ==
    /\ client[c].pc = "send"
    /\ LET r == client[c].run
           command == client[c].command
       IN  IF Receiving(r) /\ Room(r)
           THEN /\ Enqueue(r, command)
                /\ client' = [client EXCEPT ![c] =
                       IF command.kind \in {"pause", "cancel"} THEN [@ EXCEPT !.pc = "mark"]
                       ELSE IF command.kind = "ask" THEN [@ EXCEPT !.pc = "await"]
                       ELSE Idle]
           ELSE /\ client' = [client EXCEPT ![c] = Idle]
                /\ UNCHANGED commands
    /\ UNCHANGED <<status, terminals, device, line, worker, failed, thread, requests, drain>>

\* The command is queued: the handler announces `pausing` or `cancelling`.
Mark(c) ==
    /\ client[c].pc = "mark"
    /\ Transition(client[c].run,
                  IF client[c].command.kind = "pause" THEN "pausing" ELSE "cancelling")
    /\ client' = [client EXCEPT ![c] = Idle]
    /\ UNCHANGED <<terminals, device, line, worker, failed, commands, thread, requests, drain>>

\* An ask that was not answered in time, queued or already taken: its reply
\* channel closes.
TimeOut(c) ==
    /\ client[c].pc \in {"await", "served"}
    /\ commands' = [commands EXCEPT ![client[c].run] =
                       [i \in DOMAIN @ |-> IF @[i] = Ask(c) THEN Plain("abandoned") ELSE @[i]]]
    /\ client' = [client EXCEPT ![c] = Idle]
    /\ UNCHANGED <<status, terminals, device, line, worker, failed, thread, requests, drain>>

\* The cancellation of a queued run: the transition, then the terminal event.
Withdraw(c) ==
    /\ client[c].pc = "withdraw"
    /\ Transition(client[c].run, "cancelled")
    /\ client' = [client EXCEPT ![c].pc = "announce"]
    /\ UNCHANGED <<terminals, device, line, worker, failed, commands, thread, requests, drain>>

AnnounceWithdrawal(c) ==
    /\ client[c].pc = "announce"
    /\ Publish(client[c].run, "cancelled")
    /\ client' = [client EXCEPT ![c] = Idle]
    /\ UNCHANGED <<status, device, line, worker, failed, commands, thread, requests, drain>>

----------------------------------------------------------------------------
(* The drain.  It starts after the listener has closed and every request    *)
(* has been answered.                                                       *)

DrainStarts ==
    /\ Drains
    /\ drain.pc = "off"
    /\ \A c \in Clients : client[c] = Idle
    /\ drain' = [pc |-> "sweep",
                 todo |-> {r \in Runs : worker[r] # "unborn" /\ status[r] \notin Terminal}]
    /\ UNCHANGED <<status, terminals, device, line, worker, failed, commands, thread, client,
                   requests>>

\* send_waiting: waits for room; a run whose thread is gone drops the command.
SendWaiting(r, command) ==
    /\ Receiving(r) => Room(r)
    /\ IF Receiving(r) THEN Enqueue(r, command) ELSE UNCHANGED commands

\* One more run is asked for a checkpoint ...
DrainCheckpoint(r) ==
    /\ drain.pc = "sweep"
    /\ r \in drain.todo
    /\ SendWaiting(r, Plain("checkpoint"))
    /\ drain' = [pc |-> "cancel", todo |-> drain.todo \ {r}, run |-> r]
    /\ UNCHANGED <<status, terminals, device, line, worker, failed, thread, client, requests>>

\* ... then to stop at the boundary, keeping it ...
DrainCancel ==
    /\ drain.pc = "cancel"
    /\ SendWaiting(drain.run, CancelCommand("boundary", TRUE))
    /\ drain' = [drain EXCEPT !.pc = "mark"]
    /\ UNCHANGED <<status, terminals, device, line, worker, failed, thread, client, requests>>

\* ... and its status says so.
DrainMark ==
    /\ drain.pc = "mark"
    /\ Transition(drain.run, "cancelling")
    /\ drain' = [pc |-> "sweep", todo |-> drain.todo]
    /\ UNCHANGED <<terminals, device, line, worker, failed, commands, thread, client, requests>>

\* The deadline passes, or nothing is left to ask: the drain only waits now.
DrainEnds ==
    /\ drain.pc \in {"sweep", "cancel"}
    /\ drain' = [pc |-> "done", todo |-> drain.todo]
    /\ UNCHANGED <<status, terminals, device, line, worker, failed, commands, thread, client,
                   requests>>

----------------------------------------------------------------------------
\* What the task of a run and its thread do by themselves.
TaskStep(r) ==
    \/ Acquire(r) \/ Withdrawn(r) \/ Admit(r) \/ Start(r)
    \/ LoopStarts(r) \/ LoopEnds(r) \/ Fail(r)
    \/ Callback(r) \/ Drain(r) \/ Drained(r) \/ Pausing(r) \/ Park(r) \/ Wake(r) \/ Answer(r)
    \/ Continue(r) \/ Stop(r)
    \/ Join(r) \/ Conclude(r) \/ AnnounceOutcome(r)

\* What a handler does once it has read the status.
HandlerStep(c) ==
    Send(c) \/ Mark(c) \/ TimeOut(c) \/ Withdraw(c) \/ AnnounceWithdrawal(c)

DrainStep == \/ \E r \in Runs : DrainCheckpoint(r)
             \/ DrainCancel \/ DrainMark \/ DrainEnds

Next ==
    \/ \E r \in Runs : Create(r) \/ TaskStep(r)
    \/ \E c \in Clients, r \in Runs, route \in Offers :
          Request(c, r, route) \/ RequestWithdrawal(c, r, route)
    \/ \E c \in Clients : HandlerStep(c)
    \/ DrainStarts \/ DrainStep

Spec == Init /\ [][Next]_vars

\* Threads and handlers are scheduled, and a run has finitely many iterations:
\* a loop that keeps reaching its last boundary ends there at some point.
FairSpec == /\ Spec
            /\ \A r \in Runs : WF_vars(TaskStep(r)) /\ SF_vars(LoopEnds(r))
            /\ \A c \in Clients : WF_vars(HandlerStep(c))
            /\ WF_vars(DrainStep)

----------------------------------------------------------------------------
(* Properties.                                                              *)

\* Every variable stays in its type; the channel never exceeds QUEUE_DEPTH.
TypeOK ==
    /\ status \in [Runs -> Statuses]
    /\ terminals \in [Runs -> Seq(Statuses)]
    /\ device \in Nat
    /\ line \in Seq(Runs)
    /\ worker \in [Runs -> WorkerStates]
    /\ failed \in [Runs -> BOOLEAN]
    /\ commands \in [Runs -> Seq(Commands)]
    /\ \A r \in Runs : Len(commands[r]) <= QueueDepth
    /\ thread \in [Runs -> ThreadStates]
    /\ client \in [Clients -> ClientStates]
    /\ requests \in 0..MaxRequests
    /\ drain \in DrainStates

\* The permits of the device are never lost and never duplicated, on any way
\* out of a run: withdrawn, failed, stopped or finished (worker.rs, drop(permit)).
PermitsConserved ==
    device + Cardinality({r \in Runs : worker[r] \in HoldsPermit}) = Permits

\* The event stream of a run is closed by a `terminal` event only when its
\* status is terminal, although complete() ignores whether its transition was
\* allowed and a withdrawal announces whatever the worker did meanwhile.
TerminalEventIsTrue ==
    \A r \in Runs : terminals[r] # <<>> => status[r] \in Terminal

\* A run whose task has ended is in a terminal status: none is left `running`.
EndedRunIsTerminal ==
    \A r \in Runs : worker[r] = "over" => status[r] \in Terminal

\* A thread blocked in a pause, or answering from it, never shows as running: the
\* status is `paused`, or a cancellation has overtaken the pause (control.rs,
\* "silently unpaused").
ParkedRunShowsPaused ==
    \A r \in Runs :
        worker[r] \in {"parked", "answering2"} =>
            status[r] \in {"paused", "cancelling"} \cup Terminal

\* And a status of `paused` means the thread really is inside its pause: only
\* the callback itself writes it, and takes it back before it returns, unless
\* the thread dies in it.
PausedRunIsHeld ==
    \A r \in Runs : status[r] = "paused" =>
        \/ worker[r] \in {"pausing", "pausing2", "parked", "answering2", "deciding"}
        \/ worker[r] \in {"exited", "joined"} /\ failed[r]

\* Where the worker is and what the status may be then: the statuses only the
\* callback can leave, those a racing handler can put there, and no others.
StatusFits(r) ==
    /\ worker[r] \in BeforeThread => status[r] \in {"queued", "cancelled"}
    /\ worker[r] = "loading" => status[r] \in {"starting", "pausing", "cancelling", "cancelled"}
    /\ worker[r] \in {"training", "draining", "answering"} =>
          status[r] \in {"running", "pausing", "cancelling", "cancelled"}
    /\ worker[r] \in {"pausing", "deciding"} =>
          status[r] \in {"running", "pausing", "paused", "cancelling", "cancelled"}
    /\ worker[r] = "pausing2" => status[r] \in {"pausing", "paused", "cancelling", "cancelled"}
    /\ worker[r] \in {"parked", "answering2"} => status[r] \in {"paused", "cancelling", "cancelled"}
    /\ worker[r] \in {"exited", "joined"} =>
          \/ status[r] \in {"running", "pausing", "cancelling", "cancelled"}
          \/ failed[r] /\ status[r] \in {"starting", "paused"}
    /\ worker[r] \in {"announcing", "over"} => status[r] \in Terminal

StatusFitsWorker == \A r \in Runs : StatusFits(r)

\* The line of the semaphore holds the waiting tasks, each of them once: a task
\* that waits is never forgotten and never granted twice.
LineFits ==
    /\ \A i \in 1..Len(line) : worker[line[i]] = "queueing"
    /\ \A i, j \in 1..Len(line) : line[i] = line[j] => i = j
    /\ \A r \in Runs : worker[r] = "queueing" => \E i \in 1..Len(line) : line[i] = r

\* No handler commands a run that has not reached its thread, and one that is
\* about to publish a cancellation has seen it recorded.
HandlerFits(c) ==
    /\ client[c].pc \in {"send", "mark", "await", "served"} =>
          worker[client[c].run] \notin BeforeThread
    /\ client[c].pc = "announce" => status[client[c].run] \in Terminal

HandlersFitRuns == \A c \in Clients : HandlerFits(c)

\* What a client is shown of a run and what a handler may assume of it fit the
\* place its task and thread are at, a pause's both ways (worker.rs, control.rs).
StatusTellsTheRun ==
    StatusFitsWorker /\ HandlersFitRuns /\ ParkedRunShowsPaused /\ PausedRunIsHeld

\* Nothing ends in part: a closed event stream and a task that returned both
\* stand under a terminal status, whichever of the two came first.
EndsAreTerminal == TerminalEventIsTrue /\ EndedRunIsTerminal

\* Every permit is with the semaphore or with a run that has it, and every task
\* that waits for one is in its line, once (worker.rs, spawn).
PermitsAndLine == PermitsConserved /\ LineFits

\* The inductive invariant behind the proofs.
Inv == TypeOK /\ StatusFitsWorker /\ LineFits /\ HandlersFitRuns /\ TerminalEventIsTrue

\* A handler that waits for an answer has its question in the queue of a run
\* that still reads it, or under way on its thread, alone: no ask is lost when a
\* run ends, and no answer goes to a handler that asked something else.
AwaitedAskIsQueued ==
    \A c \in Clients :
        /\ client[c].pc = "await" =>
              /\ Receiving(client[c].run)
              /\ \E i \in DOMAIN commands[client[c].run] : commands[client[c].run][i] = Ask(c)
        /\ client[c].pc = "served" =>
              /\ worker[client[c].run] \in Answering
              /\ \A d \in Clients : client[d] = client[c] => d = c

\* A run that stopped at the boundary of a cancellation that asked for a
\* checkpoint wrote one in that very callback, whatever was requested since.
KeptCheckpoint ==
    \A r \in Runs :
        /\ worker[r] \in AfterThread
        /\ ~failed[r]
        /\ thread[r].cancel = [at |-> "boundary", checkpoint |-> TRUE]
        => thread[r].saved

\* The statuses and terminal events of the runs implement the contract.
Contract == INSTANCE RunContract WITH announced <- {r \in Runs : terminals[r] # <<>>}
ImplementsContract == Contract!ContractSpec

\* A cancellation is never weakened: `now` stays `now`, a requested checkpoint
\* stays requested (api/control.rs, "a cancellation is never weakened").
CancelNeverWeakened ==
    [][\A r \in Runs :
          thread[r].cancel # NoCancel =>
              /\ thread'[r].cancel # NoCancel
              /\ thread[r].cancel.at = "now" => thread'[r].cancel.at = "now"
              /\ thread[r].cancel.checkpoint => thread'[r].cancel.checkpoint]_vars

\* A pause that read `running` before a cancellation was marked and was queued
\* after it: it is applied on top of the cancellation.
PauseBehindCancel(r) ==
    \E i \in DOMAIN commands[r] :
        /\ commands[r][i].kind = "pause"
        /\ \/ thread[r].cancel # NoCancel
           \/ \E j \in 1 .. i - 1 : commands[r][j].kind = "cancel"

\* A run that shows `cancelling` comes to an end, whatever pauses, resumes and
\* cancellations two clients race, if no pause was queued behind a cancellation.
\* One that was parks the thread under `cancelling`, where a resume is refused
\* and a cancellation queues nothing: see CancelReleasesPause.
CancellingEnds ==
    \A r \in Runs :
        [](~PauseBehindCancel(r)) => (status[r] = "cancelling" ~> status[r] \in Terminal)

\* Every created run gets the device and ends, unless some run is held in a pause.
EveryRunEnds == \A r \in Runs :
    worker[r] = "spawned" ~> \/ worker[r] = "over" /\ terminals[r] # <<>>
                             \/ \E q \in Runs : worker[q] = "parked"

----------------------------------------------------------------------------
(* What the source says and the interleavings refute.                       *)

NoRequestInFlight == \A c \in Clients : client[c] = Idle

\* api/control.rs: a queued run that is cancelled has nothing loaded, and its
\* worker sees the terminal state and returns.
CancelledRunHasNoThread ==
    \A r \in Runs : worker[r] \in OnThread => status[r] \notin Terminal

\* api/control.rs: the run itself moves back to `running` when its callback
\* wakes, after a resume.
ResumedRunShowsRunning ==
    \A r \in Runs :
        /\ worker[r] = "training" /\ commands[r] = <<>> /\ NoRequestInFlight
        => status[r] # "pausing"

\* control.rs: a cancellation releases a pause, otherwise the callback would
\* block forever on a run that has been told to stop.
CancelReleasesPause ==
    \A r \in Runs :
        /\ worker[r] = "parked" /\ commands[r] = <<>> /\ NoRequestInFlight
        => thread[r].cancel = NoCancel
=============================================================================
