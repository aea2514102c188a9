-------------------------- MODULE RunControlProofs --------------------------
(***************************************************************************)
(* Proofs about RunControl, for every set of runs and clients, every queue *)
(* depth and every number of permits; then about what the runs share and   *)
(* queue: the permits of the device, the commands of a channel, the        *)
(* pending cancellation.                                                   *)
(***************************************************************************)
EXTENDS RunControl, FiniteSetTheorems, TLAPS

\* A transition, allowed or refused, leaves a status.
LEMMA AfterStatus ==
    ASSUME NEW from \in Statuses, NEW to \in Statuses
    PROVE  After(from, to) \in Statuses
BY DEF After

\* So does the transition of a handle.
LEMMA TransitionType ==
    ASSUME status \in [Runs -> Statuses], NEW r \in Runs, NEW to \in Statuses, Transition(r, to)
    PROVE  status' \in [Runs -> Statuses]
<1>1. After(status[r], to) \in Statuses
  BY AfterStatus
<1> QED BY <1>1 DEF Transition

\* A busy request names a run and, but for a withdrawal, a command.
LEMMA BusyClient ==
    ASSUME NEW state \in ClientStates
    PROVE  /\ state.pc \in {"send", "mark", "await"} =>
                 state \in [pc : {"send", "mark", "await"}, run : Runs, command : Commands]
           /\ state.pc \in {"withdraw", "announce", "served"} =>
                 state \in [pc : {"withdraw", "announce", "served"}, run : Runs]
BY DEF ClientStates, Idle

\* Every route queues a command.
LEMMA CommandOfType ==
    ASSUME NEW c \in Clients, NEW route \in Routes
    PROVE  CommandOf(c, route) \in Commands
BY DEF CommandOf, Commands, CancelCommand, CancelAts, Ask, Plain, Routes

\* Applying a command keeps the control's state in its type.
LEMMA AppliedType ==
    ASSUME NEW t \in ThreadStates, NEW command \in Commands
    PROVE  Applied(t, command) \in ThreadStates
<1>1. CASE command.kind = "cancel"
  <2>1. command.cancel \in [at : CancelAts, checkpoint : BOOLEAN]
    BY <1>1 DEF Commands
  <2>2. Merged(t.cancel, command.cancel) \in Cancels
    BY <2>1 DEF ThreadStates, Merged, Cancels, NoCancel, CancelAts
  <2> QED BY <1>1, <2>2 DEF Applied, ThreadStates
<1>2. CASE command.kind # "cancel"
  BY <1>2 DEF Applied, ThreadStates
<1> QED BY <1>1, <1>2

\* So does the rest of a callback.
LEMMA AfterCallbackType ==
    ASSUME NEW t \in ThreadStates
    PROVE  AfterCallback(t) \in ThreadStates
BY DEF AfterCallback, Stops, ThreadStates, Cancels, NoCancel

\* Taking the head of a channel leaves a shorter channel of commands.
LEMMA ServeType ==
    ASSUME TypeOK, NEW r \in Runs, commands[r] # <<>>, Serve(r)
    PROVE  /\ commands' \in [Runs -> Seq(Commands)]
           /\ \A q \in Runs : Len(commands'[q]) <= QueueDepth
           /\ thread' \in [Runs -> ThreadStates]
           /\ client' \in [Clients -> ClientStates]
<1>1. /\ Head(commands[r]) \in Commands
      /\ Tail(commands[r]) \in Seq(Commands)
      /\ Len(Tail(commands[r])) <= QueueDepth
  BY DepthAssumption DEF TypeOK
<1>2. commands' \in [Runs -> Seq(Commands)] /\ \A q \in Runs : Len(commands'[q]) <= QueueDepth
  BY <1>1 DEF Serve, TypeOK
<1>3. thread' \in [Runs -> ThreadStates]
  BY <1>1, AppliedType DEF Serve, TypeOK
<1>4. client' \in [Clients -> ClientStates]
  BY <1>1 DEF Serve, TypeOK, ClientStates, Idle, Commands
<1> QED BY <1>2, <1>3, <1>4

\* Dropping the receiver leaves channels and clients in their types.
LEMMA DropQueueType ==
    ASSUME TypeOK, NEW r \in Runs, DropQueue(r)
    PROVE  /\ commands' \in [Runs -> Seq(Commands)]
           /\ \A q \in Runs : Len(commands'[q]) <= QueueDepth
           /\ client' \in [Clients -> ClientStates]
BY DepthAssumption DEF DropQueue, Replied, TypeOK, ClientStates, Idle

\* So does queueing a command where there is room.
LEMMA EnqueueType ==
    ASSUME TypeOK, NEW r \in Runs, NEW command \in Commands, Room(r), Enqueue(r, command)
    PROVE  /\ commands' \in [Runs -> Seq(Commands)]
           /\ \A q \in Runs : Len(commands'[q]) <= QueueDepth
BY DepthAssumption DEF Enqueue, Room, TypeOK

\* A permit given back goes to the head of the line or to the semaphore.
LEMMA ReleaseType ==
    ASSUME TypeOK, NEW r \in Runs, NEW pc \in WorkerStates, Release(r, pc)
    PROVE  /\ device' \in Nat
           /\ line' \in Seq(Runs)
           /\ worker' \in [Runs -> WorkerStates]
<1>1. CASE line = <<>>
  <2>1. device' = device + 1 /\ line' = line /\ worker' = [worker EXCEPT ![r] = pc]
    BY <1>1 DEF Release, Goto
  <2> QED BY <2>1 DEF TypeOK
<1>2. CASE line # <<>>
  <2>0. /\ line' = Tail(line) /\ device' = device
        /\ worker' = [worker EXCEPT ![r] = pc, ![Head(line)] = "granted"]
    BY <1>2 DEF Release
  <2>1. Head(line) \in Runs /\ Tail(line) \in Seq(Runs)
    BY <1>2 DEF TypeOK
  <2>2. "granted" \in WorkerStates
    BY DEF WorkerStates, BeforeThread
  <2> QED BY <2>0, <2>1, <2>2 DEF TypeOK
<1> QED BY <1>1, <1>2

----------------------------------------------------------------------------
(* Type correctness.                                                        *)

\* The initial states are well typed.
LEMMA TypeInit == Init => TypeOK
BY DepthAssumption, PermitsAssumption, RequestsAssumption
   DEF Init, TypeOK, Statuses, WorkerStates, BeforeThread, ThreadStates, Cancels, ClientStates,
       DrainStates

\* A step of a run's task or of its thread.
LEMMA TypeTaskStep ==
    ASSUME TypeOK, NEW r \in Runs, TaskStep(r)
    PROVE  TypeOK'
<1> USE DEF WorkerStates, BeforeThread, OnThread, AfterThread, Answering
<1>0. \A to \in {"starting", "running", "pausing", "paused", "cancelled", "completed", "failed"} :
          Transition(r, to) => status' \in [Runs -> Statuses]
  <2>1. {"starting", "running", "pausing", "paused", "cancelled", "completed", "failed"}
           \subseteq Statuses
    BY DEF Statuses
  <2> QED BY <2>1, TransitionType DEF TypeOK
<1>1. CASE Acquire(r)
  <2>1. \/ device > 0 /\ device' = device - 1 /\ line' = line /\ Goto(r, "granted")
        \/ device' = device /\ line' = Append(line, r) /\ Goto(r, "queueing")
    BY <1>1 DEF Acquire
  <2>2. device' \in Nat
    BY <2>1 DEF TypeOK
  <2>3. line' \in Seq(Runs)
    <3>1. line \in Seq(Runs)
      BY DEF TypeOK
    <3>2. Append(line, r) \in Seq(Runs)
      BY <3>1
    <3> QED BY <2>1, <3>1, <3>2
  <2>4. worker' \in [Runs -> WorkerStates]
    BY <2>1 DEF Goto, TypeOK
  <2> QED BY <1>1, <2>2, <2>3, <2>4 DEF Acquire, TypeOK
<1>2. CASE Withdrawn(r)
  BY <1>2, ReleaseType, DropQueueType DEF Withdrawn, TypeOK
<1>3. CASE Admit(r)
  BY <1>3 DEF Admit, Goto, TypeOK
<1>4. CASE Start(r)
  BY <1>4, <1>0 DEF Start, Goto, TypeOK
<1>5. CASE LoopStarts(r)
  BY <1>5, <1>0 DEF LoopStarts, Goto, TypeOK
<1>6. CASE LoopEnds(r)
  BY <1>6, DropQueueType DEF LoopEnds, Exit, Goto, TypeOK
<1>7. CASE Fail(r)
  BY <1>7, DropQueueType DEF Fail, Exit, Goto, TypeOK
<1>8. CASE Callback(r)
  BY <1>8 DEF Callback, Goto, TypeOK, ThreadStates
<1>9. CASE Drain(r)
  <2>1. commands[r] # <<>> /\ Serve(r) /\ UNCHANGED <<status, terminals, device, line, failed, requests, drain>>
    BY <1>9 DEF Drain
  <2>2. \E pc \in WorkerStates : Goto(r, pc)
    BY <1>9 DEF Drain
  <2>3. worker' \in [Runs -> WorkerStates]
    BY <2>2 DEF Goto, TypeOK
  <2> QED BY <2>1, <2>3, ServeType DEF TypeOK
<1>10. CASE Drained(r)
  BY <1>10 DEF Drained, Goto, TypeOK
<1>11. CASE Pausing(r)
  BY <1>11, <1>0 DEF Pausing, Goto, TypeOK
<1>12. CASE Park(r)
  BY <1>12, <1>0 DEF Park, Goto, TypeOK
<1>13. CASE Wake(r)
  <2>1. commands[r] # <<>> /\ Serve(r) /\ UNCHANGED <<status, terminals, device, line, failed, requests, drain>>
    BY <1>13 DEF Wake
  <2>2. \E pc \in WorkerStates : Goto(r, pc)
    BY <1>13 DEF Wake
  <2>3. worker' \in [Runs -> WorkerStates]
    BY <2>2 DEF Goto, TypeOK
  <2> QED BY <2>1, <2>3, ServeType DEF TypeOK
<1>14. CASE Continue(r)
  <2>1. thread' \in [Runs -> ThreadStates]
    BY <1>14, AfterCallbackType DEF Continue, TypeOK
  <2>2. status' \in [Runs -> Statuses]
    BY <1>14, <1>0 DEF Continue, TypeOK
  <2> QED BY <1>14, <2>1, <2>2 DEF Continue, Goto, TypeOK
<1>15. CASE Stop(r)
  <2>1. thread' \in [Runs -> ThreadStates]
    BY <1>15, AfterCallbackType DEF Stop, TypeOK
  <2>2. status' \in [Runs -> Statuses]
    BY <1>15, <1>0 DEF Stop, TypeOK
  <2>3. PICK error \in BOOLEAN : Exit(r, error)
    BY <1>15 DEF Stop
  <2> QED BY <1>15, <2>1, <2>2, <2>3, DropQueueType DEF Stop, Exit, Goto, TypeOK
<1>16. CASE Join(r)
  BY <1>16, ReleaseType DEF Join, TypeOK
<1>17. CASE Conclude(r)
  <2>1. Outcome(r) \in {"failed", "cancelled", "completed"}
    BY DEF Outcome
  <2> QED BY <1>17, <1>0, <2>1 DEF Conclude, Goto, TypeOK
<1>18. CASE AnnounceOutcome(r)
  <2>1. (IF failed[r] THEN status[r] ELSE Outcome(r)) \in Statuses
    BY DEF Outcome, Statuses, TypeOK
  <2> QED BY <1>18, <2>1 DEF AnnounceOutcome, Publish, Goto, TypeOK
<1>19. CASE Answer(r)
  BY <1>19 DEF Answer, Replied, Goto, TypeOK, ClientStates, Idle
<1> QED BY <1>1, <1>2, <1>3, <1>4, <1>5, <1>6, <1>7, <1>8, <1>9, <1>10, <1>11, <1>12, <1>13,
           <1>14, <1>15, <1>16, <1>17, <1>18, <1>19 DEF TaskStep

\* A step of a handler that has read the status.
LEMMA TypeHandlerStep ==
    ASSUME TypeOK, NEW c \in Clients, HandlerStep(c)
    PROVE  TypeOK'
<1>1. CASE Send(c)
  <2>1. client[c] \in [pc : {"send", "mark", "await"}, run : Runs, command : Commands]
    BY <1>1, BusyClient DEF Send, TypeOK
  <2>2. client' \in [Clients -> ClientStates]
    <3>1. /\ [client[c] EXCEPT !.pc = "mark"] \in ClientStates
          /\ [client[c] EXCEPT !.pc = "await"] \in ClientStates
          /\ Idle \in ClientStates
      BY <2>1 DEF ClientStates
    <3>2. \E state \in ClientStates : client' = [client EXCEPT ![c] = state]
      BY <1>1, <3>1 DEF Send
    <3> QED BY <3>2 DEF TypeOK
  <2>3. commands' \in [Runs -> Seq(Commands)] /\ \A q \in Runs : Len(commands'[q]) <= QueueDepth
    BY <1>1, <2>1, EnqueueType DEF Send, TypeOK
  <2> QED BY <1>1, <2>2, <2>3 DEF Send, TypeOK
<1>2. CASE Mark(c)
  <2>1. client[c].run \in Runs
    BY <1>2, BusyClient DEF Mark, TypeOK
  <2>2. status' \in [Runs -> Statuses]
    <3>1. {"pausing", "cancelling"} \subseteq Statuses
      BY DEF Statuses
    <3> QED BY <1>2, <2>1, <3>1, TransitionType DEF Mark, TypeOK
  <2> QED BY <1>2, <2>2 DEF Mark, TypeOK, ClientStates, Idle
<1>3. CASE TimeOut(c)
  <2>1. client[c].run \in Runs
    BY <1>3, BusyClient DEF TimeOut, TypeOK
  <2> DEFINE old == commands[client[c].run]
             new == [i \in DOMAIN old |-> IF old[i] = Ask(c) THEN Plain("abandoned") ELSE old[i]]
  <2>2. Plain("abandoned") \in Commands
    BY DEF Plain, Commands
  <2>3. new \in Seq(Commands) /\ Len(new) = Len(old)
    <3>1. old \in Seq(Commands) /\ Len(old) \in Nat /\ DOMAIN old = 1..Len(old)
      BY <2>1 DEF TypeOK
    <3>2. \A i \in 1..Len(old) : old[i] \in Commands
      BY <3>1
    <3> QED BY <2>2, <3>1, <3>2
  <2>4. commands' = [commands EXCEPT ![client[c].run] = new]
    BY <1>3 DEF TimeOut
  <2>5. commands' \in [Runs -> Seq(Commands)] /\ \A q \in Runs : Len(commands'[q]) <= QueueDepth
    BY <2>1, <2>3, <2>4 DEF TypeOK
  <2> QED BY <1>3, <2>5 DEF TimeOut, TypeOK, ClientStates, Idle
<1>4. CASE Withdraw(c)
  <2>1. client[c].run \in Runs
    BY <1>4, BusyClient DEF Withdraw, TypeOK
  <2>2. status' \in [Runs -> Statuses]
    <3>1. "cancelled" \in Statuses
      BY DEF Statuses
    <3> QED BY <1>4, <2>1, <3>1, TransitionType DEF Withdraw, TypeOK
  <2>3. [client[c] EXCEPT !.pc = "announce"] \in ClientStates
    BY <1>4, BusyClient DEF Withdraw, TypeOK, ClientStates
  <2> QED BY <1>4, <2>2, <2>3 DEF Withdraw, TypeOK
<1>5. CASE AnnounceWithdrawal(c)
  <2>1. client[c].run \in Runs
    BY <1>5, BusyClient DEF AnnounceWithdrawal, TypeOK
  <2> QED BY <1>5, <2>1 DEF AnnounceWithdrawal, Publish, TypeOK, ClientStates, Idle, Statuses
<1> QED BY <1>1, <1>2, <1>3, <1>4, <1>5 DEF HandlerStep

\* A request whose status is read.
LEMMA TypeRequest ==
    ASSUME TypeOK, NEW c \in Clients, NEW r \in Runs, NEW route \in Offers,
           Request(c, r, route) \/ RequestWithdrawal(c, r, route)
    PROVE  TypeOK'
<1>1. CommandOf(c, route) \in Commands
  BY OffersAssumption, CommandOfType
<1>2. client' \in [Clients -> ClientStates]
  <2>1. [pc |-> "send", run |-> r, command |-> CommandOf(c, route)] \in ClientStates
        /\ [pc |-> "withdraw", run |-> r] \in ClientStates
    BY <1>1 DEF ClientStates
  <2>2. \E state \in ClientStates : client' = [client EXCEPT ![c] = state]
    BY <2>1 DEF Request, RequestWithdrawal
  <2> QED BY <2>2 DEF TypeOK
<1>3. requests' \in 0..MaxRequests
  BY RequestsAssumption DEF Request, RequestWithdrawal, Asks, TypeOK
<1> QED BY <1>2, <1>3 DEF Request, RequestWithdrawal, Asks, TypeOK

\* A step of the shutdown drain.
LEMMA TypeDrainStep ==
    ASSUME TypeOK, DrainStarts \/ DrainStep
    PROVE  TypeOK'
<1>1. CASE DrainStarts
  BY <1>1 DEF DrainStarts, TypeOK, DrainStates
<1>2. ASSUME NEW r \in Runs, DrainCheckpoint(r)
      PROVE  TypeOK'
  <2>1. Plain("checkpoint") \in Commands
    BY DEF Plain, Commands
  <2>2. drain' \in DrainStates
    BY <1>2 DEF DrainCheckpoint, DrainStates, TypeOK
  <2>3. commands' \in [Runs -> Seq(Commands)] /\ \A q \in Runs : Len(commands'[q]) <= QueueDepth
    BY <1>2, <2>1, EnqueueType DEF DrainCheckpoint, SendWaiting, TypeOK
  <2> QED BY <1>2, <2>2, <2>3 DEF DrainCheckpoint, TypeOK
<1>3. CASE DrainCancel
  <2>1. CancelCommand("boundary", TRUE) \in Commands
    BY DEF CancelCommand, Commands, CancelAts
  <2>2. drain.run \in Runs /\ drain' \in DrainStates
    BY <1>3 DEF DrainCancel, DrainStates, TypeOK
  <2>3. commands' \in [Runs -> Seq(Commands)] /\ \A q \in Runs : Len(commands'[q]) <= QueueDepth
    BY <1>3, <2>1, <2>2, EnqueueType DEF DrainCancel, SendWaiting, TypeOK
  <2> QED BY <1>3, <2>2, <2>3 DEF DrainCancel, TypeOK
<1>4. CASE DrainMark
  <2>1. drain.run \in Runs /\ drain' \in DrainStates
    BY <1>4 DEF DrainMark, DrainStates, TypeOK
  <2>2. status' \in [Runs -> Statuses]
    <3>1. "cancelling" \in Statuses
      BY DEF Statuses
    <3> QED BY <1>4, <2>1, <3>1, TransitionType DEF DrainMark, TypeOK
  <2> QED BY <1>4, <2>1, <2>2 DEF DrainMark, TypeOK
<1>5. CASE DrainEnds
  BY <1>5 DEF DrainEnds, TypeOK, DrainStates
<1> QED BY <1>1, <1>2, <1>3, <1>4, <1>5 DEF DrainStep

\* So is every step.
LEMMA TypeNext == TypeOK /\ [Next]_vars => TypeOK'
<1> SUFFICES ASSUME TypeOK, [Next]_vars PROVE TypeOK'
  OBVIOUS
<1>1. ASSUME NEW r \in Runs, Create(r) PROVE TypeOK'
  BY <1>1 DEF Create, Goto, TypeOK, WorkerStates, BeforeThread
<1>2. CASE UNCHANGED vars
  BY <1>2 DEF vars, TypeOK
<1> QED BY <1>1, <1>2, TypeTaskStep, TypeHandlerStep, TypeRequest, TypeDrainStep DEF Next

\* Every variable of RunControl stays in its type, and no command channel ever
\* holds more than QueueDepth commands.
THEOREM TypeCorrect == Spec => []TypeOK
BY TypeInit, TypeNext, PTL DEF Spec

----------------------------------------------------------------------------
(* The transition table, as the steps of a run use it.                      *)

\* What a transition of the worker leaves, from each status it can meet.
LEMMA WorkerTransitions ==
    /\ \A s \in {"queued", "cancelled"} : After(s, "starting") \in {"starting", "cancelled"}
    /\ \A s \in {"starting", "pausing", "cancelling", "cancelled"} :
          After(s, "running") \in {"running", "pausing", "cancelling", "cancelled"}
    /\ \A s \in {"running", "pausing", "paused", "cancelling", "cancelled"} :
          After(s, "pausing") \in {"pausing", "paused", "cancelling", "cancelled"}
    /\ \A s \in {"pausing", "paused", "cancelling", "cancelled"} :
          After(s, "paused") \in {"paused", "cancelling", "cancelled"}
    /\ After("paused", "running") = "running"
    /\ \A s \in {"running", "pausing", "cancelling", "cancelled"}, to \in {"completed", "cancelled"} :
          After(s, to) \in Terminal
    /\ \A s \in {"starting", "running", "pausing", "paused", "cancelling", "cancelled"} :
          After(s, "failed") \in Terminal
BY DEF After, Allowed, Successors, Terminal

\* What a handler or the drain may do to a status at any moment.
LEMMA OutsideTransitions ==
    /\ \A s \in {"queued", "cancelled"}, to \in {"pausing", "cancelling", "cancelled"} :
          After(s, to) \in {"queued", "cancelled"}
    /\ \A s \in {"starting", "pausing", "cancelling", "cancelled"},
          to \in {"pausing", "cancelling", "cancelled"} :
          After(s, to) \in {"pausing", "cancelling", "cancelled"}
    /\ \A s \in {"running", "pausing", "cancelling", "cancelled"},
          to \in {"pausing", "cancelling", "cancelled"} :
          After(s, to) \in {"pausing", "cancelling", "cancelled"}
    /\ \A s \in {"paused", "cancelling", "cancelled"}, to \in {"pausing", "cancelling", "cancelled"} :
          After(s, to) \in {"paused", "cancelling", "cancelled"}
    /\ \A s \in Terminal, to \in Statuses : After(s, to) = s
    /\ \A s \in Statuses : After(s, "cancelled") \in Terminal
BY DEF After, Allowed, Successors, Terminal, Statuses

\* A transition asked for from outside fits the worker wherever it is.
LEMMA OutsideFits ==
    ASSUME TypeOK, NEW r \in Runs, NEW q \in Runs, StatusFits(q),
           NEW to \in {"pausing", "cancelling", "cancelled"},
           Transition(r, to), UNCHANGED <<worker, failed>>
    PROVE  StatusFits(q)'
<1>1. CASE q # r
  BY <1>1 DEF StatusFits, Transition, TypeOK
<1>2. CASE q = r
  <2>1. status'[q] = After(status[q], to)
    BY <1>2 DEF Transition, TypeOK
  <2>2. worker'[q] = worker[q] /\ failed'[q] = failed[q]
    OBVIOUS
  <2>3. to \in Statuses
    BY DEF Statuses
  <2>4. CASE worker[q] \in BeforeThread
    BY <2>1, <2>2, <2>4, OutsideTransitions DEF StatusFits, BeforeThread
  <2>5. CASE worker[q] = "loading"
    BY <2>1, <2>2, <2>5, OutsideTransitions DEF StatusFits, BeforeThread
  <2>6. CASE worker[q] \in {"training", "draining", "answering"}
    BY <2>1, <2>2, <2>6, OutsideTransitions DEF StatusFits, BeforeThread
  <2>7. CASE worker[q] \in {"pausing", "deciding"}
    BY <2>1, <2>2, <2>7, OutsideTransitions DEF StatusFits, BeforeThread
  <2>8. CASE worker[q] \in {"pausing2", "parked", "answering2"}
    <3>1. status[q] = "pausing" \/ status[q] \in {"paused", "cancelling", "cancelled"}
      BY <2>8 DEF StatusFits
    <3>2. \/ status'[q] \in {"paused", "cancelling", "cancelled"}
          \/ worker[q] = "pausing2" /\ status'[q] = "pausing"
      BY <2>1, <2>8, <3>1, OutsideTransitions DEF StatusFits
    <3> QED BY <2>2, <2>8, <3>2 DEF StatusFits, BeforeThread
  <2>9. CASE worker[q] \in {"exited", "joined"}
    <3>1. \/ status[q] \in {"running", "pausing", "cancelling", "cancelled"}
          \/ failed[q] /\ status[q] \in {"starting", "paused"}
      BY <2>9 DEF StatusFits
    <3>2. \/ status'[q] \in {"running", "pausing", "cancelling", "cancelled"}
          \/ failed[q] /\ status'[q] = "paused"
      BY <2>1, <3>1, OutsideTransitions
    <3> QED BY <2>2, <2>9, <3>2 DEF StatusFits, BeforeThread
  <2>10. CASE worker[q] \in {"announcing", "over"}
    BY <2>1, <2>2, <2>3, <2>10, OutsideTransitions DEF StatusFits, BeforeThread
  <2>11. worker[q] \in WorkerStates
    BY DEF TypeOK
  <2> QED BY <2>4, <2>5, <2>6, <2>7, <2>8, <2>9, <2>10, <2>11
          DEF WorkerStates, OnThread, AfterThread, Answering
<1> QED BY <1>1, <1>2

\* A terminal status is final, whoever asks for a transition.
LEMMA TerminalStays ==
    ASSUME TypeOK, NEW r \in Runs, NEW q \in Runs, NEW to \in Statuses, Transition(r, to),
           status[q] \in Terminal
    PROVE  status'[q] = status[q]
BY OutsideTransitions DEF Transition, TypeOK

----------------------------------------------------------------------------
(* The line of the semaphore.                                               *)

\* A step that takes no run into or out of `queueing` and leaves the line alone.
LEMMA LineKept ==
    ASSUME TypeOK, LineFits, line' = line, NEW r \in Runs, NEW pc \in WorkerStates \ {"queueing"},
           worker[r] # "queueing", Goto(r, pc)
    PROVE  LineFits'
<1>1. \A q \in Runs : worker'[q] = "queueing" <=> worker[q] = "queueing"
  BY DEF Goto, TypeOK
<1>2. \A i \in 1..Len(line) : line[i] \in Runs
  BY DEF TypeOK
<1> QED BY <1>1, <1>2 DEF LineFits

\* A permit given back moves r on, and grants at most the head of the line.
LEMMA ReleaseEffect ==
    ASSUME TypeOK, LineFits, NEW r \in Runs, NEW pc \in WorkerStates \ {"queueing"},
           worker[r] # "queueing", Release(r, pc)
    PROVE  /\ worker'[r] = pc
           /\ \A q \in Runs \ {r} : \/ worker'[q] = worker[q]
                                    \/ worker[q] = "queueing" /\ worker'[q] = "granted"
           /\ LineFits'
<1>1. CASE line = <<>>
  <2>1. line' = line /\ Goto(r, pc)
    BY <1>1 DEF Release
  <2>2. LineFits'
    BY <2>1, LineKept
  <2> QED BY <2>1, <2>2 DEF Goto, TypeOK
<1>2. CASE line # <<>>
  <2> DEFINE h == Head(line)
  <2>1. /\ line' = Tail(line)
        /\ worker' = [worker EXCEPT ![r] = pc, ![h] = "granted"]
    BY <1>2 DEF Release
  <2>2. line \in Seq(Runs) /\ Len(line) \in Nat \ {0} /\ h = line[1]
    BY <1>2 DEF TypeOK
  <2>3. \A i \in 1..Len(line) : line[i] \in Runs
    BY <2>2
  <2>4. Len(line') = Len(line) - 1 /\ \A i \in 1..Len(line') : line'[i] = line[i + 1]
    BY <2>1, <2>2
  <2>5. worker[h] = "queueing" /\ h \in Runs /\ h # r
    BY <2>2, <2>3 DEF LineFits
  <2>6. /\ worker'[r] = pc /\ worker'[h] = "granted"
        /\ \A q \in Runs \ {r, h} : worker'[q] = worker[q]
    BY <2>1, <2>5 DEF TypeOK
  <2>7. \A i \in 1..Len(line') : worker'[line'[i]] = "queueing"
    <3> TAKE i \in 1..Len(line')
    <3>1. i + 1 \in 1..Len(line) /\ i + 1 # 1 /\ line'[i] = line[i + 1]
      BY <2>2, <2>4
    <3>2. line[i + 1] # h /\ worker[line[i + 1]] = "queueing"
      BY <2>2, <3>1 DEF LineFits
    <3> QED BY <2>3, <2>6, <3>1, <3>2
  <2>8. \A i, j \in 1..Len(line') : line'[i] = line'[j] => i = j
    <3> TAKE i, j \in 1..Len(line')
    <3>1. i + 1 \in 1..Len(line) /\ j + 1 \in 1..Len(line)
      BY <2>2, <2>4
    <3>2. line[i + 1] = line[j + 1] => i + 1 = j + 1
      BY <3>1 DEF LineFits
    <3> QED BY <2>2, <2>4, <3>2
  <2>9. ASSUME NEW q \in Runs, worker'[q] = "queueing"
        PROVE  \E i \in 1..Len(line') : line'[i] = q
    <3>1. worker[q] = "queueing" /\ q # h
      BY <2>5, <2>6, <2>9
    <3>2. PICK k \in 1..Len(line) : line[k] = q
      BY <3>1 DEF LineFits
    <3>3. k - 1 \in 1..Len(line') /\ line'[k - 1] = line[k]
      BY <2>2, <2>4, <3>1, <3>2
    <3> QED BY <3>2, <3>3
  <2> QED BY <2>5, <2>6, <2>7, <2>8, <2>9 DEF LineFits
<1> QED BY <1>1, <1>2

----------------------------------------------------------------------------
(* What one step of a run's task changes for everybody else.                *)

\* A handler whose question the thread of r has taken.
Served(r) == [pc |-> "served", run |-> r]

\* Taking a command, answering or dropping the queue frees a request, or takes
\* its question, or leaves it alone.
LEMMA ClientsFreed ==
    ASSUME TypeOK, NEW r \in Runs, \/ DropQueue(r) \/ Replied(r, {"served"})
                                   \/ commands[r] # <<>> /\ Serve(r)
    PROVE  \A c \in Clients : client'[c] \in {client[c], Idle, Served(r)}
<1>1. CASE DropQueue(r) \/ Replied(r, {"served"})
  BY <1>1 DEF DropQueue, Replied
<1>2. CASE Serve(r)
  BY <1>2 DEF Serve, Served, TypeOK
<1> QED BY <1>1, <1>2

\* Where a step sends a worker.
LEMMA GotoEffect ==
    ASSUME TypeOK, NEW r \in Runs, NEW pc, Goto(r, pc)
    PROVE  worker'[r] = pc /\ \A q \in Runs \ {r} : worker'[q] = worker[q]
BY DEF Goto, TypeOK

\* What a transition does to the statuses.
LEMMA TransitionEffect ==
    ASSUME TypeOK, NEW r \in Runs, NEW to, Transition(r, to)
    PROVE  /\ status'[r] = After(status[r], to)
           /\ \A q \in Runs \ {r} : status'[q] = status[q]
BY DEF Transition, TypeOK

\* What a step of r's task leaves of everybody else: a waiting run may get the
\* permit that r gives back.
Bystanders(r) ==
    \A q \in Runs \ {r} :
        /\ status'[q] = status[q] /\ failed'[q] = failed[q] /\ terminals'[q] = terminals[q]
        /\ \/ worker'[q] = worker[q]
           \/ worker[q] = "queueing" /\ worker'[q] = "granted"

\* Who only watches, or is given a permit, still fits its status.
LEMMA BystandersFit ==
    ASSUME TypeOK, NEW r \in Runs, NEW q \in Runs \ {r}, Bystanders(r), StatusFits(q)
    PROVE  StatusFits(q)'
BY DEF Bystanders, StatusFits, BeforeThread

\* After its own step, the status of a run still fits its worker.
LEMMA TaskFits ==
    ASSUME Inv, NEW r \in Runs, TaskStep(r)
    PROVE  StatusFits(r)' /\ Bystanders(r)
<1> USE DEF Inv, StatusFitsWorker
<1>0. TypeOK /\ LineFits /\ StatusFits(r)
  OBVIOUS
<1>1. CASE Acquire(r)
  <2>1. /\ worker[r] = "spawned" /\ UNCHANGED <<status, failed, terminals>>
        /\ Goto(r, "granted") \/ Goto(r, "queueing")
    BY <1>1 DEF Acquire
  <2>2. worker'[r] \in {"granted", "queueing"} /\ \A q \in Runs \ {r} : worker'[q] = worker[q]
    BY <1>0, <2>1, GotoEffect
  <2> QED BY <1>0, <2>1, <2>2 DEF StatusFits, BeforeThread, Bystanders
<1>2. CASE Withdrawn(r)
  <2>1. /\ worker[r] = "granted" /\ status[r] \in Terminal /\ Release(r, "over")
        /\ UNCHANGED <<status, failed, terminals>>
    BY <1>2 DEF Withdrawn
  <2>2. "over" \in WorkerStates \ {"queueing"}
    BY DEF WorkerStates, AfterThread
  <2>3. worker'[r] = "over" /\ Bystanders(r)
    BY <1>0, <2>1, <2>2, ReleaseEffect DEF Bystanders
  <2> QED BY <2>1, <2>3 DEF StatusFits, BeforeThread
<1>3. CASE Admit(r)
  <2>1. worker[r] = "granted" /\ Goto(r, "admitted") /\ UNCHANGED <<status, failed, terminals>>
    BY <1>3 DEF Admit
  <2>2. worker'[r] = "admitted" /\ Bystanders(r)
    BY <1>0, <2>1, GotoEffect DEF Bystanders
  <2> QED BY <1>0, <2>1, <2>2 DEF StatusFits, BeforeThread
<1>4. CASE Start(r)
  <2>1. /\ worker[r] = "admitted" /\ Transition(r, "starting") /\ Goto(r, "loading")
        /\ UNCHANGED <<failed, terminals>>
    BY <1>4 DEF Start
  <2>2. worker'[r] = "loading" /\ status'[r] = After(status[r], "starting") /\ Bystanders(r)
    BY <1>0, <2>1, GotoEffect, TransitionEffect DEF Bystanders
  <2>3. status'[r] \in {"starting", "cancelled"}
    BY <1>0, <2>1, <2>2, WorkerTransitions DEF StatusFits, BeforeThread
  <2> QED BY <2>2, <2>3 DEF StatusFits, BeforeThread
<1>5. CASE LoopStarts(r)
  <2>1. /\ worker[r] = "loading" /\ Transition(r, "running") /\ Goto(r, "training")
        /\ UNCHANGED <<failed, terminals>>
    BY <1>5 DEF LoopStarts
  <2>2. worker'[r] = "training" /\ status'[r] = After(status[r], "running") /\ Bystanders(r)
    BY <1>0, <2>1, GotoEffect, TransitionEffect DEF Bystanders
  <2>3. status'[r] \in {"running", "pausing", "cancelling", "cancelled"}
    BY <1>0, <2>1, <2>2, WorkerTransitions DEF StatusFits
  <2> QED BY <2>2, <2>3 DEF StatusFits, BeforeThread
<1>6. CASE LoopEnds(r)
  <2>1. /\ worker[r] = "training" /\ Goto(r, "exited") /\ UNCHANGED <<status, terminals>>
        /\ failed' = [failed EXCEPT ![r] = FALSE]
    BY <1>6 DEF LoopEnds, Exit
  <2>2. worker'[r] = "exited" /\ Bystanders(r)
    BY <1>0, <2>1, GotoEffect DEF Bystanders, TypeOK
  <2> QED BY <1>0, <2>1, <2>2 DEF StatusFits, BeforeThread
<1>7. CASE Fail(r)
  <2>1. /\ worker[r] \in {"loading", "training", "answering", "answering2"} /\ Goto(r, "exited")
        /\ UNCHANGED <<status, terminals>>
        /\ failed' = [failed EXCEPT ![r] = TRUE]
    BY <1>7 DEF Fail, Exit, Answering
  <2>2. worker'[r] = "exited" /\ failed'[r] /\ Bystanders(r)
    BY <1>0, <2>1, GotoEffect DEF Bystanders, TypeOK
  <2> QED BY <1>0, <2>1, <2>2 DEF StatusFits, BeforeThread
<1>8. CASE Callback(r)
  <2>1. worker[r] = "training" /\ Goto(r, "draining") /\ UNCHANGED <<status, failed, terminals>>
    BY <1>8 DEF Callback
  <2>2. worker'[r] = "draining" /\ Bystanders(r)
    BY <1>0, <2>1, GotoEffect DEF Bystanders
  <2> QED BY <1>0, <2>1, <2>2 DEF StatusFits, BeforeThread
<1>9. CASE Drain(r)
  <2>1. /\ worker[r] = "draining" /\ UNCHANGED <<status, failed, terminals>>
        /\ Goto(r, "answering") \/ Goto(r, "draining")
    BY <1>9 DEF Drain
  <2>2. worker'[r] \in {"answering", "draining"} /\ Bystanders(r)
    BY <1>0, <2>1, GotoEffect DEF Bystanders
  <2> QED BY <1>0, <2>1, <2>2 DEF StatusFits, BeforeThread
<1>10. CASE Drained(r)
  <2>1. /\ worker[r] = "draining" /\ UNCHANGED <<status, failed, terminals>>
        /\ Goto(r, "pausing") \/ Goto(r, "deciding")
    BY <1>10 DEF Drained
  <2>2. worker'[r] \in {"pausing", "deciding"} /\ Bystanders(r)
    BY <1>0, <2>1, GotoEffect DEF Bystanders
  <2> QED BY <1>0, <2>1, <2>2 DEF StatusFits, BeforeThread
<1>11. CASE Pausing(r)
  <2>1. /\ worker[r] = "pausing" /\ Transition(r, "pausing") /\ Goto(r, "pausing2")
        /\ UNCHANGED <<failed, terminals>>
    BY <1>11 DEF Pausing
  <2>2. worker'[r] = "pausing2" /\ status'[r] = After(status[r], "pausing") /\ Bystanders(r)
    BY <1>0, <2>1, GotoEffect, TransitionEffect DEF Bystanders
  <2>3. status'[r] \in {"pausing", "paused", "cancelling", "cancelled"}
    BY <1>0, <2>1, <2>2, WorkerTransitions DEF StatusFits
  <2> QED BY <2>2, <2>3 DEF StatusFits, BeforeThread
<1>12. CASE Park(r)
  <2>1. /\ worker[r] = "pausing2" /\ Transition(r, "paused") /\ Goto(r, "parked")
        /\ UNCHANGED <<failed, terminals>>
    BY <1>12 DEF Park
  <2>2. worker'[r] = "parked" /\ status'[r] = After(status[r], "paused") /\ Bystanders(r)
    BY <1>0, <2>1, GotoEffect, TransitionEffect DEF Bystanders
  <2>3. status'[r] \in {"paused", "cancelling", "cancelled"}
    BY <1>0, <2>1, <2>2, WorkerTransitions DEF StatusFits
  <2> QED BY <2>2, <2>3 DEF StatusFits, BeforeThread
<1>13. CASE Wake(r)
  <2>1. /\ worker[r] = "parked" /\ UNCHANGED <<status, failed, terminals>>
        /\ Goto(r, "answering2") \/ Goto(r, "pausing") \/ Goto(r, "deciding")
    BY <1>13 DEF Wake
  <2>2. worker'[r] \in {"answering2", "pausing", "deciding"} /\ Bystanders(r)
    BY <1>0, <2>1, GotoEffect DEF Bystanders
  <2> QED BY <1>0, <2>1, <2>2 DEF StatusFits, BeforeThread
<1>14. ASSUME worker[r] = "deciding",
              IF status[r] = "paused" THEN Transition(r, "running") ELSE UNCHANGED status
       PROVE  /\ status'[r] \in {"running", "pausing", "cancelling", "cancelled"}
              /\ \A q \in Runs \ {r} : status'[q] = status[q]
  <2>1. CASE status[r] = "paused"
    BY <1>0, <1>14, <2>1, TransitionEffect, WorkerTransitions
  <2>2. CASE status[r] # "paused"
    BY <1>0, <1>14, <2>2 DEF StatusFits
  <2> QED BY <2>1, <2>2
<1>15. CASE Continue(r)
  <2>1. /\ worker[r] = "deciding" /\ Goto(r, "training") /\ UNCHANGED <<failed, terminals>>
        /\ IF status[r] = "paused" THEN Transition(r, "running") ELSE UNCHANGED status
    BY <1>15 DEF Continue
  <2>2. worker'[r] = "training" /\ Bystanders(r)
    BY <1>0, <1>14, <2>1, GotoEffect DEF Bystanders
  <2> QED BY <1>14, <2>1, <2>2 DEF StatusFits, BeforeThread
<1>16. CASE Stop(r)
  <2>1. /\ worker[r] = "deciding" /\ UNCHANGED <<terminals>>
        /\ IF status[r] = "paused" THEN Transition(r, "running") ELSE UNCHANGED status
        /\ \E error \in BOOLEAN : Exit(r, error)
    BY <1>16 DEF Stop
  <2>2. PICK error \in BOOLEAN : Goto(r, "exited") /\ failed' = [failed EXCEPT ![r] = error]
    BY <2>1 DEF Exit
  <2>3. worker'[r] = "exited" /\ Bystanders(r)
    BY <1>0, <1>14, <2>1, <2>2, GotoEffect DEF Bystanders, TypeOK
  <2> QED BY <1>14, <2>1, <2>3 DEF StatusFits, BeforeThread
<1>17. CASE Join(r)
  <2>1. worker[r] = "exited" /\ Release(r, "joined") /\ UNCHANGED <<status, failed, terminals>>
    BY <1>17 DEF Join
  <2>2. "joined" \in WorkerStates \ {"queueing"}
    BY DEF WorkerStates, AfterThread
  <2>3. worker'[r] = "joined" /\ Bystanders(r)
    BY <1>0, <2>1, <2>2, ReleaseEffect DEF Bystanders
  <2> QED BY <1>0, <2>1, <2>3 DEF StatusFits, BeforeThread
<1>18. CASE Conclude(r)
  <2>1. /\ worker[r] = "joined" /\ Transition(r, Outcome(r)) /\ Goto(r, "announcing")
        /\ UNCHANGED <<failed, terminals>>
    BY <1>18 DEF Conclude
  <2>2. /\ worker'[r] = "announcing" /\ status'[r] = After(status[r], Outcome(r))
        /\ Bystanders(r)
    BY <1>0, <2>1, GotoEffect, TransitionEffect DEF Bystanders
  <2>3. status'[r] \in Terminal
    <3>1. CASE failed[r]
      BY <1>0, <2>1, <2>2, <3>1, WorkerTransitions DEF StatusFits, Outcome
    <3>2. CASE ~failed[r]
      <4>1. Outcome(r) \in {"completed", "cancelled"}
        BY <3>2 DEF Outcome
      <4> QED BY <1>0, <2>1, <2>2, <3>2, <4>1, WorkerTransitions DEF StatusFits
    <3> QED BY <3>1, <3>2
  <2> QED BY <2>2, <2>3 DEF StatusFits, BeforeThread
<1>19. CASE AnnounceOutcome(r)
  <2>1. /\ worker[r] = "announcing" /\ Goto(r, "over") /\ UNCHANGED <<status, failed>>
        /\ \A q \in Runs \ {r} : terminals'[q] = terminals[q]
    BY <1>19 DEF AnnounceOutcome, Publish, TypeOK
  <2>2. worker'[r] = "over" /\ Bystanders(r)
    BY <1>0, <2>1, GotoEffect DEF Bystanders
  <2> QED BY <1>0, <2>1, <2>2 DEF StatusFits, BeforeThread
<1>20. CASE Answer(r)
  <2>1. /\ UNCHANGED <<status, failed, terminals>>
        /\ \/ worker[r] = "answering" /\ Goto(r, "draining")
           \/ worker[r] = "answering2" /\ Goto(r, "pausing")
    BY <1>20 DEF Answer, Answering
  <2>2. /\ \/ worker[r] = "answering" /\ worker'[r] = "draining"
           \/ worker[r] = "answering2" /\ worker'[r] = "pausing"
        /\ Bystanders(r)
    BY <1>0, <2>1, GotoEffect DEF Bystanders
  <2> QED BY <1>0, <2>1, <2>2 DEF StatusFits, BeforeThread
<1> QED BY <1>1, <1>2, <1>3, <1>4, <1>5, <1>6, <1>7, <1>8, <1>9, <1>10, <1>11, <1>12, <1>13,
           <1>15, <1>16, <1>17, <1>18, <1>19, <1>20 DEF TaskStep

\* A step of a run's task frees requests or, on its thread, takes their
\* questions, and takes no run back before its thread.
LEMMA TaskFrees ==
    ASSUME Inv, NEW r \in Runs, TaskStep(r)
    PROVE  /\ \A c \in Clients : client'[c] \in {client[c], Idle, Served(r)}
           /\ worker[r] \in BeforeThread => \A c \in Clients : client'[c] \in {client[c], Idle}
           /\ \A q \in Runs : worker[q] \notin BeforeThread => worker'[q] \notin BeforeThread
<1>0. TypeOK /\ LineFits
  BY DEF Inv
<1>01. \/ DropQueue(r) \/ Answer(r) \/ Drain(r) \/ Wake(r) \/ UNCHANGED client
  BY DEF TaskStep, Acquire, Withdrawn, Admit, Start, LoopStarts, LoopEnds, Fail, Callback,
         Drained, Pausing, Park, Continue, Stop, Join, Conclude, AnnounceOutcome, Exit
<1>1. \A c \in Clients : client'[c] \in {client[c], Idle, Served(r)}
  <2>1. CASE UNCHANGED client
    BY <2>1
  <2>2. CASE DropQueue(r)
    BY <1>0, <2>2, ClientsFreed
  <2>3. CASE Answer(r)
    <3>1. Replied(r, {"served"})
      BY <2>3 DEF Answer
    <3> QED BY <1>0, <3>1, ClientsFreed
  <2>4. CASE Drain(r) \/ Wake(r)
    <3>1. commands[r] # <<>> /\ Serve(r)
      BY <2>4 DEF Drain, Wake
    <3> QED BY <1>0, <3>1, ClientsFreed
  <2> QED BY <1>01, <2>1, <2>2, <2>3, <2>4
<1>12. ASSUME worker[r] \in BeforeThread, NEW c \in Clients
       PROVE  client'[c] \in {client[c], Idle}
  <2>1. DropQueue(r) \/ UNCHANGED client
    BY <1>12 DEF TaskStep, Acquire, Withdrawn, Admit, Start, LoopStarts, LoopEnds, Fail, Callback,
           Drain, Drained, Pausing, Park, Wake, Answer, Continue, Stop, Join, Conclude,
           AnnounceOutcome, Exit, BeforeThread, Answering
  <2>2. CASE DropQueue(r)
    BY <2>2 DEF DropQueue, Replied
  <2> QED BY <2>1, <2>2
<1>2. ASSUME NEW q \in Runs \ {r}, worker[q] \notin BeforeThread
      PROVE  worker'[q] \notin BeforeThread
  BY <1>2, TaskFits DEF Bystanders, BeforeThread
<1>3. ASSUME worker[r] \notin BeforeThread
      PROVE  worker'[r] \notin BeforeThread
  <2> USE DEF BeforeThread
  <2>1. CASE Join(r)
    <3>1. worker[r] # "queueing" /\ Release(r, "joined")
      BY <2>1 DEF Join
    <3>2. "joined" \in WorkerStates \ {"queueing"}
      BY DEF WorkerStates, AfterThread
    <3> QED BY <1>0, <3>1, <3>2, ReleaseEffect
  <2>2. CASE UNCHANGED worker
    BY <1>3, <2>2
  <2>3. CASE \E pc \in OnThread \cup AfterThread : Goto(r, pc)
    BY <1>0, <2>3, GotoEffect DEF OnThread, AfterThread, Answering
  <2>4. \/ Join(r) \/ UNCHANGED worker
        \/ \E pc \in OnThread \cup AfterThread : Goto(r, pc)
    BY <1>3 DEF TaskStep, Acquire, Withdrawn, Admit, Start, LoopStarts, LoopEnds, Fail, Callback,
           Drain, Drained, Pausing, Park, Wake, Answer, Continue, Stop, Join, Conclude,
           AnnounceOutcome, Exit, OnThread, AfterThread, Answering
  <2> QED BY <2>1, <2>2, <2>3, <2>4
<1> QED BY <1>1, <1>12, <1>2, <1>3

\* A step of a run's task leaves a terminal status alone, and publishes a
\* terminal event under one only.
LEMMA TaskAnnounces ==
    ASSUME Inv, NEW r \in Runs, TaskStep(r)
    PROVE  \A q \in Runs : /\ status[q] \in Terminal => status'[q] = status[q]
                           /\ terminals'[q] = terminals[q] \/ status[q] \in Terminal
<1>0. TypeOK /\ StatusFits(r)
  BY DEF Inv, StatusFitsWorker
<1>1. status[r] \in Terminal => status'[r] = status[r]
  <2>1. ASSUME NEW to \in {"starting", "running", "pausing", "paused", "failed", "cancelled",
                           "completed"}, Transition(r, to)
        PROVE  status[r] \in Terminal => status'[r] = status[r]
    <3>1. to \in Statuses
      BY DEF Statuses
    <3> QED BY <1>0, <2>1, <3>1, TerminalStays
  <2>2. Outcome(r) \in {"failed", "cancelled", "completed"}
    BY DEF Outcome
  <2>3. \/ UNCHANGED status
        \/ Transition(r, "starting") \/ Transition(r, "running") \/ Transition(r, "pausing")
        \/ Transition(r, "paused") \/ Transition(r, Outcome(r))
    BY DEF TaskStep, Acquire, Withdrawn, Admit, Start, LoopStarts, LoopEnds, Fail, Callback,
           Drain, Drained, Pausing, Park, Wake, Answer, Continue, Stop, Join, Conclude,
           AnnounceOutcome
  <2> QED BY <2>1, <2>2, <2>3
<1>2. terminals'[r] = terminals[r] \/ status[r] \in Terminal
  <2>1. CASE AnnounceOutcome(r)
    BY <1>0, <2>1 DEF AnnounceOutcome, StatusFits
  <2>2. CASE ~AnnounceOutcome(r)
    BY <2>2 DEF TaskStep, Acquire, Withdrawn, Admit, Start, LoopStarts, LoopEnds, Fail, Callback,
           Drain, Drained, Pausing, Park, Wake, Answer, Continue, Stop, Join, Conclude
  <2> QED BY <2>1, <2>2
<1> QED BY <1>1, <1>2, TaskFits DEF Bystanders

\* A place in the semaphore's line is taken at its end.
LEMMA LineGrows ==
    ASSUME TypeOK, LineFits, NEW r \in Runs, worker[r] = "spawned",
           line' = Append(line, r), Goto(r, "queueing")
    PROVE  LineFits'
<1>1. /\ line \in Seq(Runs) /\ Len(line) \in Nat
      /\ Len(line') = Len(line) + 1 /\ line'[Len(line) + 1] = r
      /\ \A i \in 1..Len(line) : line'[i] = line[i] /\ line[i] \in Runs
  BY DEF TypeOK
<1>2. worker'[r] = "queueing" /\ \A q \in Runs \ {r} : worker'[q] = worker[q]
  BY GotoEffect
<1>3. \A i \in 1..Len(line) : worker[line[i]] = "queueing" /\ line[i] # r
  BY DEF LineFits
<1>4. \A i \in 1..Len(line') : i \in 1..Len(line) \/ i = Len(line) + 1
  BY <1>1
<1>5. \A i \in 1..Len(line') : worker'[line'[i]] = "queueing"
  BY <1>1, <1>2, <1>3, <1>4
<1>6. \A i, j \in 1..Len(line') : line'[i] = line'[j] => i = j
  BY <1>1, <1>3, <1>4 DEF LineFits
<1>7. ASSUME NEW q \in Runs, worker'[q] = "queueing"
      PROVE  \E i \in 1..Len(line') : line'[i] = q
  <2>1. CASE q = r
    BY <1>1, <2>1
  <2>2. CASE q # r
    <3>1. PICK i \in 1..Len(line) : line[i] = q
      BY <1>2, <1>7, <2>2 DEF LineFits
    <3> QED BY <1>1, <3>1
  <2> QED BY <2>1, <2>2
<1> QED BY <1>5, <1>6, <1>7 DEF LineFits

\* The line survives every step of a run's task.
LEMMA TaskLine ==
    ASSUME Inv, NEW r \in Runs, TaskStep(r)
    PROVE  LineFits'
<1>0. TypeOK /\ LineFits
  BY DEF Inv
<1>1. CASE Acquire(r)
  <2>1. /\ worker[r] = "spawned"
        /\ \/ line' = line /\ Goto(r, "granted")
           \/ line' = Append(line, r) /\ Goto(r, "queueing")
    BY <1>1 DEF Acquire
  <2>2. "granted" \in WorkerStates \ {"queueing"}
    BY DEF WorkerStates, BeforeThread
  <2> QED BY <1>0, <2>1, <2>2, LineKept, LineGrows
<1>2. CASE Withdrawn(r) \/ Join(r)
  <2>1. worker[r] # "queueing" /\ (Release(r, "over") \/ Release(r, "joined"))
    BY <1>2 DEF Withdrawn, Join
  <2>2. "over" \in WorkerStates \ {"queueing"} /\ "joined" \in WorkerStates \ {"queueing"}
    BY DEF WorkerStates, AfterThread
  <2> QED BY <1>0, <2>1, <2>2, ReleaseEffect
<1>3. CASE UNCHANGED <<line, worker>>
  BY <1>0, <1>3 DEF LineFits
<1>4. CASE /\ line' = line /\ worker[r] # "queueing"
           /\ \E pc \in WorkerStates \ {"queueing"} : Goto(r, pc)
  BY <1>0, <1>4, LineKept
<1>5. \/ Acquire(r) \/ Withdrawn(r) \/ Join(r) \/ UNCHANGED <<line, worker>>
      \/ /\ line' = line /\ worker[r] # "queueing"
         /\ \E pc \in WorkerStates \ {"queueing"} : Goto(r, pc)
  BY DEF TaskStep, Admit, Start, LoopStarts, LoopEnds, Fail, Callback,
         Drain, Drained, Pausing, Park, Wake, Answer, Continue, Stop, Conclude, AnnounceOutcome, Exit,
         WorkerStates, BeforeThread, OnThread, AfterThread, Answering
<1> QED BY <1>1, <1>2, <1>3, <1>4, <1>5

----------------------------------------------------------------------------
(* The inductive invariant.                                                 *)

\* It holds at the start ...
LEMMA InvInit == Init => Inv
<1> SUFFICES ASSUME Init PROVE Inv
  OBVIOUS
<1>1. TypeOK
  BY TypeInit
<1>2. /\ \A r \in Runs : status[r] = "queued" /\ worker[r] = "unborn" /\ terminals[r] = <<>>
      /\ \A c \in Clients : client[c].pc = "idle"
      /\ line = <<>>
  BY DEF Init, Idle
<1>3. StatusFitsWorker
  BY <1>2 DEF StatusFitsWorker, StatusFits
<1>4. LineFits /\ HandlersFitRuns /\ TerminalEventIsTrue
  BY <1>2 DEF LineFits, HandlersFitRuns, HandlerFits, TerminalEventIsTrue
<1> QED BY <1>1, <1>3, <1>4 DEF Inv

\* ... through every step of a task ...
LEMMA InvTaskStep ==
    ASSUME Inv, NEW r \in Runs, TaskStep(r)
    PROVE  Inv'
<1>1. TypeOK'
  BY TypeTaskStep DEF Inv
<1>2. StatusFitsWorker'
  <2>1. ASSUME NEW q \in Runs \ {r} PROVE StatusFits(q)'
    BY <2>1, TaskFits, BystandersFit DEF Inv, StatusFitsWorker
  <2> QED BY <2>1, TaskFits DEF StatusFitsWorker
<1>3. LineFits'
  BY TaskLine
<1>4. HandlersFitRuns'
  <2> SUFFICES ASSUME NEW c \in Clients PROVE HandlerFits(c)'
    BY DEF HandlersFitRuns
  <2>1. CASE client'[c] = Idle
    BY <2>1 DEF HandlerFits, Idle
  <2>2. CASE client'[c] = client[c]
    <3>1. client[c].pc \in {"send", "mark", "await", "served", "announce"}
              => client[c].run \in Runs
      BY BusyClient DEF Inv, TypeOK
    <3>2. HandlerFits(c)
      BY DEF Inv, HandlersFitRuns
    <3> QED BY <2>2, <3>1, <3>2, TaskFrees, TaskAnnounces DEF HandlerFits
  <2>3. CASE client'[c] = Served(r) /\ worker[r] \notin BeforeThread
    <3>1. client'[c].pc = "served" /\ client'[c].run = r
      BY <2>3 DEF Served
    <3>2. worker'[r] \notin BeforeThread
      BY <2>3, TaskFrees
    <3> QED BY <3>1, <3>2 DEF HandlerFits
  <2> QED BY <2>1, <2>2, <2>3, TaskFrees
<1>5. TerminalEventIsTrue'
  BY TaskAnnounces DEF Inv, TerminalEventIsTrue
<1> QED BY <1>1, <1>2, <1>3, <1>4, <1>5 DEF Inv

\* What is left when a step moves no worker and no line: a change of status
\* from outside, a terminal event under a terminal status, a change of clients.
LEMMA OutsideStep ==
    ASSUME Inv, UNCHANGED <<worker, failed, line>>,
           \/ UNCHANGED status
           \/ \E r \in Runs, to \in {"pausing", "cancelling", "cancelled"} : Transition(r, to),
           \A q \in Runs : terminals'[q] = terminals[q] \/ status[q] \in Terminal
    PROVE  /\ StatusFitsWorker' /\ LineFits' /\ TerminalEventIsTrue'
           /\ \A q \in Runs : status[q] \in Terminal => status'[q] = status[q]
<1>0. TypeOK
  BY DEF Inv
<1>1. LineFits'
  BY DEF Inv, LineFits
<1>2. CASE UNCHANGED status
  <2>1. StatusFitsWorker'
    BY <1>2 DEF Inv, StatusFitsWorker, StatusFits
  <2> QED BY <1>1, <1>2, <2>1 DEF Inv, TerminalEventIsTrue
<1>3. ASSUME NEW r \in Runs, NEW to \in {"pausing", "cancelling", "cancelled"}, Transition(r, to)
      PROVE  /\ StatusFitsWorker' /\ TerminalEventIsTrue'
             /\ \A q \in Runs : status[q] \in Terminal => status'[q] = status[q]
  <2>1. to \in Statuses
    BY DEF Statuses
  <2>2. StatusFitsWorker'
    BY <1>0, <1>3, OutsideFits DEF Inv, StatusFitsWorker
  <2>3. \A q \in Runs : status[q] \in Terminal => status'[q] = status[q]
    BY <1>0, <1>3, <2>1, TerminalStays
  <2>4. TerminalEventIsTrue'
    BY <2>3 DEF Inv, TerminalEventIsTrue
  <2> QED BY <2>2, <2>3, <2>4
<1> QED BY <1>1, <1>2, <1>3

\* A change of clients in such a step: each is left alone, idle, or fits the
\* runs of the state before.
LEMMA OutsideClients ==
    ASSUME Inv, UNCHANGED worker,
           \A q \in Runs : status[q] \in Terminal => status'[q] = status[q],
           NEW c \in Clients, client'[c] \in {client[c], Idle}
    PROVE  HandlerFits(c)'
<1>1. client[c].pc \in {"send", "mark", "await", "served", "announce"} => client[c].run \in Runs
  BY BusyClient DEF Inv, TypeOK
<1>2. HandlerFits(c)
  BY DEF Inv, HandlersFitRuns
<1> QED BY <1>1, <1>2 DEF HandlerFits, Idle

\* ... of a handler ...
LEMMA InvHandlerStep ==
    ASSUME Inv, NEW c \in Clients, HandlerStep(c)
    PROVE  Inv'
<1>0. TypeOK /\ TypeOK' /\ HandlerFits(c)
  BY TypeHandlerStep DEF Inv, HandlersFitRuns
<1>1. client[c].run \in Runs
  BY <1>0, BusyClient DEF HandlerStep, Send, Mark, TimeOut, Withdraw, AnnounceWithdrawal, TypeOK
<1>2. /\ UNCHANGED <<worker, failed, line>>
      /\ \/ UNCHANGED status
         \/ \E r \in Runs, to \in {"pausing", "cancelling", "cancelled"} : Transition(r, to)
  BY <1>1 DEF HandlerStep, Send, Mark, TimeOut, Withdraw, AnnounceWithdrawal
<1>3. \A q \in Runs : terminals'[q] = terminals[q] \/ status[q] \in Terminal
  <2>1. CASE AnnounceWithdrawal(c)
    BY <1>0, <1>1, <2>1 DEF AnnounceWithdrawal, Publish, HandlerFits, TypeOK
  <2>2. CASE ~AnnounceWithdrawal(c)
    BY <2>2 DEF HandlerStep, Send, Mark, TimeOut, Withdraw
  <2> QED BY <2>1, <2>2
<1>4. /\ StatusFitsWorker' /\ LineFits' /\ TerminalEventIsTrue'
      /\ \A q \in Runs : status[q] \in Terminal => status'[q] = status[q]
  BY <1>2, <1>3, OutsideStep
<1>5. \A d \in Clients \ {c} : client'[d] = client[d]
  BY <1>0 DEF HandlerStep, Send, Mark, TimeOut, Withdraw, AnnounceWithdrawal, TypeOK
<1>6. HandlerFits(c)'
  <2>1. CASE Send(c)
    <3>1. /\ client[c] \in [pc : {"send", "mark", "await"}, run : Runs, command : Commands]
          /\ client[c].pc = "send" /\ worker'[client[c].run] \notin BeforeThread
      BY <1>0, <1>2, <2>1, BusyClient DEF Send, TypeOK, HandlerFits
    <3>2. \/ client'[c] = [client[c] EXCEPT !.pc = "mark"]
          \/ client'[c] = [client[c] EXCEPT !.pc = "await"]
          \/ client'[c] = Idle
      BY <1>0, <2>1 DEF Send, TypeOK
    <3> QED BY <3>1, <3>2 DEF HandlerFits, Idle
  <2>2. CASE Withdraw(c)
    <3>1. client[c] \in [pc : {"withdraw", "announce", "served"}, run : Runs]
      BY <1>0, <2>2, BusyClient DEF Withdraw, TypeOK
    <3>2. client'[c] = [client[c] EXCEPT !.pc = "announce"]
      BY <1>0, <2>2 DEF Withdraw, TypeOK
    <3>3. client'[c].pc = "announce" /\ client'[c].run = client[c].run
      BY <3>1, <3>2
    <3>4. status'[client[c].run] = After(status[client[c].run], "cancelled")
      BY <1>0, <1>1, <2>2, TransitionEffect DEF Withdraw
    <3>5. status[client[c].run] \in Statuses
      BY <1>0, <1>1 DEF TypeOK
    <3>6. status'[client[c].run] \in Terminal
      BY <3>4, <3>5, OutsideTransitions
    <3> QED BY <3>3, <3>6 DEF HandlerFits
  <2>3. CASE Mark(c) \/ TimeOut(c) \/ AnnounceWithdrawal(c)
    <3>1. client'[c] = Idle
      BY <1>0, <2>3 DEF Mark, TimeOut, AnnounceWithdrawal, TypeOK
    <3> QED BY <3>1 DEF HandlerFits, Idle
  <2> QED BY <2>1, <2>2, <2>3 DEF HandlerStep
<1>7. HandlersFitRuns'
  BY <1>2, <1>4, <1>5, <1>6, OutsideClients DEF HandlersFitRuns
<1> QED BY <1>0, <1>4, <1>7 DEF Inv

\* ... through a request ...
LEMMA InvRequest ==
    ASSUME Inv, NEW c \in Clients, NEW r \in Runs, NEW route \in Offers,
           Request(c, r, route) \/ RequestWithdrawal(c, r, route)
    PROVE  Inv'
<1>0. TypeOK /\ TypeOK' /\ StatusFits(r)
  BY TypeRequest DEF Inv, StatusFitsWorker
<1>1. UNCHANGED <<status, terminals, worker, failed, line>>
  BY DEF Request, RequestWithdrawal, Asks
<1>2. StatusFitsWorker' /\ LineFits' /\ TerminalEventIsTrue'
  BY <1>1, OutsideStep
<1>3. HandlerFits(c)'
  <2>1. CASE Request(c, r, route)
    <3>1. /\ client'[c] = [pc |-> "send", run |-> r, command |-> CommandOf(c, route)]
          /\ status[r] \in Admits(CommandOf(c, route).kind)
      BY <1>0, <2>1 DEF Request, TypeOK
    <3>2. status[r] \notin {"queued", "cancelled"}
      BY <3>1 DEF Admits
    <3> QED BY <1>0, <1>1, <3>1, <3>2 DEF HandlerFits, StatusFits
  <2>2. CASE RequestWithdrawal(c, r, route)
    <3>1. client'[c] = [pc |-> "withdraw", run |-> r]
      BY <1>0, <2>2 DEF RequestWithdrawal, TypeOK
    <3> QED BY <3>1 DEF HandlerFits
  <2> QED BY <2>1, <2>2
<1>4. ASSUME NEW d \in Clients \ {c} PROVE HandlerFits(d)'
  <2>1. client'[d] = client[d]
    BY <1>0 DEF Request, RequestWithdrawal, TypeOK
  <2> QED BY <1>1, <2>1, OutsideClients
<1> QED BY <1>0, <1>2, <1>3, <1>4 DEF Inv, HandlersFitRuns

\* ... the drain ...
LEMMA InvDrainStep ==
    ASSUME Inv, DrainStarts \/ DrainStep
    PROVE  Inv'
<1>0. TypeOK /\ TypeOK'
  BY TypeDrainStep DEF Inv
<1>1. UNCHANGED <<worker, failed, line, terminals, client>>
  BY DEF DrainStarts, DrainStep, DrainCheckpoint, DrainCancel, DrainMark, DrainEnds
<1>2. \/ UNCHANGED status
      \/ \E r \in Runs, to \in {"pausing", "cancelling", "cancelled"} : Transition(r, to)
  <2>1. CASE DrainMark
    <3>1. drain.run \in Runs
      BY <1>0, <2>1 DEF DrainMark, TypeOK, DrainStates
    <3> QED BY <2>1, <3>1 DEF DrainMark
  <2>2. CASE ~DrainMark
    BY <2>2 DEF DrainStarts, DrainStep, DrainCheckpoint, DrainCancel, DrainEnds
  <2> QED BY <2>1, <2>2
<1>3. /\ StatusFitsWorker' /\ LineFits' /\ TerminalEventIsTrue'
      /\ \A q \in Runs : status[q] \in Terminal => status'[q] = status[q]
  BY <1>1, <1>2, OutsideStep
<1>4. HandlersFitRuns'
  BY <1>1, <1>3, OutsideClients DEF HandlersFitRuns
<1> QED BY <1>0, <1>3, <1>4 DEF Inv

\* ... and the creation of a run ...
LEMMA InvCreate ==
    ASSUME Inv, NEW r \in Runs, Create(r)
    PROVE  Inv'
<1>0. TypeOK /\ LineFits
  BY DEF Inv
<1>1. TypeOK'
  BY <1>0, TypeNext DEF Next
<1>2. /\ worker[r] = "unborn" /\ Goto(r, "spawned")
      /\ UNCHANGED <<status, terminals, failed, line, client>>
  BY DEF Create
<1>3. worker'[r] = "spawned" /\ \A q \in Runs \ {r} : worker'[q] = worker[q]
  BY <1>0, <1>2, GotoEffect
<1>4. "spawned" \in WorkerStates \ {"queueing"}
  BY DEF WorkerStates, BeforeThread
<1>5. LineFits'
  BY <1>0, <1>2, <1>4, LineKept
<1>6. StatusFitsWorker'
  BY <1>2, <1>3 DEF Inv, StatusFitsWorker, StatusFits, BeforeThread
<1>7. HandlersFitRuns'
  <2> SUFFICES ASSUME NEW c \in Clients PROVE HandlerFits(c)'
    BY DEF HandlersFitRuns
  <2>1. client[c].pc \in {"send", "mark", "await", "served"} => client[c].run \in Runs \ {r}
    BY <1>0, <1>2, BusyClient DEF Inv, TypeOK, HandlersFitRuns, HandlerFits, BeforeThread
  <2>2. HandlerFits(c)
    BY DEF Inv, HandlersFitRuns
  <2> QED BY <1>2, <1>3, <2>1, <2>2 DEF HandlerFits
<1>8. TerminalEventIsTrue'
  BY <1>2 DEF Inv, TerminalEventIsTrue
<1> QED BY <1>1, <1>5, <1>6, <1>7, <1>8 DEF Inv

\* ... so through every step.
LEMMA InvNext == Inv /\ [Next]_vars => Inv'
<1> SUFFICES ASSUME Inv, [Next]_vars PROVE Inv'
  OBVIOUS
<1>1. CASE UNCHANGED vars
  <2>1. TypeOK'
    BY <1>1 DEF Inv, TypeOK, vars
  <2>2. StatusFitsWorker' /\ LineFits' /\ TerminalEventIsTrue'
    BY <1>1, OutsideStep DEF vars
  <2>3. HandlersFitRuns'
    BY <1>1, OutsideClients DEF vars, HandlersFitRuns
  <2> QED BY <2>1, <2>2, <2>3 DEF Inv
<1>2. CASE Next
  BY <1>2, InvCreate, InvTaskStep, InvHandlerStep, InvRequest, InvDrainStep DEF Next
<1> QED BY <1>1, <1>2

\* And so always.
LEMMA InvHolds == Spec => []Inv
BY InvInit, InvNext, PTL DEF Spec

----------------------------------------------------------------------------
(* Safety.                                                                  *)

\* Where the worker of a run is and what its status shows always fit, whatever
\* handlers, thread and drain do in between (worker.rs, control.rs).
THEOREM StatusAlwaysFits == Spec => []StatusFitsWorker
<1>1. Inv => StatusFitsWorker
  BY DEF Inv
<1> QED BY <1>1, InvHolds, PTL

\* A terminal event is never published under a status that is not terminal
\* (complete, cancelled and the cancel handler).
THEOREM TerminalEventsAreTrue == Spec => []TerminalEventIsTrue
<1>1. Inv => TerminalEventIsTrue
  BY DEF Inv
<1> QED BY <1>1, InvHolds, PTL

\* No run whose task has returned is left in a live status (worker.rs, spawn).
THEOREM EndedRunsAreTerminal == Spec => []EndedRunIsTerminal
<1>1. Inv => EndedRunIsTerminal
  BY DEF Inv, StatusFitsWorker, StatusFits, EndedRunIsTerminal
<1> QED BY <1>1, InvHolds, PTL

\* A thread blocked in its pause is never shown as running (control.rs, poll).
THEOREM ParkedRunsShowPaused == Spec => []ParkedRunShowsPaused
<1>1. Inv => ParkedRunShowsPaused
  BY DEF Inv, StatusFitsWorker, StatusFits, ParkedRunShowsPaused, Terminal
<1> QED BY <1>1, InvHolds, PTL

\* A run shown as paused is inside its callback (control.rs, poll).
THEOREM PausedRunsAreHeld == Spec => []PausedRunIsHeld
<1>1. Inv => PausedRunIsHeld
  <2> SUFFICES ASSUME Inv, NEW r \in Runs, status[r] = "paused"
               PROVE  \/ worker[r] \in {"pausing", "pausing2", "parked", "answering2", "deciding"}
                      \/ worker[r] \in {"exited", "joined"} /\ failed[r]
    BY DEF PausedRunIsHeld
  <2>1. StatusFits(r) /\ worker[r] \in WorkerStates
    BY DEF Inv, StatusFitsWorker, TypeOK
  <2> QED BY <2>1 DEF StatusFits, WorkerStates, OnThread, Answering, AfterThread, Terminal
<1> QED BY <1>1, InvHolds, PTL

\* The semaphore's line holds the waiting tasks, each once (worker.rs).
THEOREM LineAlwaysFits == Spec => []LineFits
<1>1. Inv => LineFits
  BY DEF Inv
<1> QED BY <1>1, InvHolds, PTL

\* No command is on its way to a run without a thread (api/control.rs).
THEOREM HandlersAlwaysFit == Spec => []HandlersFitRuns
<1>1. Inv => HandlersFitRuns
  BY DEF Inv
<1> QED BY <1>1, InvHolds, PTL

\* What is shown of a run always fits what it does: the four facts above in one
\* (worker.rs, control.rs and the handlers).
THEOREM StatusAlwaysTells == Spec => []StatusTellsTheRun
<1>1. /\ StatusFitsWorker /\ HandlersFitRuns /\ ParkedRunShowsPaused /\ PausedRunIsHeld
      => StatusTellsTheRun
  BY DEF StatusTellsTheRun
<1> QED BY <1>1, StatusAlwaysFits, HandlersAlwaysFit, ParkedRunsShowPaused, PausedRunsAreHeld, PTL

\* A closed stream and a returned task both mean a terminal status (registry.rs).
THEOREM EndsAreAlwaysTerminal == Spec => []EndsAreTerminal
<1>1. TerminalEventIsTrue /\ EndedRunIsTerminal => EndsAreTerminal
  BY DEF EndsAreTerminal
<1> QED BY <1>1, TerminalEventsAreTrue, EndedRunsAreTerminal, PTL

----------------------------------------------------------------------------
(* The contract.                                                            *)

\* A transition is a move of the contract, or nothing.
LEMMA TransitionMoves ==
    ASSUME TypeOK, NEW r \in Runs, NEW to, Transition(r, to)
    PROVE  status' = status \/ \E s \in Successors(status[r]) : status' = [status EXCEPT ![r] = s]
BY DEF Transition, After, Allowed, TypeOK

\* A published event announces one run.
LEMMA PublishAnnounces ==
    ASSUME TypeOK, NEW r \in Runs, NEW outcome, Publish(r, outcome)
    PROVE  {q \in Runs : terminals'[q] # <<>>} = {q \in Runs : terminals[q] # <<>>} \cup {r}
<1>1. terminals'[r] = Append(terminals[r], outcome) /\ terminals[r] \in Seq(Statuses)
  BY DEF Publish, TypeOK
<1>2. terminals'[r] # <<>>
  BY <1>1
<1>3. \A q \in Runs \ {r} : terminals'[q] = terminals[q]
  BY DEF Publish, TypeOK
<1> QED BY <1>2, <1>3

\* What a step of any kind does to the two things a client can observe.
LEMMA StepObserved ==
    ASSUME Inv, [Next]_vars
    PROVE  \/ UNCHANGED <<status, terminals>>
           \/ UNCHANGED terminals /\ \E r \in Runs : \E to \in Statuses : Transition(r, to)
           \/ /\ UNCHANGED status
              /\ \E r \in Runs : \E outcome \in Statuses :
                    status[r] \in Terminal /\ Publish(r, outcome)
<1>0. TypeOK
  BY DEF Inv
<1> USE DEF Statuses
<1>1. ASSUME NEW r \in Runs, TaskStep(r)
      PROVE  \/ UNCHANGED <<status, terminals>>
             \/ UNCHANGED terminals /\ \E to \in Statuses : Transition(r, to)
             \/ /\ UNCHANGED status
                /\ \E outcome \in Statuses : status[r] \in Terminal /\ Publish(r, outcome)
  <2>1. CASE AnnounceOutcome(r)
    <3>1. status[r] \in Terminal /\ status[r] \in Statuses /\ Outcome(r) \in Statuses
      BY <1>0, <2>1 DEF AnnounceOutcome, Inv, StatusFitsWorker, StatusFits, TypeOK, Outcome
    <3> QED BY <2>1, <3>1 DEF AnnounceOutcome
  <2>2. CASE Conclude(r)
    <3>1. Outcome(r) \in Statuses
      BY DEF Outcome
    <3> QED BY <2>2, <3>1 DEF Conclude
  <2>3. CASE ~AnnounceOutcome(r) /\ ~Conclude(r)
    BY <1>1, <2>3 DEF TaskStep, Acquire, Withdrawn, Admit, Start, LoopStarts, LoopEnds, Fail,
       Callback, Drain, Drained, Pausing, Park, Wake, Answer, Continue, Stop, Join
  <2> QED BY <2>1, <2>2, <2>3
<1>2. ASSUME NEW c \in Clients, HandlerStep(c)
      PROVE  \/ UNCHANGED <<status, terminals>>
             \/ UNCHANGED terminals /\ \E r \in Runs : \E to \in Statuses : Transition(r, to)
             \/ /\ UNCHANGED status
                /\ \E r \in Runs : \E outcome \in Statuses :
                      status[r] \in Terminal /\ Publish(r, outcome)
  <2>1. client[c].run \in Runs
    BY <1>0, <1>2, BusyClient
       DEF HandlerStep, Send, Mark, TimeOut, Withdraw, AnnounceWithdrawal, TypeOK
  <2>2. CASE AnnounceWithdrawal(c)
    <3>1. status[client[c].run] \in Terminal
      BY <2>2 DEF AnnounceWithdrawal, Inv, HandlersFitRuns, HandlerFits
    <3> QED BY <2>1, <2>2, <3>1 DEF AnnounceWithdrawal
  <2>3. CASE ~AnnounceWithdrawal(c)
    BY <1>2, <2>1, <2>3 DEF HandlerStep, Send, Mark, TimeOut, Withdraw
  <2> QED BY <2>2, <2>3
<1>3. CASE DrainStep
  <2>1. CASE DrainMark
    <3>1. drain.run \in Runs
      BY <1>0, <2>1 DEF DrainMark, TypeOK, DrainStates
    <3> QED BY <2>1, <3>1 DEF DrainMark
  <2>2. CASE ~DrainMark
    BY <1>3, <2>2 DEF DrainStep, DrainCheckpoint, DrainCancel, DrainEnds
  <2> QED BY <2>1, <2>2
<1>4. CASE \/ \E r \in Runs : Create(r)
           \/ \E c \in Clients, r \in Runs, route \in Offers :
                 Request(c, r, route) \/ RequestWithdrawal(c, r, route)
           \/ DrainStarts \/ UNCHANGED vars
  BY <1>4 DEF Create, Request, RequestWithdrawal, Asks, DrainStarts, vars
<1> QED BY <1>1, <1>2, <1>3, <1>4 DEF Next

\* The server keeps the contract of a run: its status moves along the transition
\* table only, and its stream is closed under a terminal status only.
THEOREM ContractKept == Spec => ImplementsContract
<1>1. Init => Contract!ContractInit
  BY DEF Init, Contract!ContractInit
<1>2. Inv /\ [Next]_vars => [Contract!ContractNext]_Contract!contractVars
  <2> SUFFICES ASSUME Inv, [Next]_vars
               PROVE  [Contract!ContractNext]_Contract!contractVars
    OBVIOUS
  <2> USE DEF Contract!contractVars
  <2>0. TypeOK
    BY DEF Inv
  <2>1. CASE UNCHANGED <<status, terminals>>
    BY <2>1
  <2>2. CASE UNCHANGED terminals /\ \E r \in Runs : \E to \in Statuses : Transition(r, to)
    <3>1. PICK r \in Runs : \E to \in Statuses : Transition(r, to)
      BY <2>2
    <3>2. CASE status' = status
      BY <2>2, <3>2
    <3>3. CASE \E s \in Successors(status[r]) : status' = [status EXCEPT ![r] = s]
      <4>1. Contract!Successors(status[r]) = Successors(status[r])
        BY DEF Contract!Successors, Successors
      <4>2. Contract!Move(r)
        BY <2>2, <3>3, <4>1 DEF Contract!Move
      <4> QED BY <4>2 DEF Contract!ContractNext
    <3> QED BY <2>0, <3>1, <3>2, <3>3, TransitionMoves
  <2>3. CASE /\ UNCHANGED status
             /\ \E r \in Runs : \E outcome \in Statuses :
                   status[r] \in Terminal /\ Publish(r, outcome)
    <3>1. PICK r \in Runs : status[r] \in Terminal
                            /\ \E outcome \in Statuses : Publish(r, outcome)
      BY <2>3
    <3>2. {q \in Runs : terminals'[q] # <<>>} = {q \in Runs : terminals[q] # <<>>} \cup {r}
      BY <2>0, <3>1, PublishAnnounces
    <3>3. Contract!Announce(r)
      BY <2>3, <3>1, <3>2 DEF Contract!Announce, Contract!Terminal, Terminal
    <3> QED BY <3>3 DEF Contract!ContractNext
  <2> QED BY <2>1, <2>2, <2>3, StepObserved
<1> QED BY <1>1, <1>2, InvHolds, PTL DEF Spec, ImplementsContract, Contract!ContractSpec

-----------------------------------------------------------------------------
(* The permits.                                                             *)

Holders == {r \in Runs : worker[r] \in HoldsPermit}

\* The runs that hold a permit can be counted.
LEMMA HoldersFinite == IsFiniteSet(Holders) /\ Cardinality(Holders) \in Nat
BY RunsAssumption, FS_Subset, FS_CardinalityType DEF Holders

\* The property, before and after a step, by that count.
LEMMA Counted ==
    ASSUME TypeOK
    PROVE  /\ PermitsConserved <=> device + Cardinality(Holders) = Permits
           /\ PermitsConserved' <=> device' + Cardinality(Holders') = Permits
           /\ device \in Nat /\ Permits \in Nat
BY PermitsAssumption DEF PermitsConserved, Holders, TypeOK

\* A step between workers that all hold a permit, or all hold none.
LEMMA SameHolders ==
    ASSUME TypeOK, PermitsConserved, device' = device, NEW r \in Runs, NEW pc,
           Goto(r, pc), worker[r] \in HoldsPermit <=> pc \in HoldsPermit
    PROVE  PermitsConserved'
<1>1. Holders' = Holders
  BY GotoEffect DEF Holders
<1> QED BY <1>1 DEF PermitsConserved, Holders

\* A permit taken.
LEMMA PermitTaken ==
    ASSUME TypeOK, PermitsConserved, NEW r \in Runs, worker[r] \notin HoldsPermit,
           device > 0, device' = device - 1, Goto(r, "granted")
    PROVE  PermitsConserved'
<1>1. Holders' = Holders \cup {r} /\ r \notin Holders
  BY GotoEffect DEF Holders, HoldsPermit
<1>2. Cardinality(Holders \cup {r}) = Cardinality(Holders) + 1
  BY <1>1, HoldersFinite, FS_AddElement
<1> QED BY <1>1, <1>2, HoldersFinite, Counted

\* A permit given back, to the semaphore or to the head of the line.
LEMMA PermitGiven ==
    ASSUME TypeOK, LineFits, PermitsConserved, NEW r \in Runs, worker[r] \in HoldsPermit,
           worker[r] # "queueing", NEW pc \in {"over", "joined"}, Release(r, pc)
    PROVE  PermitsConserved'
<1> USE DEF HoldsPermit, OnThread, Answering
<1>0. r \in Holders
  BY DEF Holders
<1>1. CASE line = <<>>
  <2>1. device' = device + 1 /\ Goto(r, pc)
    BY <1>1 DEF Release
  <2>2. Holders' = Holders \ {r}
    BY <2>1, GotoEffect DEF Holders
  <2>3. Cardinality(Holders \ {r}) = Cardinality(Holders) - 1
    BY <1>0, HoldersFinite, FS_RemoveElement
  <2> QED BY <2>1, <2>2, <2>3, HoldersFinite, Counted
<1>2. CASE line # <<>>
  <2> DEFINE h == Head(line)
  <2>1. device' = device /\ worker' = [worker EXCEPT ![r] = pc, ![h] = "granted"]
    BY <1>2 DEF Release
  <2>2. h \in Runs /\ worker[h] = "queueing"
    BY <1>2 DEF LineFits, TypeOK
  <2>3. Holders' = (Holders \ {r}) \cup {h} /\ h \notin Holders \ {r}
    BY <2>1, <2>2 DEF Holders, TypeOK
  <2>4. Cardinality(Holders \ {r}) = Cardinality(Holders) - 1 /\ IsFiniteSet(Holders \ {r})
    BY <1>0, HoldersFinite, FS_RemoveElement
  <2>5. Cardinality(Holders') = Cardinality(Holders \ {r}) + 1
    BY <2>3, <2>4, FS_AddElement
  <2> QED BY <2>1, <2>4, <2>5, HoldersFinite, Counted
<1> QED BY <1>1, <1>2

\* No permit of the device is ever lost or duplicated: a run that is withdrawn,
\* fails, stops or finishes gives back the one it took (worker.rs, spawn).
THEOREM PermitsAlwaysConserved == Spec => []PermitsConserved
<1> USE DEF HoldsPermit, OnThread, Answering
<1>1. Init => PermitsConserved
  <2> SUFFICES ASSUME Init PROVE PermitsConserved
    OBVIOUS
  <2>1. Holders = {} /\ device = Permits
    BY DEF Init, Holders
  <2> QED BY <2>1, FS_EmptySet, PermitsAssumption DEF PermitsConserved, Holders
<1>2. Inv /\ PermitsConserved /\ [Next]_vars => PermitsConserved'
  <2> SUFFICES ASSUME Inv, PermitsConserved, [Next]_vars PROVE PermitsConserved'
    OBVIOUS
  <2>0. TypeOK /\ LineFits
    BY DEF Inv
  <2>1. ASSUME NEW r \in Runs, TaskStep(r) PROVE PermitsConserved'
    <3>1. CASE Acquire(r)
      <4>1. worker[r] = "spawned"
            /\ \/ device > 0 /\ device' = device - 1 /\ Goto(r, "granted")
               \/ device' = device /\ Goto(r, "queueing")
        BY <3>1 DEF Acquire
      <4> QED BY <2>0, <4>1, PermitTaken, SameHolders
    <3>2. CASE Withdrawn(r) \/ Join(r)
      <4>1. worker[r] \in {"granted", "exited"} /\ (Release(r, "over") \/ Release(r, "joined"))
        BY <3>2 DEF Withdrawn, Join
      <4> QED BY <2>0, <4>1, PermitGiven
    <3>3. CASE UNCHANGED <<device, worker>>
      BY <3>3 DEF PermitsConserved
    <3>4. CASE device' = device /\ \E pc \in WorkerStates : Goto(r, pc)
               /\ (worker[r] \in HoldsPermit <=> pc \in HoldsPermit)
      BY <2>0, <3>4, SameHolders
    <3>5. \/ Acquire(r) \/ Withdrawn(r) \/ Join(r) \/ UNCHANGED <<device, worker>>
          \/ device' = device /\ \E pc \in WorkerStates : Goto(r, pc)
             /\ (worker[r] \in HoldsPermit <=> pc \in HoldsPermit)
      BY <2>1 DEF TaskStep, Admit, Start, LoopStarts, LoopEnds, Fail, Callback, Drain, Drained,
         Pausing, Park, Wake, Answer, Continue, Stop, Conclude, AnnounceOutcome, Exit,
         WorkerStates, BeforeThread, AfterThread
    <3> QED BY <3>1, <3>2, <3>3, <3>4, <3>5
  <2>2. ASSUME NEW r \in Runs, Create(r) PROVE PermitsConserved'
    BY <2>0, <2>2, SameHolders DEF Create
  <2>3. CASE UNCHANGED <<device, worker>>
    BY <2>3 DEF PermitsConserved
  <2>4. \/ \E r \in Runs : Create(r) \/ TaskStep(r)
        \/ UNCHANGED <<device, worker>>
    BY DEF Next, Request, RequestWithdrawal, Asks, HandlerStep, Send, Mark, TimeOut, Withdraw,
       AnnounceWithdrawal, DrainStarts, DrainStep, DrainCheckpoint, DrainCancel, DrainMark,
       DrainEnds, vars
  <2> QED BY <2>1, <2>2, <2>3, <2>4
<1> QED BY <1>1, <1>2, InvHolds, PTL DEF Spec

\* Permits and line together, for any finite set of runs (worker.rs, spawn).
THEOREM PermitsAndLineHold == Spec => []PermitsAndLine
<1>1. PermitsConserved /\ LineFits => PermitsAndLine
  BY DEF PermitsAndLine
<1> QED BY <1>1, PermitsAlwaysConserved, LineAlwaysFits, PTL

----------------------------------------------------------------------------
(* The commands.                                                            *)

\* An awaiting request, and the question it waits with.
Awaits(c) ==
    client[c].pc = "await" =>
        /\ Receiving(client[c].run)
        /\ \E i \in 1..Len(commands[client[c].run]) : commands[client[c].run][i] = Ask(c)

\* A request whose question is under way, alone at its run.
Attended(c) ==
    client[c].pc = "served" =>
        /\ worker[client[c].run] \in Answering
        /\ \A d \in Clients : client[d] = client[c] => d = c

\* The property, over the requests one by one.
LEMMA AwaitsAll ==
    ASSUME TypeOK
    PROVE  AwaitedAskIsQueued <=> \A c \in Clients : Awaits(c) /\ Attended(c)
<1>1. \A c \in Clients : client[c].pc = "await" =>
          client[c].run \in Runs /\ DOMAIN commands[client[c].run] = 1..Len(commands[client[c].run])
  BY BusyClient DEF TypeOK
<1> QED BY <1>1 DEF AwaitedAskIsQueued, Awaits, Attended

\* Where a request waits when it is neither answered nor its run's turn.
LEMMA AwaitsKept ==
    ASSUME TypeOK, NEW c \in Clients, Awaits(c),
           client'[c] \in {client[c], Idle} \/ client'[c].pc = "served",
           client'[c].pc = "await" =>
              \E q \in Runs : /\ client[c].run = q /\ commands'[q] = commands[q]
                              /\ Receiving(q) => Receiving(q)'
    PROVE  Awaits(c)'
<1>1. CASE client'[c] = Idle
  BY <1>1 DEF Awaits, Idle
<1>2. CASE client'[c] = client[c]
  <2>1. CASE client'[c].pc = "await"
    <3>1. PICK q \in Runs : /\ client[c].run = q /\ commands'[q] = commands[q]
                            /\ Receiving(q) => Receiving(q)'
      BY <2>1
    <3>2. /\ client[c].pc = "await" /\ Receiving(q)
          /\ \E i \in 1..Len(commands[q]) : commands[q][i] = Ask(c)
      BY <1>2, <2>1, <3>1 DEF Awaits
    <3>3. Receiving(q)' /\ \E i \in 1..Len(commands'[q]) : commands'[q][i] = Ask(c)
      BY <3>1, <3>2
    <3>4. client'[c].run = q
      BY <1>2, <3>1
    <3> QED BY <3>3, <3>4 DEF Awaits, Receiving
  <2>2. CASE client'[c].pc # "await"
    BY <2>2 DEF Awaits
  <2> QED BY <2>1, <2>2
<1>3. CASE client'[c].pc = "served"
  BY <1>3 DEF Awaits
<1> QED BY <1>1, <1>2, <1>3

\* Serving the head of a channel answers it, and keeps what is behind it.
LEMMA AwaitsServed ==
    ASSUME TypeOK, NEW r \in Runs, NEW c \in Clients, Awaits(c), commands[r] # <<>>, Serve(r),
           \A q \in Runs : Receiving(q) => Receiving(q)'
    PROVE  Awaits(c)'
<1>1. client'[c] \in {client[c], Idle} \/ client'[c].pc = "served"
  BY ClientsFreed DEF Served
<1>2. CASE client[c].pc = "await" /\ client[c].run = r /\ client'[c] = client[c]
  <2> DEFINE q == commands[r]
  <2>1. /\ q \in Seq(Commands) /\ Len(q) \in Nat \ {0} /\ Head(q) = q[1] /\ Head(q) \in Commands
        /\ commands'[r] = Tail(q)
    BY DEF Serve, TypeOK
  <2>2. PICK i \in 1..Len(q) : q[i] = Ask(c)
    BY <1>2 DEF Awaits
  <2>3. Head(q) # Ask(c)
    <3>1. ASSUME Head(q) = Ask(c) PROVE FALSE
      <4>0. Head(commands[r]).kind = "ask" /\ Head(commands[r]).from = c
        BY <3>1 DEF Ask
      <4>1. client' = [client EXCEPT ![c] = [pc |-> "served", run |-> r]]
        BY <4>0 DEF Serve
      <4>2. client'[c].pc = "served"
        BY <4>1 DEF TypeOK
      <4> QED BY <1>2, <4>2
    <3> QED BY <3>1
  <2>4. i - 1 \in 1..Len(Tail(q)) /\ Tail(q)[i - 1] = q[i]
    BY <2>1, <2>2, <2>3
  <2> QED BY <1>2, <2>1, <2>2, <2>4 DEF Awaits
<1>3. CASE client[c].pc = "await" => client[c].run # r
  <2>1. client'[c].pc = "await" => client[c].run \in Runs \ {r}
    BY <1>1, <1>3, BusyClient DEF TypeOK, Idle
  <2>2. \A q \in Runs \ {r} : commands'[q] = commands[q]
    BY DEF Serve, TypeOK
  <2> QED BY <1>1, <2>1, <2>2, AwaitsKept
<1>4. CASE client'[c] = Idle \/ client'[c].pc = "served"
  BY <1>4 DEF Awaits, Idle
<1> QED BY <1>1, <1>2, <1>3, <1>4

\* Dropping the queue answers everybody who waits in it.
LEMMA AwaitsDropped ==
    ASSUME TypeOK, NEW r \in Runs, NEW c \in Clients, Awaits(c), DropQueue(r),
           \A q \in Runs \ {r} : Receiving(q) => Receiving(q)'
    PROVE  Awaits(c)'
<1>1. client'[c] \in {client[c], Idle}
  BY DEF DropQueue, Replied
<1>2. client'[c].pc = "await" => client[c].run \in Runs \ {r}
  BY <1>1, BusyClient DEF DropQueue, Replied, TypeOK, Idle
<1>3. \A q \in Runs \ {r} : commands'[q] = commands[q]
  BY DEF DropQueue, TypeOK
<1> QED BY <1>1, <1>2, <1>3, AwaitsKept

\* The task of r stops reading its channel only as it drops it, and never that
\* of another run.
LEMMA TaskReceives ==
    ASSUME Inv, NEW r \in Runs, TaskStep(r)
    PROVE  /\ \A q \in Runs \ {r} : Receiving(q) => Receiving(q)'
           /\ (Receiving(r) => Receiving(r)') \/ DropQueue(r)
<1>0. TypeOK /\ LineFits
  BY DEF Inv
<1>1. \A q \in Runs \ {r} : Receiving(q) => Receiving(q)'
  BY TaskFits DEF Bystanders, Receiving
<1>2. CASE UNCHANGED worker
  BY <1>1, <1>2 DEF Receiving
<1>3. CASE \E pc \in BeforeThread \cup OnThread : Goto(r, pc) /\ pc # "unborn"
  BY <1>0, <1>1, <1>3, GotoEffect DEF Receiving, BeforeThread
<1>4. CASE worker[r] \notin BeforeThread \cup OnThread
  BY <1>1, <1>4 DEF Receiving, BeforeThread
<1>5. \/ DropQueue(r) \/ UNCHANGED worker
      \/ \E pc \in BeforeThread \cup OnThread : Goto(r, pc) /\ pc # "unborn"
      \/ worker[r] \notin BeforeThread \cup OnThread
  BY DEF TaskStep, Acquire, Withdrawn, Admit, Start, LoopStarts, LoopEnds, Fail, Callback, Drain,
     Drained, Pausing, Park, Wake, Answer, Continue, Stop, Join, Conclude, AnnounceOutcome, Exit,
     BeforeThread, OnThread, Answering
<1> QED BY <1>1, <1>2, <1>3, <1>4, <1>5

\* A step of a run's task loses no question.
LEMMA AwaitsTaskStep ==
    ASSUME Inv, NEW r \in Runs, TaskStep(r), NEW c \in Clients, Awaits(c)
    PROVE  Awaits(c)'
<1>0. TypeOK
  BY DEF Inv
<1>1. CASE DropQueue(r)
  BY <1>0, <1>1, AwaitsDropped, TaskReceives
<1>2. CASE ~DropQueue(r) /\ (Drain(r) \/ Wake(r))
  <2>1. commands[r] # <<>> /\ Serve(r)
    BY <1>2 DEF Drain, Wake
  <2> QED BY <1>0, <1>2, <2>1, AwaitsServed, TaskReceives
<1>3. CASE ~DropQueue(r) /\ UNCHANGED <<commands, client>>
  <2>1. client[c].pc = "await" => client[c].run \in Runs
    BY <1>0, BusyClient DEF TypeOK
  <2> QED BY <1>0, <1>3, <2>1, AwaitsKept, TaskReceives
<1>4. CASE ~DropQueue(r) /\ Answer(r)
  <2>1. client[c].pc = "await" => client[c].run \in Runs
    BY <1>0, BusyClient DEF TypeOK
  <2>2. client'[c] \in {client[c], Idle} /\ UNCHANGED commands
    BY <1>4 DEF Answer, Replied
  <2>3. client'[c].pc = "await" => client[c].pc = "await"
    BY <2>2 DEF Idle
  <2> QED BY <1>0, <1>4, <2>1, <2>2, <2>3, AwaitsKept, TaskReceives
<1>5. DropQueue(r) \/ Drain(r) \/ Wake(r) \/ Answer(r) \/ UNCHANGED <<commands, client>>
  BY DEF TaskStep, Acquire, Withdrawn, Admit, Start, LoopStarts, LoopEnds, Fail, Callback,
     Drained, Pausing, Park, Continue, Stop, Join, Conclude, AnnounceOutcome, Exit
<1> QED BY <1>1, <1>2, <1>3, <1>4, <1>5

\* A step that serves nobody leaves who is served alone, if the thread stays at it.
LEMMA AttendedKept ==
    ASSUME \A c \in Clients : Attended(c),
           \A c \in Clients : client'[c].pc = "served" =>
              client'[c] = client[c] /\ worker'[client[c].run] \in Answering
    PROVE  \A c \in Clients : Attended(c)'
<1> SUFFICES ASSUME NEW c \in Clients, client'[c].pc = "served"
             PROVE  /\ worker'[client'[c].run] \in Answering
                    /\ \A d \in Clients : client'[d] = client'[c] => d = c
  BY DEF Attended
<1>1. client'[c] = client[c] /\ worker'[client[c].run] \in Answering
  OBVIOUS
<1>2. ASSUME NEW d \in Clients, client'[d] = client'[c] PROVE d = c
  <2>1. client'[d] = client[d]
    BY <1>2
  <2> QED BY <1>1, <1>2, <2>1 DEF Attended
<1> QED BY <1>1, <1>2

\* A step of a run's task serves one request at a time, and gets to no other
\* before that one is answered or gone.
LEMMA AttendedTaskStep ==
    ASSUME Inv, NEW r \in Runs, TaskStep(r), \A c \in Clients : Attended(c)
    PROVE  \A c \in Clients : Attended(c)'
<1>0. TypeOK
  BY DEF Inv
<1>1. ASSUME NEW q \in Runs \ {r}, worker[q] \in Answering PROVE worker'[q] \in Answering
  BY <1>1, TaskFits DEF Bystanders, Answering
<1>2. \A c \in Clients : client[c].pc = "served" =>
          client[c].run \in Runs /\ worker[client[c].run] \in Answering
  BY <1>0, BusyClient DEF TypeOK, Attended
<1>3. CASE DropQueue(r) \/ Answer(r)
  <2> SUFFICES ASSUME NEW c \in Clients, client'[c].pc = "served"
               PROVE  client'[c] = client[c] /\ worker'[client[c].run] \in Answering
    BY AttendedKept
  <2>1. client'[c] = client[c] /\ client[c].run # r
    BY <1>3 DEF DropQueue, Answer, Replied, Idle
  <2> QED BY <1>1, <1>2, <2>1
<1>4. CASE worker[r] \notin Answering /\ UNCHANGED client
  <2> SUFFICES ASSUME NEW c \in Clients, client'[c].pc = "served"
               PROVE  client'[c] = client[c] /\ worker'[client[c].run] \in Answering
    BY AttendedKept
  <2>1. client'[c] = client[c] /\ client[c].run # r
    BY <1>2, <1>4
  <2> QED BY <1>1, <1>2, <2>1
<1>5. CASE (Drain(r) \/ Wake(r)) /\ Head(commands[r]).kind = "ask"
  <2>01. /\ worker[r] \notin Answering /\ commands[r] # <<>>
         /\ client' = [client EXCEPT ![Head(commands[r]).from] = Served(r)]
    BY <1>5 DEF Drain, Wake, Serve, Served, Answering
  <2>02. Head(commands[r]) \in Commands
    BY <1>0, <2>01 DEF TypeOK
  <2>03. PICK f \in Clients : f = Head(commands[r]).from
    BY <1>5, <2>02 DEF Commands
  <2>1. worker[r] \notin Answering /\ client' = [client EXCEPT ![f] = Served(r)]
    BY <2>01, <2>03
  <2>2. worker'[r] \in Answering
    <3>1. \E pc \in Answering : Goto(r, pc)
      BY <1>5 DEF Drain, Wake, IsQuestion, Answering
    <3> QED BY <1>0, <3>1, GotoEffect
  <2>3. /\ client'[f] = Served(r)
        /\ \A c \in Clients \ {f} : client'[c] = client[c]
    BY <1>0, <2>1 DEF TypeOK
  <2>4. \A c \in Clients : client[c] # Served(r)
    BY <1>2, <2>1 DEF Served
  <2>5. ASSUME NEW c \in Clients \ {f} PROVE Attended(c)'
    <3> SUFFICES ASSUME client[c].pc = "served"
                 PROVE  /\ worker'[client[c].run] \in Answering
                        /\ \A d \in Clients : client'[d] = client[c] => d = c
      BY <2>3 DEF Attended
    <3>1. client[c].run \in Runs \ {r} /\ worker[client[c].run] \in Answering
      BY <1>2, <2>1
    <3>2. ASSUME NEW d \in Clients, client'[d] = client[c] PROVE d = c
      BY <2>3, <2>4, <3>2 DEF Attended
    <3> QED BY <1>1, <3>1, <3>2
  <2>6. Attended(f)'
    <3>1. client'[f].run = r
      BY <2>3 DEF Served
    <3>2. \A d \in Clients : client'[d] = client'[f] => d = f
      BY <2>3, <2>4
    <3> QED BY <2>2, <3>1, <3>2 DEF Attended
  <2> QED BY <2>5, <2>6
<1>6. CASE (Drain(r) \/ Wake(r)) /\ Head(commands[r]).kind # "ask"
  <2>1. worker[r] \notin Answering /\ UNCHANGED client
    BY <1>6 DEF Drain, Wake, Serve, Answering
  <2> QED BY <1>4, <2>1
<1>7. \/ DropQueue(r) \/ Answer(r) \/ Drain(r) \/ Wake(r)
      \/ worker[r] \notin Answering /\ UNCHANGED client
  BY DEF TaskStep, Acquire, Withdrawn, Admit, Start, LoopStarts, LoopEnds, Fail, Callback,
     Drained, Pausing, Park, Continue, Stop, Join, Conclude, AnnounceOutcome, Exit, Answering
<1> QED BY <1>3, <1>4, <1>5, <1>6, <1>7

\* Queueing a command behind the others.
LEMMA AwaitsEnqueued ==
    ASSUME TypeOK, NEW r \in Runs, NEW command \in Commands, Enqueue(r, command),
           UNCHANGED worker, NEW c \in Clients, Awaits(c), client'[c] = client[c]
    PROVE  Awaits(c)'
<1>1. CASE client[c].pc = "await" /\ client[c].run = r
  <2>1. commands[r] \in Seq(Commands) /\ commands'[r] = Append(commands[r], command)
    BY DEF Enqueue, TypeOK
  <2>2. PICK i \in 1..Len(commands[r]) : commands[r][i] = Ask(c)
    BY <1>1 DEF Awaits
  <2>3. i \in 1..Len(commands'[r]) /\ commands'[r][i] = Ask(c)
    BY <2>1, <2>2
  <2> QED BY <1>1, <2>3 DEF Awaits, Receiving
<1>2. CASE client[c].pc = "await" => client[c].run # r
  <2>1. client[c].pc = "await" => client[c].run \in Runs \ {r}
    BY <1>2, BusyClient DEF TypeOK
  <2>2. \A q \in Runs \ {r} : commands'[q] = commands[q]
    BY DEF Enqueue, TypeOK
  <2> QED BY <2>1, <2>2, AwaitsKept DEF Receiving
<1> QED BY <1>1, <1>2

\* An ask on its way carries the reply channel of the handler that sends it.
OwnAsk(c) ==
    client[c].pc = "send" /\ client[c].command.kind = "ask" => client[c].command = Ask(c)

\* A request freed, moved on or left alone still owns its ask.
LEMMA OwnAskKept ==
    ASSUME NEW c \in Clients, OwnAsk(c), client'[c].pc = "send" => client'[c] = client[c]
    PROVE  OwnAsk(c)'
BY DEF OwnAsk

\* So does a handler's step, on its own request and on the others.
LEMMA AwaitsHandlerStep ==
    ASSUME TypeOK, NEW d \in Clients, HandlerStep(d), NEW c \in Clients, Awaits(c), OwnAsk(c)
    PROVE  Awaits(c)' /\ OwnAsk(c)'
<1>0. client[c].pc = "await" => client[c].run \in Runs
  BY BusyClient DEF TypeOK
<1>1. CASE Send(d)
  <2> DEFINE r == client[d].run
             command == client[d].command
  <2>1. client[d] \in [pc : {"send", "mark", "await"}, run : Runs, command : Commands]
        /\ client[d].pc = "send"
    BY <1>1, BusyClient DEF Send, TypeOK
  <2>2. CASE c # d
    <3>1. client'[c] = client[c]
      BY <1>1, <2>2 DEF Send, TypeOK
    <3>2. CASE Receiving(r) /\ Room(r)
      <4>1. Enqueue(r, command) /\ UNCHANGED worker
        BY <1>1, <3>2 DEF Send
      <4> QED BY <2>1, <3>1, <4>1, AwaitsEnqueued, OwnAskKept
    <3>3. CASE ~(Receiving(r) /\ Room(r))
      <4>1. UNCHANGED <<worker, commands>>
        BY <1>1, <3>3 DEF Send
      <4> QED BY <1>0, <3>1, <4>1, AwaitsKept, OwnAskKept DEF Receiving
    <3> QED BY <3>2, <3>3
  <2>3. CASE c = d /\ Receiving(r) /\ Room(r) /\ command.kind = "ask"
    <3>1. command = Ask(c)
      BY <2>1, <2>3 DEF OwnAsk
    <3>2. /\ client'[c] = [client[c] EXCEPT !.pc = "await"] /\ Enqueue(r, command)
          /\ UNCHANGED worker
      BY <1>1, <2>3 DEF Send, TypeOK
    <3>3. client'[c].pc = "await" /\ client'[c].run = r /\ r \in Runs
      BY <2>1, <2>3, <3>2
    <3>4. commands[r] \in Seq(Commands) /\ commands'[r] = Append(commands[r], command)
      BY <3>2, <3>3 DEF Enqueue, TypeOK
    <3>5. Len(commands'[r]) \in 1..Len(commands'[r]) /\ commands'[r][Len(commands'[r])] = command
      BY <2>1, <3>4
    <3> QED BY <2>3, <3>1, <3>2, <3>3, <3>5 DEF Awaits, OwnAsk, Receiving
  <2>4. CASE c = d /\ ~(Receiving(r) /\ Room(r) /\ command.kind = "ask")
    <3>1. client'[c] = [client[c] EXCEPT !.pc = "mark"] \/ client'[c] = Idle
      BY <1>1, <2>4 DEF Send, TypeOK
    <3> QED BY <2>1, <2>4, <3>1 DEF Awaits, OwnAsk, Idle
  <2> QED BY <2>2, <2>3, <2>4
<1>2. CASE TimeOut(d)
  <2>1. CASE c = d
    BY <1>2, <2>1 DEF TimeOut, Awaits, OwnAsk, Idle, TypeOK
  <2>2. CASE c # d /\ client[c].pc = "await"
    <3> DEFINE old == commands[client[d].run]
    <3>1. client[d].run \in Runs
      BY <1>2, BusyClient DEF TimeOut, TypeOK
    <3>2. /\ client'[c] = client[c] /\ UNCHANGED worker
          /\ commands'[client[d].run] =
                [i \in DOMAIN old |-> IF old[i] = Ask(d) THEN Plain("abandoned") ELSE old[i]]
          /\ \A q \in Runs \ {client[d].run} : commands'[q] = commands[q]
      BY <1>2, <2>2, <3>1 DEF TimeOut, TypeOK
    <3>3. CASE client[c].run = client[d].run
      <4>1. PICK i \in 1..Len(old) : old[i] = Ask(c)
        BY <2>2, <3>3 DEF Awaits
      <4>2. old \in Seq(Commands) /\ DOMAIN old = 1..Len(old) /\ Len(old) \in Nat
        BY <3>1 DEF TypeOK
      <4>3. Ask(c) # Ask(d)
        BY <2>2 DEF Ask
      <4>4. Len(commands'[client[d].run]) = Len(old) /\ commands'[client[d].run][i] = Ask(c)
        BY <3>2, <4>1, <4>2, <4>3
      <4> QED BY <2>2, <3>2, <3>3, <4>1, <4>4, OwnAskKept DEF Awaits, Receiving
    <3>4. CASE client[c].run # client[d].run
      BY <1>0, <2>2, <3>2, <3>4, AwaitsKept, OwnAskKept DEF Receiving
    <3> QED BY <3>3, <3>4
  <2>3. CASE c # d /\ client[c].pc # "await"
    <3>1. client'[c] = client[c]
      BY <1>2, <2>3 DEF TimeOut, TypeOK
    <3> QED BY <2>3, <3>1, OwnAskKept DEF Awaits
  <2> QED BY <2>1, <2>2, <2>3
<1>3. CASE Mark(d) \/ Withdraw(d) \/ AnnounceWithdrawal(d)
  <2>1. UNCHANGED <<commands, worker>>
        /\ \/ client'[c] \in {client[c], Idle}
           \/ c = d /\ client[c].pc = "withdraw" /\ client'[c] = [client[c] EXCEPT !.pc = "announce"]
    BY <1>3 DEF Mark, Withdraw, AnnounceWithdrawal, TypeOK
  <2>2. CASE client'[c] \in {client[c], Idle}
    BY <1>0, <2>1, <2>2, AwaitsKept, OwnAskKept DEF Receiving, Idle
  <2>3. CASE client[c].pc = "withdraw" /\ client'[c] = [client[c] EXCEPT !.pc = "announce"]
    <3>1. client'[c].pc = "announce"
      BY <2>3, BusyClient DEF TypeOK
    <3> QED BY <3>1 DEF Awaits, OwnAsk
  <2> QED BY <2>1, <2>2, <2>3
<1> QED BY <1>1, <1>2, <1>3 DEF HandlerStep

\* No question is lost: who waits for an answer waits in the queue of a run
\* that still reads it, or is being answered, alone (control.rs, inference.rs).
THEOREM AwaitedAsksAreQueued == Spec => []AwaitedAskIsQueued
<1> DEFINE Asked == \A c \in Clients : Awaits(c) /\ OwnAsk(c)
<1>1. Init => Asked
  BY DEF Init, Idle, Awaits, OwnAsk
<1>2. Inv /\ Asked /\ [Next]_vars => Asked'
  <2> SUFFICES ASSUME Inv, Asked, [Next]_vars, NEW c \in Clients
               PROVE  Awaits(c)' /\ OwnAsk(c)'
    OBVIOUS
  <2>0. TypeOK /\ Awaits(c) /\ OwnAsk(c)
    BY DEF Inv
  <2>1. client[c].pc = "await" => client[c].run \in Runs
    BY <2>0, BusyClient DEF TypeOK
  <2>2. CASE \E r \in Runs : TaskStep(r)
    BY <2>0, <2>2, AwaitsTaskStep, TaskFrees, OwnAskKept DEF Idle, Served
  <2>3. CASE \E d \in Clients : HandlerStep(d)
    BY <2>0, <2>3, AwaitsHandlerStep
  <2>4. ASSUME NEW d \in Clients, NEW r \in Runs, NEW route \in Offers,
               Request(d, r, route) \/ RequestWithdrawal(d, r, route)
        PROVE  Awaits(c)' /\ OwnAsk(c)'
    <3>1. UNCHANGED <<worker, commands>>
      BY <2>4 DEF Request, RequestWithdrawal, Asks
    <3>2. CASE c # d
      <4>1. client'[c] = client[c]
        BY <2>0, <2>4, <3>2 DEF Request, RequestWithdrawal, TypeOK
      <4> QED BY <2>0, <2>1, <3>1, <4>1, AwaitsKept, OwnAskKept DEF Receiving
    <3>3. CASE c = d
      <4>1. \/ client'[c] = [pc |-> "send", run |-> r, command |-> CommandOf(c, route)]
            \/ client'[c] = [pc |-> "withdraw", run |-> r]
        BY <2>0, <2>4, <3>3 DEF Request, RequestWithdrawal, TypeOK
      <4>2. CommandOf(c, route).kind = "ask" => CommandOf(c, route) = Ask(c)
        BY OffersAssumption DEF CommandOf, CancelCommand, Plain, Ask, Routes
      <4> QED BY <4>1, <4>2 DEF Awaits, OwnAsk
    <3> QED BY <3>2, <3>3
  <2>5. ASSUME NEW r \in Runs, NEW command \in Commands, SendWaiting(r, command),
               UNCHANGED <<worker, client>>
        PROVE  Awaits(c)' /\ OwnAsk(c)'
    <3>1. CASE Receiving(r)
      <4>1. Enqueue(r, command)
        BY <2>5, <3>1 DEF SendWaiting
      <4> QED BY <2>0, <2>5, <4>1, AwaitsEnqueued, OwnAskKept
    <3>2. CASE ~Receiving(r)
      BY <2>0, <2>1, <2>5, <3>2, AwaitsKept, OwnAskKept DEF SendWaiting, Receiving
    <3> QED BY <3>1, <3>2
  <2>6. CASE DrainStep
    <3>1. ASSUME NEW r \in Runs, DrainCheckpoint(r) PROVE Awaits(c)' /\ OwnAsk(c)'
      <4>1. Plain("checkpoint") \in Commands
        BY DEF Plain, Commands
      <4> QED BY <2>5, <3>1, <4>1 DEF DrainCheckpoint
    <3>2. CASE DrainCancel
      <4>1. CancelCommand("boundary", TRUE) \in Commands /\ drain.run \in Runs
        BY <2>0, <3>2 DEF CancelCommand, Commands, CancelAts, DrainCancel, TypeOK, DrainStates
      <4> QED BY <2>5, <3>2, <4>1 DEF DrainCancel
    <3>3. CASE DrainMark \/ DrainEnds
      BY <2>0, <2>1, <3>3, AwaitsKept, OwnAskKept DEF DrainMark, DrainEnds, Receiving
    <3> QED BY <2>6, <3>1, <3>2, <3>3 DEF DrainStep
  <2>7. ASSUME NEW r \in Runs, Create(r) PROVE Awaits(c)' /\ OwnAsk(c)'
    <3>1. UNCHANGED <<commands, client>> /\ \A q \in Runs : Receiving(q) => Receiving(q)'
      BY <2>0, <2>7 DEF Create, Goto, Receiving, TypeOK
    <3> QED BY <2>0, <2>1, <3>1, AwaitsKept, OwnAskKept
  <2>8. CASE DrainStarts \/ UNCHANGED vars
    BY <2>0, <2>1, <2>8, AwaitsKept, OwnAskKept DEF DrainStarts, vars, Receiving
  <2> QED BY <2>2, <2>3, <2>4, <2>6, <2>7, <2>8 DEF Next
<1> DEFINE AllAttended == \A c \in Clients : Attended(c)
<1>3. Init => AllAttended
  BY DEF Init, Idle, Attended
<1>4. Inv /\ AllAttended /\ [Next]_vars => AllAttended'
  <2> SUFFICES ASSUME Inv, AllAttended, [Next]_vars PROVE AllAttended'
    OBVIOUS
  <2>0. TypeOK
    BY DEF Inv
  <2>1. CASE \E r \in Runs : TaskStep(r)
    BY <2>1, AttendedTaskStep
  <2>2. ASSUME NEW c \in Clients, client'[c].pc = "served",
               \A r \in Runs : ~TaskStep(r)
        PROVE  client'[c] = client[c]
    <3>1. CASE UNCHANGED client
      BY <3>1
    <3>2. ASSUME NEW d \in Clients, HandlerStep(d) PROVE client'[c] = client[c]
      <4>1. CASE Withdraw(d)
        <5>1. client[d] \in [pc : {"withdraw", "announce", "served"}, run : Runs]
          BY <2>0, <4>1, BusyClient DEF Withdraw, TypeOK
        <5> QED BY <2>0, <2>2, <4>1, <5>1 DEF Withdraw, TypeOK
      <4>2. CASE Send(d)
        <5>1. client[d] \in [pc : {"send", "mark", "await"}, run : Runs, command : Commands]
          BY <2>0, <4>2, BusyClient DEF Send, TypeOK
        <5> QED BY <2>0, <2>2, <4>2, <5>1 DEF Send, TypeOK, Idle
      <4>3. CASE Mark(d) \/ TimeOut(d) \/ AnnounceWithdrawal(d)
        BY <2>0, <2>2, <4>3 DEF Mark, TimeOut, AnnounceWithdrawal, TypeOK, Idle
      <4> QED BY <3>2, <4>1, <4>2, <4>3 DEF HandlerStep
    <3>3. ASSUME NEW d \in Clients, NEW r \in Runs, NEW route \in Offers,
                 Request(d, r, route) \/ RequestWithdrawal(d, r, route)
          PROVE  client'[c] = client[c]
      BY <2>0, <2>2, <3>3 DEF Request, RequestWithdrawal, TypeOK
    <3>4. CASE (\E r \in Runs : Create(r)) \/ DrainStarts \/ DrainStep \/ UNCHANGED vars
      BY <3>4 DEF Create, DrainStarts, DrainStep, DrainCheckpoint, DrainCancel, DrainMark,
         DrainEnds, vars
    <3> QED BY <2>2, <3>1, <3>2, <3>3, <3>4 DEF Next
  <2>3. ASSUME NEW r \in Runs, worker[r] \in Answering, \A q \in Runs : ~TaskStep(q)
        PROVE  worker'[r] \in Answering
    <3>1. ASSUME NEW q \in Runs, Create(q) PROVE worker'[r] = worker[r]
      BY <2>0, <2>3, <3>1, GotoEffect DEF Create, Answering
    <3>2. (\E q \in Runs : Create(q)) \/ UNCHANGED worker
      BY <2>3 DEF Next, Request, RequestWithdrawal, Asks, HandlerStep, Send, Mark, TimeOut,
         Withdraw, AnnounceWithdrawal, DrainStarts, DrainStep, DrainCheckpoint, DrainCancel,
         DrainMark, DrainEnds, vars
    <3> QED BY <2>3, <3>1, <3>2
  <2>4. CASE \A r \in Runs : ~TaskStep(r)
    <3>1. ASSUME NEW c \in Clients, client'[c].pc = "served"
          PROVE  client'[c] = client[c] /\ worker'[client[c].run] \in Answering
      <4>1. client'[c] = client[c]
        BY <2>2, <2>4, <3>1
      <4>2. client[c].run \in Runs /\ worker[client[c].run] \in Answering
        BY <2>0, <3>1, <4>1, BusyClient DEF TypeOK, Attended
      <4> QED BY <2>3, <2>4, <4>1, <4>2
    <3> QED BY <3>1, AttendedKept
  <2> QED BY <2>1, <2>4
<1>5. Inv /\ Asked /\ AllAttended => AwaitedAskIsQueued
  BY AwaitsAll DEF Inv
<1> QED BY <1>1, <1>2, <1>3, <1>4, <1>5, InvHolds, PTL DEF Spec

----------------------------------------------------------------------------
(* The pending cancellation.                                                *)

\* Merging keeps `now` and a requested checkpoint.
LEMMA MergedKeeps ==
    ASSUME NEW old \in Cancels \ {NoCancel}, NEW new \in Cancels \ {NoCancel}
    PROVE  /\ Merged(old, new) # NoCancel
           /\ old.at = "now" => Merged(old, new).at = "now"
           /\ old.checkpoint => Merged(old, new).checkpoint
BY DEF Merged, Cancels, NoCancel, CancelAts

\* Whoever moves the control of a run does one of three things to it.
LEMMA ThreadSteps ==
    ASSUME TypeOK, [Next]_vars, NEW r \in Runs
    PROVE  \/ thread'[r] = thread[r]
           \/ thread'[r] = [thread[r] EXCEPT !.boundary = ~@]
           \/ thread'[r] = AfterCallback(thread[r])
           \/ \E command \in Commands : thread'[r] = Applied(thread[r], command)
<1>1. ASSUME NEW q \in Runs, TaskStep(q)
      PROVE  \/ thread'[r] = thread[r]
             \/ thread'[r] = [thread[r] EXCEPT !.boundary = ~@]
             \/ thread'[r] = AfterCallback(thread[r])
             \/ \E command \in Commands : thread'[r] = Applied(thread[r], command)
  <2>1. CASE Callback(q)
    BY <2>1 DEF Callback, TypeOK
  <2>2. CASE Continue(q) \/ Stop(q)
    BY <2>2 DEF Continue, Stop, TypeOK
  <2>3. CASE Drain(q) \/ Wake(q)
    <3>1. /\ commands[q] \in Seq(Commands) /\ commands[q] # <<>>
          /\ thread' = [thread EXCEPT ![q] = Applied(@, Head(commands[q]))]
      BY <2>3 DEF Drain, Wake, Serve, TypeOK
    <3>2. Head(commands[q]) \in Commands
      BY <3>1
    <3> QED BY <3>1, <3>2 DEF TypeOK
  <2>4. CASE UNCHANGED thread
    BY <2>4
  <2>5. \/ Callback(q) \/ Continue(q) \/ Stop(q) \/ Drain(q) \/ Wake(q) \/ UNCHANGED thread
    BY <1>1 DEF TaskStep, Acquire, Withdrawn, Admit, Start, LoopStarts, LoopEnds, Fail, Drained,
       Pausing, Park, Answer, Join, Conclude, AnnounceOutcome
  <2> QED BY <2>1, <2>2, <2>3, <2>4, <2>5
<1>2. (\E q \in Runs : TaskStep(q)) \/ UNCHANGED thread
  BY DEF Next, Create, Request, RequestWithdrawal, Asks, HandlerStep, Send, Mark, TimeOut,
     Withdraw, AnnounceWithdrawal, DrainStarts, DrainStep, DrainCheckpoint, DrainCancel,
     DrainMark, DrainEnds, vars
<1> QED BY <1>1, <1>2

\* Applying a command weakens no cancellation.
LEMMA AppliedKeeps ==
    ASSUME NEW t \in ThreadStates, NEW command \in Commands, t.cancel # NoCancel
    PROVE  /\ Applied(t, command).cancel # NoCancel
           /\ t.cancel.at = "now" => Applied(t, command).cancel.at = "now"
           /\ t.cancel.checkpoint => Applied(t, command).cancel.checkpoint
<1>1. CASE command.kind = "cancel"
  <2>1. command.cancel \in Cancels \ {NoCancel} /\ t.cancel \in Cancels \ {NoCancel}
    BY <1>1 DEF Commands, ThreadStates, Cancels, NoCancel, CancelAts
  <2>2. Applied(t, command).cancel = Merged(t.cancel, command.cancel)
    BY <1>1 DEF Applied, ThreadStates
  <2> QED BY <2>1, <2>2, MergedKeeps
<1>2. CASE command.kind # "cancel"
  BY <1>2 DEF Applied, ThreadStates
<1> QED BY <1>1, <1>2

\* A cancellation once applied is never weakened (control.rs, apply).
THEOREM CancelsAreNeverWeakened == Spec => CancelNeverWeakened
<1>1. TypeOK /\ [Next]_vars =>
        [\A r \in Runs :
          thread[r].cancel # NoCancel =>
              /\ thread'[r].cancel # NoCancel
              /\ thread[r].cancel.at = "now" => thread'[r].cancel.at = "now"
              /\ thread[r].cancel.checkpoint => thread'[r].cancel.checkpoint]_vars
  <2> SUFFICES ASSUME TypeOK, [Next]_vars, NEW r \in Runs, thread[r].cancel # NoCancel
               PROVE  /\ thread'[r].cancel # NoCancel
                      /\ thread[r].cancel.at = "now" => thread'[r].cancel.at = "now"
                      /\ thread[r].cancel.checkpoint => thread'[r].cancel.checkpoint
    OBVIOUS
  <2>1. thread[r] \in ThreadStates
    BY DEF TypeOK
  <2>2. CASE \/ thread'[r] = thread[r]
             \/ thread'[r] = [thread[r] EXCEPT !.boundary = ~@]
             \/ thread'[r] = AfterCallback(thread[r])
    BY <2>1, <2>2 DEF ThreadStates, AfterCallback
  <2>3. CASE \E command \in Commands : thread'[r] = Applied(thread[r], command)
    BY <2>1, <2>3, AppliedKeeps
  <2> QED BY <2>2, <2>3, ThreadSteps
<1> QED BY <1>1, TypeCorrect, PTL DEF Spec, CancelNeverWeakened

\* What a thread has decided: nothing before its loop; nothing to stop for when
\* it trains; the checkpoint it was asked for once it is over.
Decided(r) ==
    /\ worker[r] \in BeforeThread \cup {"loading"} => thread[r].cancel = NoCancel
    /\ worker[r] = "training" => ~Stops(thread[r])
    /\ worker[r] \in AfterThread =>
          \/ failed[r] \/ thread[r].saved
          \/ thread[r].cancel # [at |-> "boundary", checkpoint |-> TRUE]

\* Who does not move keeps what it decided; so does a run that gets its permit.
LEMMA DecidedKept ==
    ASSUME NEW r \in Runs, Decided(r), thread'[r] = thread[r], failed'[r] = failed[r],
           \/ worker'[r] = worker[r]
           \/ worker[r] \in BeforeThread /\ worker'[r] \in BeforeThread
    PROVE  Decided(r)'
BY DEF Decided, BeforeThread, AfterThread, Stops

\* After its own step a thread has decided what it should.
LEMMA DecidedTaskStep ==
    ASSUME Inv, NEW r \in Runs, TaskStep(r), Decided(r)
    PROVE  Decided(r)'
<1>0. TypeOK /\ LineFits /\ thread[r] \in ThreadStates
  BY DEF Inv, TypeOK
<1> USE DEF BeforeThread, AfterThread
<1>1. CASE Acquire(r) \/ Admit(r)
  <2>1. /\ UNCHANGED <<thread, failed>> /\ worker[r] \in BeforeThread
        /\ Goto(r, "granted") \/ Goto(r, "queueing") \/ Goto(r, "admitted")
    BY <1>1 DEF Acquire, Admit
  <2>2. worker'[r] \in BeforeThread
    BY <1>0, <2>1, GotoEffect
  <2> QED BY <2>1, <2>2, DecidedKept
<1>2. CASE Withdrawn(r)
  <2>1. /\ UNCHANGED <<thread, failed>> /\ worker[r] = "granted" /\ Release(r, "over")
    BY <1>2 DEF Withdrawn
  <2>2. "over" \in WorkerStates \ {"queueing"}
    BY DEF WorkerStates
  <2>3. worker'[r] = "over"
    BY <1>0, <2>1, <2>2, ReleaseEffect
  <2> QED BY <2>1, <2>3 DEF Decided, NoCancel
<1>3. CASE Start(r) \/ LoopStarts(r)
  <2>1. /\ UNCHANGED <<thread, failed>> /\ worker[r] \in {"admitted", "loading"}
        /\ Goto(r, "loading") \/ Goto(r, "training")
    BY <1>3 DEF Start, LoopStarts
  <2>2. worker'[r] \in {"loading", "training"}
    BY <1>0, <2>1, GotoEffect
  <2> QED BY <2>1, <2>2 DEF Decided, Stops
<1>4. CASE LoopEnds(r)
  <2>1. /\ worker[r] = "training" /\ thread[r].boundary /\ UNCHANGED thread /\ Goto(r, "exited")
    BY <1>4 DEF LoopEnds, Exit
  <2>2. worker'[r] = "exited"
    BY <1>0, <2>1, GotoEffect
  <2> QED BY <2>1, <2>2 DEF Decided, Stops, NoCancel
<1>5. CASE Fail(r)
  <2>1. /\ failed' = [failed EXCEPT ![r] = TRUE] /\ Goto(r, "exited")
    BY <1>5 DEF Fail, Exit
  <2>2. worker'[r] = "exited" /\ failed'[r]
    BY <1>0, <2>1, GotoEffect DEF TypeOK
  <2> QED BY <2>2 DEF Decided
<1>6. CASE \/ Callback(r) \/ Drained(r) \/ Pausing(r) \/ Park(r) \/ Wake(r) \/ Drain(r)
           \/ Answer(r)
  <2> DEFINE InCallback == {"draining", "pausing", "deciding", "pausing2", "parked",
                            "answering", "answering2"}
  <2>1. \E pc \in InCallback : Goto(r, pc)
    BY <1>6 DEF Callback, Drained, Pausing, Park, Wake, Drain, Answer
  <2>2. worker'[r] \in InCallback
    BY <1>0, <2>1, GotoEffect
  <2> QED BY <2>2 DEF Decided
<1>8. CASE Continue(r)
  <2>1. /\ ~Stops(thread[r]) /\ thread'[r] = AfterCallback(thread[r]) /\ Goto(r, "training")
    BY <1>0, <1>8 DEF Continue, TypeOK
  <2>2. worker'[r] = "training"
    BY <1>0, <2>1, GotoEffect
  <2>3. thread'[r].cancel = thread[r].cancel /\ thread'[r].boundary = thread[r].boundary
    BY <1>0, <2>1 DEF AfterCallback, ThreadStates
  <2> QED BY <2>1, <2>2, <2>3 DEF Decided, Stops
<1>9. CASE Stop(r)
  <2>1. /\ Stops(thread[r]) /\ thread'[r] = AfterCallback(thread[r])
        /\ \E error \in BOOLEAN : Exit(r, error)
    BY <1>0, <1>9 DEF Stop, TypeOK
  <2>2. Goto(r, "exited")
    BY <2>1 DEF Exit
  <2>3. worker'[r] = "exited"
    BY <1>0, <2>2, GotoEffect
  <2>4. /\ thread'[r].cancel = thread[r].cancel
        /\ thread'[r].saved = ((thread[r].asked \/ (Stops(thread[r]) /\ thread[r].cancel.checkpoint
                                                     /\ thread[r].boundary)) /\ thread[r].boundary)
    BY <1>0, <2>1 DEF AfterCallback, ThreadStates
  <2>5. thread[r].cancel = [at |-> "boundary", checkpoint |-> TRUE] => thread'[r].saved
    <3> SUFFICES ASSUME thread[r].cancel = [at |-> "boundary", checkpoint |-> TRUE]
                 PROVE  thread'[r].saved
      OBVIOUS
    <3>1. thread[r].cancel.at = "boundary" /\ thread[r].cancel.checkpoint
      OBVIOUS
    <3>2. thread[r].boundary
      BY <2>1, <3>1 DEF Stops
    <3> QED BY <2>1, <2>4, <3>1, <3>2
  <2> QED BY <2>3, <2>4, <2>5 DEF Decided
<1>10. CASE Join(r) \/ Conclude(r) \/ AnnounceOutcome(r)
  <2>1. /\ UNCHANGED <<thread, failed>> /\ worker[r] \in AfterThread
        /\ \/ Release(r, "joined") /\ worker[r] # "queueing"
           \/ Goto(r, "announcing") \/ Goto(r, "over")
    BY <1>10 DEF Join, Conclude, AnnounceOutcome
  <2>2. "joined" \in WorkerStates \ {"queueing"}
    BY DEF WorkerStates
  <2>3. worker'[r] \in AfterThread
    BY <1>0, <2>1, <2>2, GotoEffect, ReleaseEffect
  <2> QED BY <2>1, <2>3 DEF Decided
<1> QED BY <1>1, <1>2, <1>3, <1>4, <1>5, <1>6, <1>8, <1>9, <1>10 DEF TaskStep

\* The task of a run touches the control of no other run.
LEMMA TaskKeepsThreads ==
    ASSUME TypeOK, NEW r \in Runs, TaskStep(r), NEW q \in Runs \ {r}
    PROVE  thread'[q] = thread[q]
BY DEF TaskStep, Acquire, Withdrawn, Admit, Start, LoopStarts, LoopEnds, Fail, Callback, Drain,
   Drained, Pausing, Park, Wake, Serve, Answer, Continue, Stop, Join, Conclude, AnnounceOutcome,
   TypeOK

\* A run that stopped for a cancellation that asked for a checkpoint wrote it in
\* that callback (control.rs, poll; algorithm.rs, checkpoint_boundary).
THEOREM CheckpointsAreKept == Spec => []KeptCheckpoint
<1> DEFINE AllDecided == \A r \in Runs : Decided(r)
<1>1. Init => AllDecided
  BY DEF Init, Decided, BeforeThread, AfterThread
<1>2. Inv /\ AllDecided /\ [Next]_vars => AllDecided'
  <2> SUFFICES ASSUME Inv, AllDecided, [Next]_vars, NEW q \in Runs PROVE Decided(q)'
    OBVIOUS
  <2>0. TypeOK /\ Decided(q)
    BY DEF Inv
  <2>1. ASSUME NEW r \in Runs, TaskStep(r) PROVE Decided(q)'
    <3>1. CASE q = r
      BY <2>0, <2>1, <3>1, DecidedTaskStep
    <3>2. CASE q # r
      <4>1. thread'[q] = thread[q]
        BY <2>0, <2>1, <3>2, TaskKeepsThreads
      <4>2. Bystanders(r)
        BY <2>1, TaskFits
      <4>3. /\ failed'[q] = failed[q]
            /\ \/ worker'[q] = worker[q]
               \/ worker[q] = "queueing" /\ worker'[q] = "granted"
        BY <3>2, <4>2 DEF Bystanders
      <4>4. "queueing" \in BeforeThread /\ "granted" \in BeforeThread
        BY DEF BeforeThread
      <4> QED BY <2>0, <4>1, <4>3, <4>4, DecidedKept
    <3> QED BY <3>1, <3>2
  <2>2. ASSUME NEW r \in Runs, Create(r) PROVE Decided(q)'
    <3>1. UNCHANGED <<thread, failed>> /\ worker[r] = "unborn" /\ Goto(r, "spawned")
      BY <2>2 DEF Create
    <3>2. worker'[r] = "spawned" /\ \A p \in Runs \ {r} : worker'[p] = worker[p]
      BY <2>0, <3>1, GotoEffect
    <3>3. "unborn" \in BeforeThread /\ "spawned" \in BeforeThread
      BY DEF BeforeThread
    <3> QED BY <2>0, <3>1, <3>2, <3>3, DecidedKept
  <2>3. CASE UNCHANGED <<thread, failed, worker>>
    BY <2>0, <2>3, DecidedKept
  <2>4. \/ \E r \in Runs : Create(r) \/ TaskStep(r)
        \/ UNCHANGED <<thread, failed, worker>>
    BY DEF Next, Request, RequestWithdrawal, Asks, HandlerStep, Send, Mark, TimeOut, Withdraw,
       AnnounceWithdrawal, DrainStarts, DrainStep, DrainCheckpoint, DrainCancel, DrainMark,
       DrainEnds, vars
  <2> QED BY <2>1, <2>2, <2>3, <2>4
<1>3. AllDecided => KeptCheckpoint
  BY DEF Decided, KeptCheckpoint
<1> QED BY <1>1, <1>2, <1>3, InvHolds, PTL DEF Spec
=============================================================================
