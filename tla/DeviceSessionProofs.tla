------------------------ MODULE DeviceSessionProofs ------------------------
(***************************************************************************)
(* Proofs about DeviceSession: who holds the permits, that no yield is     *)
(* slept through, and what a yield may not do to a stream in flight.       *)
(***************************************************************************)
EXTENDS DeviceSession, SubsequenceProofs, FiniteSetTheorems, TLAPS

RunPlaces == {"new", "refused", "flagged", "woken", "waiting", "training", "done"}

\* The part of TypeOK the arguments below need.
Types ==
    /\ inbox \in Seq(Requests \cup {Wake})
    /\ lease \in BOOLEAN /\ free \in Nat
    /\ line \in Seq(Runs)
    /\ run \in [Runs -> RunPlaces]
    /\ st \in [Requests -> {"new", "sent", "open"} \cup Final]

\* The model, its permit and the place of the thread: a permit is held from
\* just before the load until the weights have gone.
LeaseFitsThread ==
    /\ lease <=> (at = "load" \/ model # None)
    /\ at \in {"lease", "load"} => model = None
    /\ at \in {"submit", "drain", "unload"} => model # None

\* The line: distinct runs that wait, while no permit is free.
LineFits ==
    /\ \A i \in 1 .. Len(line) : run[line[i]] = "waiting"
    /\ \A i, j \in 1 .. Len(line) : line[i] = line[j] => i = j
    /\ line # <<>> => free = 0

Training == {u \in Runs : run[u] = "training"}
Leased == IF lease THEN 1 ELSE 0

\* Every permit is free, the session's or a run's.
PermitsAdd == Cardinality(Training) + Leased + free = Permits

\* A raised flag is seen: its run has a Wake to send, an envelope is still to
\* be taken, or the thread is on its way to the look at the flag.
YieldIsSeen ==
    yielding => \/ \E u \in Runs : run[u] = "flagged"
                \/ inbox # <<>>
                \/ at \in {"serve", "lease", "load", "submit", "drain", "check"}

Inv == Types /\ LeaseFitsThread /\ LineFits /\ PermitsAdd /\ YieldIsSeen

USE DEF Wake, Final

-----------------------------------------------------------------------------
(* The semaphore.                                                          *)

\* The runs that hold a permit can be counted.
LEMMA TrainingFinite == IsFiniteSet(Training) /\ Cardinality(Training) \in Nat
BY SessionAssumption, FS_Subset, FS_CardinalityType DEF Training

\* The numbers of permits and of places in the inbox are as assumed.
LEMMA PermitsNat == Permits \in Nat /\ QueueCap \in Nat /\ QueueCap > 0
BY SessionAssumption

\* One run more that trains.
LEMMA OneMore ==
    ASSUME Types, NEW u \in Runs, run[u] # "training",
           run' = [run EXCEPT ![u] = "training"]
    PROVE  Cardinality(Training') = Cardinality(Training) + 1
<1>1. Training' = Training \cup {u} /\ u \notin Training
  BY DEF Training, Types
<1> QED BY <1>1, TrainingFinite, FS_AddElement

\* A run that goes from one place to another, neither of them training.
LEMMA SameTraining ==
    ASSUME Types, NEW u \in Runs, run[u] # "training", NEW p \in RunPlaces \ {"training"},
           run' = [run EXCEPT ![u] = p]
    PROVE  Training' = Training
BY DEF Training, Types

\* The line does not mind a run that is not in it.
LEMMA LineKept ==
    ASSUME Types, LineFits, NEW u \in Runs, run[u] # "waiting", NEW p,
           run' = [run EXCEPT ![u] = p], line' = line, free' = free
    PROVE  LineFits'
<1>1. \A i \in 1 .. Len(line) : line[i] \in Runs /\ line[i] # u
  BY DEF LineFits, Types
<1> QED BY <1>1 DEF LineFits, Types

\* A permit given back while the runs stand as `runs`: it is free, or one
\* more run trains.
LEMMA GivenBack ==
    ASSUME Types, LineFits, NEW STATE runs, runs \in [Runs -> RunPlaces],
           \A u \in Runs : run[u] = "waiting" => runs[u] = "waiting",
           GiveBack(runs)
    PROVE  /\ LineFits'
           /\ free' \in Nat /\ line' \in Seq(Runs) /\ run' \in [Runs -> RunPlaces]
           /\ Cardinality(Training') + free'
                = Cardinality({u \in Runs : runs[u] = "training"}) + free + 1
           /\ \A u \in Runs : runs[u] # "waiting" => run'[u] = runs[u]
<1> DEFINE Was == {u \in Runs : runs[u] = "training"}
<1>0. IsFiniteSet(Was) /\ Cardinality(Was) \in Nat
  BY SessionAssumption, FS_Subset, FS_CardinalityType
<1>1. CASE line = <<>>
  <2>1. free' = free + 1 /\ run' = runs /\ line' = <<>>
    BY <1>1 DEF GiveBack
  <2>2. Training' = Was
    BY <2>1 DEF Training
  <2>3. LineFits'
    BY <2>1 DEF LineFits
  <2> QED BY <1>0, <2>1, <2>2, <2>3 DEF Types
<1>2. CASE line # <<>>
  <2> DEFINE h == Head(line)
  <2>1. run' = [runs EXCEPT ![h] = "training"] /\ line' = Tail(line) /\ free' = free
    BY <1>2 DEF GiveBack
  <2>2. /\ Len(line) \in Nat \ {0} /\ h = line[1] /\ h \in Runs
        /\ Tail(line) \in Seq(Runs) /\ Len(Tail(line)) = Len(line) - 1
        /\ \A i \in 1 .. Len(Tail(line)) : Tail(line)[i] = line[i + 1] /\ i + 1 \in 1 .. Len(line)
        /\ \A i \in 1 .. Len(line) : line[i] \in Runs
    BY <1>2 DEF Types
  <2>3. run[h] = "waiting" /\ runs[h] = "waiting"
    BY <2>2 DEF LineFits
  <2>4. Training' = Was \cup {h} /\ h \notin Was
    BY <2>1, <2>2, <2>3 DEF Training
  <2>5. Cardinality(Training') = Cardinality(Was) + 1
    BY <1>0, <2>4, FS_AddElement
  <2>6. \A i \in 1 .. Len(line') : run'[line'[i]] = "waiting"
    <3> SUFFICES ASSUME NEW i \in 1 .. Len(Tail(line))
                 PROVE  run'[Tail(line)[i]] = "waiting"
      BY <2>1
    <3>1. Tail(line)[i] = line[i + 1] /\ i + 1 \in 1 .. Len(line) /\ i \in Nat /\ i > 0
      BY <2>2
    <3>2. line[i + 1] # h /\ line[i + 1] \in Runs /\ run[line[i + 1]] = "waiting"
      BY <3>1, <2>2 DEF LineFits
    <3> QED BY <2>1, <3>1, <3>2
  <2>7. \A i, j \in 1 .. Len(line') : line'[i] = line'[j] => i = j
    <3> SUFFICES ASSUME NEW i \in 1 .. Len(Tail(line)), NEW j \in 1 .. Len(Tail(line)),
                        Tail(line)[i] = Tail(line)[j]
                 PROVE  i = j
      BY <2>1
    <3>1. line[i + 1] = line[j + 1] /\ i + 1 \in 1 .. Len(line) /\ j + 1 \in 1 .. Len(line)
      BY <2>2
    <3>2. i + 1 = j + 1
      BY <3>1 DEF LineFits
    <3> QED BY <3>2
  <2>8. free' = 0
    BY <1>2, <2>1 DEF LineFits
  <2>9. LineFits'
    BY <2>6, <2>7, <2>8 DEF LineFits
  <2>10. run' \in [Runs -> RunPlaces] /\ \A u \in Runs : runs[u] # "waiting" => run'[u] = runs[u]
    BY <2>1, <2>2, <2>3 DEF RunPlaces
  <2>11. Cardinality(Training') + free' = Cardinality(Was) + free + 1
    BY <1>0, <2>1, <2>5 DEF Types
  <2> QED BY <2>1, <2>2, <2>9, <2>10, <2>11 DEF Types
<1> QED BY <1>1, <1>2

\* The session's permit given back.
LEMMA LeaseGivenBack ==
    ASSUME Types, LineFits, PermitsAdd, lease, lease' = FALSE, GiveBack(run)
    PROVE  /\ LineFits' /\ PermitsAdd'
           /\ free' \in Nat /\ line' \in Seq(Runs) /\ run' \in [Runs -> RunPlaces]
           /\ \A u \in Runs : run[u] # "waiting" => run'[u] = run[u]
<1>1. run \in [Runs -> RunPlaces] /\ free \in Nat
  BY DEF Types
<1>2. /\ LineFits'
      /\ free' \in Nat /\ line' \in Seq(Runs) /\ run' \in [Runs -> RunPlaces]
      /\ Cardinality(Training') + free' = Cardinality(Training) + free + 1
      /\ \A u \in Runs : run[u] # "waiting" => run'[u] = run[u]
  BY <1>1, GivenBack DEF Training
<1>3. Cardinality(Training') \in Nat
  BY SessionAssumption, FS_Subset, FS_CardinalityType DEF Training
<1>4. Cardinality(Training) + 1 + free = Permits /\ Leased' = 0
  BY DEF PermitsAdd, Leased
<1>5. PermitsAdd'
  BY <1>1, <1>2, <1>3, <1>4, TrainingFinite, PermitsNat DEF PermitsAdd
<1> QED BY <1>2, <1>5

-----------------------------------------------------------------------------
(* The invariant, for the thread's steps and for the runs'.                 *)

\* At the start nobody holds a permit, the line is empty and no flag is raised.
LEMMA InitInv == Init => Inv
<1> SUFFICES ASSUME Init PROVE Inv
  OBVIOUS
<1>1. Types
  <2>1. st \in [Requests -> {"new", "sent", "open"} \cup Final] /\ run \in [Runs -> RunPlaces]
    BY DEF Init, RunPlaces
  <2>2. inbox \in Seq(Requests \cup {Wake}) /\ line \in Seq(Runs)
    BY DEF Init
  <2> QED BY <2>1, <2>2, PermitsNat DEF Init, Types
<1>2. LeaseFitsThread /\ YieldIsSeen
  BY DEF Init, LeaseFitsThread, YieldIsSeen
<1>3. LineFits
  BY DEF Init, LineFits
<1>4. Training = {}
  BY DEF Init, Training
<1>5. PermitsAdd
  BY <1>4, FS_EmptySet, PermitsNat DEF Init, PermitsAdd, Leased
<1> QED BY <1>1, <1>2, <1>3, <1>5 DEF Inv

\* What a request has come to stays a status.
LEMMA SettleTypes ==
    ASSUME st \in [Requests -> {"new", "sent", "open"} \cup Final],
           NEW what \in Final \cup {"open"}, NEW rs
    PROVE  Settle(rs, what) \in [Requests -> {"new", "sent", "open"} \cup Final]
BY DEF Settle

\* A step that leaves the permits alone.
LEMMA DeviceKept ==
    ASSUME LineFits, PermitsAdd, UNCHANGED device
    PROVE  LineFits' /\ PermitsAdd'
BY DEF device, LineFits, PermitsAdd, Leased, Training

\* A client that submits or leaves touches no permit and no flag.
LEMMA ClientKeeps ==
    ASSUME Inv, NEW r \in Requests, Submit(r) \/ Leave(r)
    PROVE  Inv'
<1> USE DEF Inv
<1>1. CASE Submit(r)
  <2>1. Types'
    <3>1. inbox' = inbox \/ inbox' = Append(inbox, r)
      BY <1>1 DEF Submit
    <3>2. inbox' \in Seq(Requests \cup {Wake})
      BY <3>1 DEF Types
    <3>3. st' \in [Requests -> {"new", "sent", "open"} \cup Final]
      BY <1>1 DEF Submit, Types
    <3> QED BY <1>1, <3>2, <3>3 DEF Submit, Types, device
  <2>2. LeaseFitsThread'
    BY <1>1 DEF Submit, LeaseFitsThread, device
  <2>3. YieldIsSeen'
    BY <1>1 DEF Submit, YieldIsSeen, device, Types
  <2> QED BY <1>1, <2>1, <2>2, <2>3, DeviceKept DEF Submit
<1>2. CASE Leave(r)
  <2>1. Types'
    BY <1>2 DEF Leave, Types, device, thread
  <2>2. LeaseFitsThread' /\ YieldIsSeen'
    BY <1>2 DEF Leave, LeaseFitsThread, YieldIsSeen, device, thread
  <2> QED BY <1>2, <2>1, <2>2, DeviceKept DEF Leave
<1> QED BY <1>1, <1>2

\* The steps of the thread that keep the permits where they are.
LEMMA ThreadKeeps ==
    ASSUME Inv,
           \/ Receive \/ ReceiveNothing \/ LeaseRefused \/ Load \/ Serve
           \/ Drained \/ CheckYield \/ Pump \/ PumpFails
    PROVE  Inv'
<1> USE DEF Inv
<1>1. LineFits' /\ PermitsAdd'
  BY DeviceKept DEF Receive, ReceiveNothing, LeaseRefused, Load, Serve, Drained, CheckYield,
     Pump, PumpFails
<1>2. Types'
  <2>1. CASE Receive \/ ReceiveNothing \/ Load
    <3>1. inbox' = inbox \/ (inbox # <<>> /\ inbox' = Tail(inbox))
      BY <2>1 DEF Receive, ReceiveNothing, Load
    <3>2. inbox' \in Seq(Requests \cup {Wake})
      BY <3>1 DEF Types
    <3>3. st' = st /\ UNCHANGED device
      BY <2>1 DEF Receive, ReceiveNothing, Load
    <3> QED BY <3>2, <3>3 DEF Types, device
  <2>2. CASE LeaseRefused \/ Serve \/ Drained \/ CheckYield \/ Pump \/ PumpFails
    <3>1. st' = st \/ \E what \in Final \cup {"open"} : \E rs : st' = Settle(rs, what)
      BY <2>2 DEF LeaseRefused, Serve, Drained, CheckYield, Pump, PumpFails, EndJob, Accept
    <3>2. st' \in [Requests -> {"new", "sent", "open"} \cup Final]
      BY <3>1, SettleTypes DEF Types
    <3>3. inbox' = inbox /\ UNCHANGED device
      BY <2>2 DEF LeaseRefused, Serve, Drained, CheckYield, Pump, PumpFails
    <3> QED BY <3>2, <3>3 DEF Types, device
  <2> QED BY <2>1, <2>2
<1>3. LeaseFitsThread'
  <2>1. lease' = lease
    BY DEF Receive, ReceiveNothing, LeaseRefused, Load, Serve, Drained, CheckYield, Pump,
       PumpFails, device
  <2>2. CASE Load
    <3>1. Base(job) # None
      BY SessionAssumption DEF Base
    <3> QED BY <2>1, <2>2, <3>1 DEF Load, LeaseFitsThread
  <2>3. CASE Receive \/ ReceiveNothing \/ LeaseRefused \/ Serve \/ Drained \/ CheckYield
    BY <2>1, <2>3 DEF Receive, ReceiveNothing, LeaseRefused, Serve, Drained, CheckYield,
       EndJob, Accept, LeaseFitsThread
  <2>4. CASE Pump \/ PumpFails
    BY <2>1, <2>4 DEF Pump, PumpFails, AfterStep, LeaseFitsThread
  <2> QED BY <2>2, <2>3, <2>4
<1>4. YieldIsSeen'
  <2>1. run' = run
    BY DEF Receive, ReceiveNothing, LeaseRefused, Load, Serve, Drained, CheckYield, Pump,
       PumpFails, device
  <2>2. CASE Receive \/ ReceiveNothing \/ LeaseRefused \/ Load
    BY <2>1, <2>2 DEF Receive, ReceiveNothing, LeaseRefused, Load, EndJob, YieldIsSeen
  <2>3. CASE Serve \/ Drained \/ CheckYield
    BY <2>1, <2>3 DEF Serve, Drained, CheckYield, EndJob, Accept, YieldIsSeen
  <2>4. CASE Pump \/ PumpFails
    BY <2>1, <2>4 DEF Pump, PumpFails, AfterStep, YieldIsSeen
  <2> QED BY <2>2, <2>3, <2>4
<1> QED BY <1>1, <1>2, <1>3, <1>4

\* A permit the session takes for itself was free, so nobody stood in line.
LEMMA LeaseTaken == Inv /\ TakeLease => Inv'
<1> SUFFICES ASSUME Inv, TakeLease PROVE Inv'
  OBVIOUS
<1> USE DEF Inv
<1>1. free > 0 /\ free' = free - 1 /\ ~lease /\ lease' = TRUE /\ line' = line /\ run' = run
  BY DEF TakeLease, LeaseFitsThread
<1>2. Types' /\ LeaseFitsThread' /\ YieldIsSeen'
  BY <1>1 DEF TakeLease, Types, LeaseFitsThread, YieldIsSeen
<1>3. LineFits'
  BY <1>1 DEF LineFits, Types
<1>4. Training' = Training
  BY <1>1 DEF Training
<1>5. PermitsAdd'
  BY <1>1, <1>4, TrainingFinite, PermitsNat DEF PermitsAdd, Leased, Types
<1> QED BY <1>2, <1>3, <1>5

\* The weights are freed, then the permit: an idle bound, a change of base
\* model, a yield and a load that fails.
LEMMA LeaseDropped ==
    ASSUME Inv, IdleTimeout \/ Ensure \/ Unloaded \/ LoadFails
    PROVE  Inv'
<1> USE DEF Inv
<1>1. CASE Ensure /\ UNCHANGED device
  <2>1. Types' /\ LeaseFitsThread' /\ YieldIsSeen'
    <3>1. /\ st' = st /\ model' = model /\ at' \in {"submit", "lease"} /\ at = "serve"
          /\ inbox' = inbox /\ yielding' = yielding
          /\ at' = "lease" => model = None
          /\ at' = "submit" => model = Base(job)
      <4>1. CASE model = Base(job) \/ model = None
        BY <1>1, <4>1 DEF Ensure
      <4>2. CASE ~(model = Base(job) \/ model = None)
        BY <1>1, <4>2 DEF Ensure, Unload, device, LeaseFitsThread
      <4> QED BY <4>1, <4>2
    <3>2. Base(job) # None
      BY SessionAssumption DEF Base
    <3>3. UNCHANGED <<lease, free, line, run>>
      BY <1>1 DEF device
    <3>4. Types'
      BY <3>1, <3>3 DEF Types
    <3>5. LeaseFitsThread'
      BY <3>1, <3>2, <3>3 DEF LeaseFitsThread
    <3>6. YieldIsSeen'
      BY <3>1, <3>3 DEF YieldIsSeen
    <3> QED BY <3>4, <3>5, <3>6
  <2> QED BY <1>1, <2>1, DeviceKept
<1>2. CASE \/ IdleTimeout \/ Unloaded \/ LoadFails
           \/ Ensure /\ ~UNCHANGED device
  <2>1. /\ lease /\ lease' = FALSE /\ GiveBack(run) /\ model' = None
        /\ inbox' = inbox /\ yielding' = yielding
    BY <1>2 DEF IdleTimeout, Unloaded, LoadFails, Ensure, Unload, LeaseFitsThread
  <2>2. LineFits' /\ PermitsAdd'
        /\ free' \in Nat /\ line' \in Seq(Runs) /\ run' \in [Runs -> RunPlaces]
        /\ \A u \in Runs : run[u] # "waiting" => run'[u] = run[u]
    BY <2>1, LeaseGivenBack
  <2>3. st' \in [Requests -> {"new", "sent", "open"} \cup Final]
    BY <1>2, SettleTypes DEF IdleTimeout, Unloaded, LoadFails, Ensure, Unload, EndJob, Types
  <2>4. Types'
    BY <2>1, <2>2, <2>3 DEF Types
  <2>5. at' \in {"check", "look", "lease"}
        /\ (at' = "look" => at = "unload")
    BY <1>2 DEF IdleTimeout, Unloaded, LoadFails, Ensure, EndJob, LeaseFitsThread, device
  <2>6. LeaseFitsThread'
    BY <2>1, <2>5 DEF LeaseFitsThread
  <2>7. YieldIsSeen'
    BY <2>1, <2>2, <2>5 DEF YieldIsSeen
  <2> QED BY <2>2, <2>4, <2>6, <2>7
<1> QED BY <1>1, <1>2

\* A run takes a permit, at its first try or as it joins the line.
LEMMA PermitTaken ==
    ASSUME Inv, NEW u \in Runs, run[u] \in {"new", "woken"}, free > 0,
           run' = [run EXCEPT ![u] = "training"], free' = free - 1,
           line' = line, UNCHANGED <<thread, st, lease>>
    PROVE  Inv'
<1> USE DEF Inv
<1>1. Types' /\ LeaseFitsThread' /\ YieldIsSeen'
  BY DEF Types, RunPlaces, LeaseFitsThread, YieldIsSeen, thread
<1>2. LineFits'
  <2>1. line = <<>>
    BY DEF LineFits, Types
  <2> QED BY <2>1 DEF LineFits
<1>3. PermitsAdd'
  <2>1. Cardinality(Training') = Cardinality(Training) + 1 /\ Leased' = Leased
    BY OneMore DEF Leased
  <2>2. Cardinality(Training) \in Nat /\ free \in Nat /\ Leased \in Nat
    BY TrainingFinite DEF Types, Leased
  <2> QED BY <2>1, <2>2, PermitsNat DEF PermitsAdd
<1> QED BY <1>1, <1>2, <1>3

\* A run's steps: it asks, gets in line, raises the flag, trains and gives its permit
\* to the next in line.
LEMMA RunKeeps ==
    ASSUME Inv, NEW u \in Runs, RunStep(u)
    PROVE  Inv'
<1> USE DEF Inv
<1>1. CASE TryStart(u)
  <2>1. CASE free > 0
    BY <1>1, <2>1, PermitTaken DEF TryStart
  <2>2. CASE ~(free > 0)
    <3>1. run' = [run EXCEPT ![u] = "refused"] /\ free' = free /\ line' = line
          /\ UNCHANGED <<thread, st, lease>> /\ run[u] = "new"
      BY <1>1, <2>2 DEF TryStart
    <3>2. Types' /\ LeaseFitsThread' /\ YieldIsSeen'
      BY <3>1 DEF Types, RunPlaces, LeaseFitsThread, YieldIsSeen, thread
    <3>3. LineFits' /\ Training' = Training
      BY <3>1, LineKept, SameTraining DEF RunPlaces
    <3> QED BY <3>1, <3>2, <3>3 DEF PermitsAdd, Leased
  <2> QED BY <2>1, <2>2
<1>2. CASE Ask(u)
  <2> DEFINE p == IF run[u] = "refused" THEN "flagged" ELSE "woken"
  <2>1. /\ run[u] \in {"refused", "flagged"} /\ run' = [run EXCEPT ![u] = p]
        /\ UNCHANGED <<model, at, st, lease, free, line>>
    BY <1>2 DEF Ask, RaiseFlag, SendWake
  <2>2. Types'
    <3>1. inbox' = inbox \/ inbox' = Append(inbox, Wake)
      BY <1>2 DEF Ask, RaiseFlag, SendWake
    <3>2. inbox' \in Seq(Requests \cup {Wake})
      BY <3>1 DEF Types
    <3> QED BY <2>1, <3>2 DEF Types, RunPlaces
  <2>3. LeaseFitsThread' /\ LineFits' /\ Training' = Training
    BY <2>1, LineKept, SameTraining DEF LeaseFitsThread, RunPlaces
  <2>4. YieldIsSeen'
    <3>1. CASE RaiseFlag(u)
      BY <3>1 DEF RaiseFlag, YieldIsSeen, Types
    <3>2. CASE SendWake(u)
      <4>1. inbox' # <<>>
        BY <3>2, PermitsNat DEF SendWake, InboxCap, Types
      <4> QED BY <4>1 DEF YieldIsSeen
    <3> QED BY <1>2, <3>1, <3>2 DEF Ask
  <2> QED BY <2>1, <2>2, <2>3, <2>4 DEF PermitsAdd, Leased
<1>3. CASE Join(u)
  <2>1. CASE free > 0
    BY <1>3, <2>1, PermitTaken DEF Join
  <2>2. CASE ~(free > 0)
    <3>1. /\ run' = [run EXCEPT ![u] = "waiting"] /\ free' = free /\ line' = Append(line, u)
          /\ UNCHANGED <<thread, st, lease>> /\ run[u] = "woken" /\ free = 0
      BY <1>3, <2>2 DEF Join, Types
    <3>2. Types' /\ LeaseFitsThread' /\ YieldIsSeen'
      BY <3>1 DEF Types, RunPlaces, LeaseFitsThread, YieldIsSeen, thread
    <3>3. LineFits'
      <4>1. /\ Len(line') = Len(line) + 1 /\ Len(line) \in Nat /\ line'[Len(line) + 1] = u
            /\ \A i \in 1 .. Len(line) : line'[i] = line[i] /\ line[i] \in Runs /\ line[i] # u
        BY <3>1 DEF Types, LineFits
      <4> QED BY <3>1, <4>1 DEF LineFits, Types
    <3>4. Training' = Training
      BY <3>1, SameTraining DEF RunPlaces
    <3> QED BY <3>1, <3>2, <3>3, <3>4 DEF PermitsAdd, Leased
  <2> QED BY <2>1, <2>2
<1>4. CASE Finish(u)
  <2> DEFINE ended == [run EXCEPT ![u] = "done"]
             Left == {v \in Runs : ended[v] = "training"}
  <2>1. run[u] = "training" /\ GiveBack(ended) /\ UNCHANGED <<thread, st, lease>>
    BY <1>4 DEF Finish
  <2>2. /\ ended \in [Runs -> RunPlaces]
        /\ \A v \in Runs : run[v] = "waiting" => ended[v] = "waiting"
    BY <2>1 DEF Types, RunPlaces
  <2> HIDE DEF ended
  <2>3. /\ LineFits'
        /\ free' \in Nat /\ line' \in Seq(Runs) /\ run' \in [Runs -> RunPlaces]
        /\ Cardinality(Training') + free' = Cardinality(Left) + free + 1
        /\ \A v \in Runs : ended[v] # "waiting" => run'[v] = ended[v]
    BY <2>1, <2>2, GivenBack
  <2> USE DEF ended
  <2>4. Left = Training \ {u} /\ u \in Training
    BY <2>1 DEF Training, Types
  <2>5. Cardinality(Left) = Cardinality(Training) - 1
    BY <2>4, TrainingFinite, FS_RemoveElement
  <2>6. Cardinality(Training') \in Nat
    BY SessionAssumption, FS_Subset, FS_CardinalityType DEF Training
  <2>7. PermitsAdd'
    BY <2>1, <2>3, <2>5, <2>6, TrainingFinite, PermitsNat DEF PermitsAdd, Leased, Types
  <2>8. Types' /\ LeaseFitsThread'
    BY <2>1, <2>3 DEF Types, LeaseFitsThread, thread
  <2>9. YieldIsSeen'
    BY <2>1, <2>3 DEF YieldIsSeen, thread, Types
  <2> QED BY <2>3, <2>7, <2>8, <2>9
<1> QED BY <1>1, <1>2, <1>3, <1>4 DEF RunStep

\* No step of the thread, of a client or of a run breaks the invariant.
LEMMA InvStep == Inv /\ [Next]_vars => Inv'
<1> SUFFICES ASSUME Inv, [Next]_vars PROVE Inv'
  OBVIOUS
<1>1. CASE Thread
  BY <1>1, ThreadKeeps, LeaseTaken, LeaseDropped DEF Thread
<1>2. CASE IdleTimeout
  BY <1>2, LeaseDropped
<1>3. ASSUME NEW r \in Requests, Submit(r) \/ Leave(r) PROVE Inv'
  BY <1>3, ClientKeeps
<1>4. ASSUME NEW u \in Runs, RunStep(u) PROVE Inv'
  BY <1>4, RunKeeps
<1>5. CASE UNCHANGED vars
  BY <1>5 DEF vars, Inv, Types, LeaseFitsThread, LineFits, PermitsAdd, Leased, Training,
     YieldIsSeen
<1> QED BY <1>1, <1>2, <1>3, <1>4, <1>5 DEF Next

\* So the invariant holds in every state.
LEMMA InvHolds == Spec => []Inv
BY InitInv, InvStep, PTL DEF Spec

-----------------------------------------------------------------------------
(* The types: the scheduler's queue and slots, and who the thread serves.   *)

\* The scheduler never holds more than its slots and its queue, the inbox no
\* more than it has room for, and the thread serves a request.
SchedFits ==
    /\ Len(inbox) <= InboxCap
    /\ yielding \in BOOLEAN /\ budget \in BOOLEAN
    /\ model \in {None, "A", "B"}
    /\ queue \in Seq(Requests) /\ Len(queue) <= QueueCap
    /\ live \in SUBSET Requests /\ IsFiniteSet(live) /\ Cardinality(live) <= Slots
    /\ at \in {"look", "serve", "lease", "load", "submit", "drain", "check",
               "unload", "pump"}
    /\ job \in Requests \cup {None}
    /\ at \in {"serve", "lease", "load", "submit", "drain"} => job \in Requests

\* The requests of a sequence are no more than its length.
LEMMA RangeBounded ==
    ASSUME NEW S, NEW s \in Seq(S)
    PROVE  Range(s) \in SUBSET S /\ IsFiniteSet(Range(s)) /\ Cardinality(Range(s)) <= Len(s)
<1> DEFINE D == 1 .. Len(s)
<1>1. Len(s) \in Nat /\ DOMAIN s = D /\ \A i \in D : s[i] \in S
  OBVIOUS
<1>2. IsFiniteSet(D) /\ Cardinality(D) = Len(s)
  <2>1. PICK n \in Nat : n = Len(s)
    BY <1>1
  <2>2. IsFiniteSet(1 .. n) /\ Cardinality(1 .. n) = n
    BY FS_Interval
  <2> QED BY <2>1, <2>2
<1>3. s \in Surjection(D, Range(s))
  <2>1. s = [i \in D |-> s[i]]
    OBVIOUS
  <2>2. s \in [D -> Range(s)] /\ \A x \in Range(s) : \E i \in D : s[i] = x
    BY <1>1, <2>1 DEF Range
  <2> QED BY <2>2 DEF Surjection
<1>4. Range(s) \in SUBSET S
  BY <1>1 DEF Range
<1> QED BY <1>2, <1>3, <1>4, FS_Surjection

\* Admission stays within the slots, and what is left within the queue.
LEMMA AdmittedFits ==
    ASSUME SchedFits
    PROVE  /\ Admitted.live \in SUBSET Requests /\ IsFiniteSet(Admitted.live)
           /\ Cardinality(Admitted.live) <= Slots
           /\ Admitted.queue \in Seq(Requests) /\ Len(Admitted.queue) <= QueueCap
<1> DEFINE kept == Listening(live)
           K == {i \in DOMAIN queue : queue[i] \in Listening(Requests)}
           waiting == Kept(queue, K)
           room == Slots - Cardinality(kept)
           n == IF Len(waiting) < room THEN Len(waiting) ELSE room
           joining == SubSeq(waiting, 1, n)
           rest == SubSeq(waiting, Len(joining) + 1, Len(waiting))
<1>1. Admitted.live = kept \cup Range(joining) /\ Admitted.queue = rest
  BY DEF Admitted
<1>2. Slots \in Nat /\ QueueCap \in Nat /\ Len(queue) \in Nat
  BY SessionAssumption DEF SchedFits
<1>3. /\ kept \in SUBSET Requests /\ IsFiniteSet(kept)
      /\ Cardinality(kept) \in Nat /\ Cardinality(kept) <= Slots
  <2>1. kept \in SUBSET live
    BY DEF Listening
  <2>2. IsFiniteSet(kept) /\ Cardinality(kept) <= Cardinality(live)
    BY <2>1, FS_Subset DEF SchedFits
  <2>3. Cardinality(kept) \in Nat /\ Cardinality(live) \in Nat
    BY <2>2, FS_CardinalityType DEF SchedFits
  <2> QED BY <1>2, <2>1, <2>2, <2>3 DEF SchedFits
<1>4. waiting \in Seq(Requests) /\ Len(waiting) \in Nat /\ Len(waiting) <= QueueCap
  <2>1. K \in SUBSET (DOMAIN queue) /\ queue \in Seq(Requests)
    BY DEF SchedFits
  <2> HIDE DEF K
  <2>2. waiting \in Seq(Requests) /\ Len(waiting) = Cardinality(K) /\ Cardinality(K) \in 0 .. Len(queue)
    BY <2>1, KeptFits
  <2> QED BY <1>2, <2>2 DEF SchedFits
<1> HIDE DEF kept, waiting
<1>5. n \in Nat /\ n <= room /\ n <= Len(waiting) /\ room \in Nat
  BY <1>2, <1>3, <1>4
<1> HIDE DEF n
<1>6. joining \in Seq(Requests) /\ Len(joining) = n
  BY <1>4, <1>5
<1>7. rest \in Seq(Requests) /\ Len(rest) <= Len(waiting)
  BY <1>4, <1>5, <1>6
<1> HIDE DEF joining, rest
<1>8. Range(joining) \in SUBSET Requests /\ IsFiniteSet(Range(joining)) /\ Cardinality(Range(joining)) <= n
  BY <1>6, RangeBounded
<1>9. PICK k \in Nat : k = Cardinality(kept)
  BY <1>3
<1>10. PICK j \in Nat : j = Cardinality(Range(joining))
  BY <1>8, FS_CardinalityType
<1>11. /\ IsFiniteSet(kept \cup Range(joining))
       /\ Cardinality(kept \cup Range(joining)) = k + j - Cardinality(kept \cap Range(joining))
       /\ Cardinality(kept \cap Range(joining)) \in Nat
  BY <1>3, <1>8, <1>9, <1>10, FS_Union, FS_Intersection, FS_CardinalityType
<1>12. Cardinality(kept \cup Range(joining)) <= Slots
  BY <1>2, <1>5, <1>8, <1>9, <1>10, <1>11
<1> QED BY <1>1, <1>2, <1>3, <1>4, <1>7, <1>8, <1>11, <1>12

\* What the clients and the runs' wake-ups put in the inbox has room there.
LEMMA InboxStep ==
    ASSUME Types, SchedFits, NEW e, Len(inbox) < InboxCap, inbox' = Append(inbox, e)
    PROVE  Len(inbox') <= InboxCap
<1>1. Len(inbox) \in Nat /\ InboxCap \in Nat
  BY PermitsNat DEF Types, InboxCap
<1>2. Len(inbox') = Len(inbox) + 1
  BY DEF Types
<1> QED BY <1>1, <1>2

\* serve: a request that joins the queue finds room there.
LEMMA AcceptFits ==
    ASSUME SchedFits, job \in Requests, Accept
    PROVE  /\ queue' \in Seq(Requests) /\ Len(queue') <= QueueCap
           /\ at' = "check" /\ job' = None
<1>1. Len(queue) \in Nat /\ QueueCap \in Nat
  BY PermitsNat DEF SchedFits
<1>2. CASE Len(queue) < QueueCap
  <2>1. queue' = Append(queue, job) /\ at' = "check" /\ job' = None
    BY <1>2 DEF Accept
  <2>2. queue' \in Seq(Requests) /\ Len(queue') = Len(queue) + 1
    BY <2>1 DEF SchedFits
  <2> QED BY <1>1, <1>2, <2>1, <2>2
<1>3. CASE ~(Len(queue) < QueueCap)
  BY <1>3 DEF Accept, EndJob, SchedFits
<1> QED BY <1>2, <1>3

\* The types of the scheduler are kept by every step.
LEMMA SchedStep == Inv /\ SchedFits /\ [Next]_vars => SchedFits'
<1> SUFFICES ASSUME Inv, SchedFits, [Next]_vars PROVE SchedFits'
  OBVIOUS
<1>0. /\ Types /\ inbox \in Seq(Requests \cup {Wake}) /\ Len(inbox) \in Nat
      /\ InboxCap \in Nat /\ QueueCap \in Nat /\ Slots \in Nat
      /\ None \notin Requests /\ \A r : Base(r) \in {"A", "B"}
  BY SessionAssumption, PermitsNat DEF Inv, Types, InboxCap, Base
<1>e. IsFiniteSet({}) /\ Cardinality({}) = 0 /\ <<>> \in Seq(Requests) /\ Len(<<>>) = 0
  BY FS_EmptySet
<1>q. ASSUME queue' = <<>> PROVE queue' \in Seq(Requests) /\ Len(queue') <= QueueCap
  <2>1. 0 <= QueueCap
    BY <1>0
  <2> QED BY <1>e, <1>q, <2>1
<1>u. ASSUME Unload
      PROVE  /\ model' = None /\ budget' = FALSE
             /\ queue' \in Seq(Requests) /\ Len(queue') <= QueueCap
             /\ live' \in SUBSET Requests /\ IsFiniteSet(live') /\ Cardinality(live') <= Slots
  <2>1. model' = None /\ budget' = FALSE /\ queue' = <<>> /\ live' = {}
    BY <1>u DEF Unload
  <2>2. 0 <= Slots
    BY <1>0
  <2> QED BY <1>e, <1>q, <2>1, <2>2
<1>1. ASSUME UNCHANGED thread PROVE SchedFits'
  BY <1>1 DEF SchedFits, thread, InboxCap
<1>2. ASSUME NEW r \in Requests, Submit(r) \/ Leave(r) PROVE SchedFits'
  <2>1. CASE Leave(r)
    BY <1>1, <2>1 DEF Leave
  <2>2. CASE Submit(r)
    <3>1. UNCHANGED <<yielding, model, budget, queue, live, at, job>>
      BY <2>2 DEF Submit
    <3>2. Len(inbox') <= InboxCap
      BY <2>2, <1>0, InboxStep DEF Submit, SchedFits
    <3> QED BY <3>1, <3>2 DEF SchedFits
  <2> QED BY <1>2, <2>1, <2>2
<1>3. ASSUME NEW u \in Runs, RunStep(u) PROVE SchedFits'
  <2>1. CASE TryStart(u) \/ Join(u) \/ Finish(u)
    BY <1>1, <2>1 DEF TryStart, Join, Finish
  <2>2. CASE RaiseFlag(u)
    BY <2>2 DEF RaiseFlag, SchedFits
  <2>3. CASE SendWake(u)
    <3>1. UNCHANGED <<yielding, model, budget, queue, live, at, job>>
      BY <2>3 DEF SendWake
    <3>2. Len(inbox') <= InboxCap
      BY <2>3, <1>0, InboxStep DEF SendWake, SchedFits
    <3> QED BY <3>1, <3>2 DEF SchedFits
  <2> QED BY <1>3, <2>1, <2>2, <2>3 DEF RunStep, Ask
<1>4. CASE Receive
  <2>1. inbox # <<>> /\ inbox' = Tail(inbox) /\ UNCHANGED <<yielding, model, budget, queue, live>>
    BY <1>4 DEF Receive
  <2>2. Len(inbox') = Len(inbox) - 1
    BY <1>0, <2>1
  <2>3. Len(inbox') <= InboxCap
    BY <1>0, <2>2 DEF SchedFits
  <2>4. \/ at' = "serve" /\ job' \in Requests
        \/ at' = "check" /\ job' = None
    BY <1>4 DEF Receive, Listening
  <2> QED BY <2>1, <2>3, <2>4 DEF SchedFits
<1>5. CASE ReceiveNothing \/ TakeLease \/ Load
  BY <1>0, <1>5 DEF ReceiveNothing, TakeLease, Load, SchedFits
<1>6. CASE LeaseRefused \/ LoadFails
  BY <1>6 DEF LeaseRefused, LoadFails, EndJob, SchedFits
<1>7. CASE Ensure
  <2>1. UNCHANGED <<inbox, yielding, job>> /\ at = "serve" /\ at' \in {"submit", "lease"}
        /\ (Unload \/ UNCHANGED <<model, budget, queue, live>>)
    BY <1>7 DEF Ensure
  <2>2. job \in Requests
    BY <2>1 DEF SchedFits
  <2>3. CASE Unload
    BY <1>u, <2>1, <2>2, <2>3 DEF SchedFits
  <2>4. CASE UNCHANGED <<model, budget, queue, live>>
    BY <2>1, <2>2, <2>4 DEF SchedFits
  <2> QED BY <2>1, <2>3, <2>4
<1>8. CASE Serve
  <2>1. UNCHANGED <<inbox, yielding, model, budget, live>> /\ job \in Requests
    BY <1>8 DEF Serve, SchedFits
  <2>2. CASE NeedsDrain(job)
    BY <1>8, <2>1, <2>2 DEF Serve, SchedFits
  <2>3. CASE ~NeedsDrain(job)
    <3>1. Accept
      BY <1>8, <2>3 DEF Serve
    <3> QED BY <2>1, <3>1, AcceptFits DEF SchedFits
  <2> QED BY <2>2, <2>3
<1>9. CASE Drained
  <2>1. UNCHANGED <<inbox, yielding, model, live>> /\ job \in Requests
    BY <1>9 DEF Drained, SchedFits
  <2>2. CASE job \in Embeds
    BY <1>9, <2>1, <2>2 DEF Drained, EndJob, SchedFits
  <2>3. CASE job \notin Embeds
    <3>1. Accept /\ budget' \in BOOLEAN
      BY <1>9, <2>3 DEF Drained
    <3> QED BY <2>1, <3>1, AcceptFits DEF SchedFits
  <2> QED BY <2>2, <2>3
<1>10. CASE CheckYield
  <2>1. /\ UNCHANGED <<inbox, model, budget, live, job>> /\ yielding' = FALSE
        /\ at' \in {"unload", "pump", "look"} /\ (queue' = <<>> \/ queue' = queue)
    BY <1>10 DEF CheckYield
  <2>2. queue' \in Seq(Requests) /\ Len(queue') <= QueueCap
    BY <1>q, <2>1 DEF SchedFits
  <2> QED BY <2>1, <2>2 DEF SchedFits
<1>11. CASE Unloaded \/ IdleTimeout
  <2>1. UNCHANGED <<inbox, yielding, job>> /\ at' \in {"look", "check"} /\ Unload
    BY <1>11 DEF Unloaded, IdleTimeout
  <2> QED BY <1>u, <2>1 DEF SchedFits
<1>12. CASE Pump
  <2>1. PICK ended \in SUBSET Admitted.live : live' = Admitted.live \ ended
    BY <1>12 DEF Pump
  <2>2. /\ UNCHANGED <<inbox, yielding, model, budget, job>> /\ queue' = Admitted.queue
        /\ at' \in {"look", "drain", "unload"} /\ (at' = "drain" => at = "drain")
    BY <1>12 DEF Pump, AfterStep
  <2>3. live' \in SUBSET Requests /\ IsFiniteSet(live') /\ Cardinality(live') <= Slots
    <3>1. live' \in SUBSET Admitted.live /\ IsFiniteSet(Admitted.live)
          /\ Cardinality(Admitted.live) <= Slots /\ Admitted.live \in SUBSET Requests
      BY <2>1, AdmittedFits
    <3>2. IsFiniteSet(live') /\ Cardinality(live') <= Cardinality(Admitted.live)
      BY <3>1, FS_Subset
    <3>3. Cardinality(live') \in Nat /\ Cardinality(Admitted.live) \in Nat
      BY <3>1, <3>2, FS_CardinalityType
    <3> QED BY <1>0, <3>1, <3>2, <3>3
  <2> QED BY <2>2, <2>3, AdmittedFits DEF SchedFits
<1>13. CASE PumpFails
  <2>1. /\ UNCHANGED <<inbox, yielding, model, budget>> /\ queue' = Admitted.queue /\ live' = {}
        /\ at' \in {"look", "check", "unload"} /\ (job' = job \/ job' = None)
    BY <1>13 DEF PumpFails, AfterStep
  <2> QED BY <1>0, <1>e, <2>1, AdmittedFits DEF SchedFits
<1>14. CASE UNCHANGED vars
  BY <1>1, <1>14 DEF vars, thread
<1> QED BY <1>2, <1>3, <1>4, <1>5, <1>6, <1>7, <1>8, <1>9, <1>10, <1>11, <1>12, <1>13, <1>14
     DEF Next, Thread

-----------------------------------------------------------------------------
(* What follows.                                                           *)

\* Every variable keeps its type and its bound: the inbox its capacity, the
\* scheduler its slots and its queue, the line no more runs than there are,
\* for any number of requests, which the code does not bound (session.rs:
\* Worker::serve, scheduler.rs: pump).
THEOREM TypeCorrect == Spec => []TypeOK
<1>1. Init => SchedFits
  <2>1. IsFiniteSet({}) /\ Cardinality({}) = 0 /\ Len(<<>>) = 0 /\ <<>> \in Seq(Requests)
    BY FS_EmptySet
  <2>2. Slots \in Nat /\ QueueCap \in Nat /\ InboxCap \in Nat
    BY SessionAssumption, PermitsNat DEF InboxCap
  <2> SUFFICES ASSUME Init PROVE SchedFits
    OBVIOUS
  <2>3. inbox = <<>> /\ queue = <<>> /\ live = {} /\ at = "look" /\ job = None /\ model = None
        /\ yielding = FALSE /\ budget = FALSE
    BY DEF Init
  <2>4. Len(inbox) <= InboxCap /\ Len(queue) <= QueueCap /\ queue \in Seq(Requests)
    BY <2>1, <2>2, <2>3
  <2>5. live \in SUBSET Requests /\ IsFiniteSet(live) /\ Cardinality(live) <= Slots
    BY <2>1, <2>2, <2>3
  <2> QED BY <2>3, <2>4, <2>5 DEF SchedFits
<1>2. Inv /\ SchedFits => TypeOK
  <2> SUFFICES ASSUME Inv, SchedFits PROVE TypeOK
    OBVIOUS
  <2>1. free \in 0 .. Permits
    <3>1. PICK t \in Nat : t = Cardinality(Training)
      BY TrainingFinite
    <3>2. free \in Nat /\ Leased \in Nat
      BY DEF Inv, Types, Leased
    <3>3. t + Leased + free = Permits
      BY <3>1 DEF Inv, PermitsAdd
    <3> QED BY <3>2, <3>3, PermitsNat
  <2>2. Len(line) <= Cardinality(Runs)
    <3>1. Len(line) \in Nat /\ line \in [1 .. Len(line) -> Runs]
          /\ \A i, j \in 1 .. Len(line) : line[i] = line[j] => i = j
      BY DEF Inv, Types, LineFits
    <3>2. line \in Injection(1 .. Len(line), Runs)
      BY <3>1 DEF Injection, IsInjective
    <3>3. Cardinality(1 .. Len(line)) <= Cardinality(Runs)
      BY <3>2, SessionAssumption, FS_Injection
    <3>4. Cardinality(1 .. Len(line)) = Len(line)
      BY <3>1, FS_Interval
    <3> QED BY <3>3, <3>4
  <2> QED BY <2>1, <2>2 DEF Inv, Types, SchedFits, TypeOK, RunPlaces
<1> QED BY <1>1, <1>2, SchedStep, InitInv, InvStep, PTL DEF Spec

\* Weights are on the device only under a permit, and no permit is lost or
\* made up, whatever number of runs queues for however many permits
\* (session.rs:20-26, worker.rs:46-65).
THEOREM DeviceAlwaysFits == Spec => []DeviceFits
<1>1. Inv => DeviceFits
  BY DEF Inv, LeaseFitsThread, LineFits, PermitsAdd, Leased, Training, DeviceFits
<1> QED BY <1>1, InvHolds, PTL

\* The thread blocks over a raised flag only while the run that raised it has
\* still its Wake to send (session.rs:504-509).
THEOREM YieldsAreSeen == Spec => []NoYieldSleptThrough
<1>1. Inv => NoYieldSleptThrough
  BY DEF Inv, YieldIsSeen, NoYieldSleptThrough
<1> QED BY <1>1, InvHolds, PTL

\* No stream in flight is lost to a yield or to the idle bound: only a change
\* of base model drops one (session.rs:23).
THEOREM StreamsSurviveYields == Spec => InFlightSurvivesYield
<1> DEFINE Survives == \A r \in Requests : st[r] # "lost" /\ st'[r] = "lost"
                          => at = "serve" /\ Base(job) # model
<1>1. Inv /\ [Next]_vars => [Survives]_vars
  <2> SUFFICES ASSUME Inv, Next, NEW r \in Requests, st[r] # "lost", st'[r] = "lost"
               PROVE  at = "serve" /\ Base(job) # model
    OBVIOUS
  <2>0. st \in [Requests -> {"new", "sent", "open"} \cup Final]
    BY DEF Inv, Types
  <2>1. \A rs, what : what # "lost" => st' # Settle(rs, what)
    BY <2>0 DEF Settle
  <2>2. CASE Ensure
    BY <2>2 DEF Ensure
  <2>3. CASE IdleTimeout \/ Unloaded
    <3>1. InScheduler = {}
      BY <2>3 DEF IdleTimeout, Unloaded, Busy, Inv, LeaseFitsThread
    <3>2. st' = Settle({}, "lost")
      BY <2>3, <3>1 DEF IdleTimeout, Unloaded, Unload
    <3> QED BY <2>0, <3>2 DEF Settle, Listening
  <2>4. CASE \/ Thread /\ ~Ensure /\ ~Unloaded
             \/ \E u \in Runs : RunStep(u)
    <3>1. st' = st \/ \E rs, what : what # "lost" /\ st' = Settle(rs, what)
      BY <2>4 DEF Thread, Receive, ReceiveNothing, TakeLease, LeaseRefused, Load, LoadFails,
         Serve, Drained, CheckYield, Pump, PumpFails, EndJob, Accept, RunStep, TryStart, Ask,
         RaiseFlag, SendWake, Join, Finish, device
    <3> QED BY <2>1, <3>1
  <2>5. ASSUME NEW q \in Requests, Submit(q) \/ Leave(q) PROVE FALSE
    BY <2>0, <2>5 DEF Submit, Leave
  <2> QED BY <2>2, <2>3, <2>4, <2>5 DEF Next, Thread
<1> QED BY <1>1, InvHolds, PTL DEF Spec, InFlightSurvivesYield

=============================================================================
