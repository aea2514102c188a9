-------------------------- MODULE EventStreamProofs --------------------------
(***************************************************************************)
(* What the clients of a run's events are shown, proved for any number of  *)
(* events, of connections and of handlers, and every size of the ring, of  *)
(* the channel and of a page.                                              *)
(*                                                                         *)
(* The invariant says where each copy of an event stands against the log:  *)
(* the log numbers its events, the ring is the end of it and the channel   *)
(* the beginning, each behind by what the emission under way has not       *)
(* reached (LogFits, RingFits, ChannelFits); a replay is what the log has  *)
(* next after the last frame and reaches the events the subscription will  *)
(* not receive (StreamFits); what a connection was shown ends at conn.last *)
(* (FramesFit); a puller has the metrics of a prefix of the log (PullFits).*)
(***************************************************************************)
EXTENDS EventStream, SubsequenceProofs, TLAPS

Event == [seq : Nat, kind : Kinds]
EmitterStages == {"appended", "pushed", "sent"}

\* The log numbers its events; the emission under way is of its last one.
LogFits ==
    /\ run \in [driven : BOOLEAN, metrics : 0 .. MaxMetrics, over : BOOLEAN]
    /\ pending \subseteq Handlers
    /\ journal \in Seq(Event)
    /\ \A i \in 1 .. LastSeq : journal[i].seq = i
    /\ LastSeq <= run.metrics + (IF run.over THEN 1 ELSE 0) + Cardinality(Handlers \ pending)
    /\ next_seq = IF run.driven THEN LastSeq + 1 ELSE 1
    /\ emission \in [by : Handlers \cup {"worker", Nobody}, stage : EmitterStages \cup {"none"}, event : Event]
    /\ Free => emission = NoEmission
    /\ ~Free => /\ run.driven /\ emission.stage \in EmitterStages
                /\ LastSeq # 0 /\ emission.event = journal[LastSeq]

Ends(last) == \E i \in 1 .. last : journal[i].kind = "terminal"

\* The end is published after it is logged; a restored run has ended.
EndFits ==
    /\ finished \in BOOLEAN
    /\ finished => ~run.driven \/ Ends(LastSeq)

\* What was sent is the beginning of the log.
ChannelFits ==
    /\ channel \in Seq(Event)
    /\ Len(channel) = IF ~run.driven THEN 0
                      ELSE IF emission.stage \in {"appended", "pushed"} THEN LastSeq - 1 ELSE LastSeq
    /\ \A i \in 1 .. Len(channel) : channel[i] = journal[i]

\* What the ring holds is the end of the log, up to the event being appended.
Pushed == IF emission.stage = "appended" THEN LastSeq - 1 ELSE LastSeq
RingFits ==
    /\ ring \in Seq(Event)
    /\ Len(ring) <= EventRing /\ Len(ring) <= Pushed
    /\ \A i \in 1 .. Len(ring) : ring[i] = journal[Pushed - Len(ring) + i]

\* The client's connection.  A replay continues the last frame, as far as the
\* subscription does not reach back; a stream that follows has nothing between
\* its last frame and its cursor that a notice does not tell of.
Complete(last) == Ends(last) \/ (~run.driven /\ last = LastSeq)
Streams == [pc : Connected \cup {"away", "ended"}, since : Nat, last : Nat, cursor : Nat,
            over : BOOLEAN, replay : Seq(Event), count : 0 .. MaxConnects]

StreamType ==
    /\ conn \in Streams
    /\ conn.since <= conn.last /\ conn.last <= LastSeq /\ conn.cursor <= LastSeq + 1
    /\ conn.pc \in Connected => conn.cursor \in 1 .. Len(channel) + 1

StreamFits ==
    /\ conn.pc \in {"subscribed", "sampled", "reading"} => conn.last = conn.since
    /\ conn.pc \in {"sampled", "reading"} /\ conn.over => Complete(LastSeq)
    /\ conn.pc = "replaying" =>
          LET reached == conn.last + Len(conn.replay)
          IN  /\ reached <= LastSeq /\ conn.cursor <= reached + 1
              /\ \A i \in 1 .. Len(conn.replay) : conn.replay[i] = journal[conn.last + i]
              /\ conn.over => Complete(reached)
    /\ conn.pc = "following" =>
          \/ conn.cursor <= conn.last + 1
          \/ frames # <<>> /\ frames[Len(frames)] = LaggedFrame(conn.last)
    /\ conn.pc = "ended" => Complete(conn.last)

\* The frames: the last event shown is conn.last.
IsShown(i) == frames[i].kind = "event"
Frame == [kind : {"event", "lagged"}, at : Nat]
FramesFit ==
    /\ frames \in Seq(Frame)
    /\ \A i \in 1 .. Len(frames) :
          /\ frames[i].at <= conn.last
          /\ IsShown(i) => frames[i].at > conn.since
    /\ conn.last = conn.since \/ \E i \in 1 .. Len(frames) : IsShown(i) /\ frames[i].at = conn.last

PullFits ==
    /\ pull \in [since : Nat, got : Seq(Nat)]
    /\ pull.since <= LastSeq
    /\ pull.got = Seqs(MetricsIn(SubSeq(journal, 1, pull.since)))

LogInv == LogFits /\ EndFits /\ ChannelFits /\ RingFits
StreamInv == StreamType /\ StreamFits /\ FramesFit /\ GapsAreAnnounced
Inv == LogInv /\ StreamInv /\ PullFits

(* Operators on the events.                                                 *)

\* The events after one, of events that are numbered without a gap.
LEMMA AfterIsRest ==
    ASSUME NEW s \in Seq(Event), NEW off \in Nat, \A i \in 1 .. Len(s) : s[i].seq = off + i,
           NEW since \in Nat, off <= since, since <= off + Len(s)
    PROVE  EventsAfter(s, since) = SubSeq(s, since - off + 1, Len(s))
<1> DEFINE m == since - off
<1>1. m \in 0 .. Len(s) /\ Len(s) \in 0 .. Len(s) /\ DOMAIN s = 1 .. Len(s)
  OBVIOUS
<1>2. {i \in DOMAIN s : s[i].seq > since} = m + 1 .. Len(s)
  BY <1>1
<1> HIDE DEF m
<1>3. Kept(s, m + 1 .. Len(s)) = SubSeq(s, m + 1, Len(s))
  BY <1>1, KeptInterval
<1> QED BY <1>2, <1>3 DEF EventsAfter, m

----------------------------------------------------------------------------
(* The publication.                                                         *)

\* The log goes on, and nothing a reader holds is touched.
Grows ==
    /\ UNCHANGED <<conn, frames, pull>> /\ run'.driven = run.driven
    /\ LastSeq <= LastSeq' /\ \A i \in 1 .. LastSeq : journal'[i] = journal[i]
    /\ Len(channel) <= Len(channel')
    /\ ~run.driven => LastSeq' = LastSeq

\* An event is numbered and logged.
LEMMA AppendKeepsLog ==
    ASSUME LogInv, NEW who \in Handlers \cup {"worker"}, NEW kind \in Kinds, AppendEvent(who, kind),
           run' \in [driven : BOOLEAN, metrics : 0 .. MaxMetrics, over : BOOLEAN],
           run'.driven = run.driven, pending' \in SUBSET Handlers,
           LastSeq + 1 <= run'.metrics + (IF run'.over THEN 1 ELSE 0) + Cardinality(Handlers \ pending')
    PROVE  /\ LogInv' /\ LastSeq' = LastSeq + 1 /\ UNCHANGED channel
           /\ \A i \in 1 .. LastSeq : journal'[i] = journal[i]
<1> DEFINE e == [seq |-> next_seq, kind |-> kind]
<1>1. /\ run.driven /\ Free /\ next_seq = LastSeq + 1 /\ LastSeq \in Nat /\ journal \in Seq(Event)
      /\ emission.stage = "none" /\ who # Nobody
  BY SizesAssumption DEF LogInv, LogFits, AppendEvent, Numbered, NoEmission, LastSeq
<1>2. e \in Event
  BY <1>1 DEF Event
<1>2a. emission' = [by |-> who, stage |-> "appended", event |-> e] /\ journal' = Append(journal, e)
  BY <1>1 DEF AppendEvent, Numbered
<1>3. next_seq' = LastSeq + 1 + 1 /\ ring' = ring /\ channel' = channel /\ finished' = finished
  BY <1>1 DEF AppendEvent, Numbered
<1>4. journal' \in Seq(Event) /\ LastSeq' = LastSeq + 1 /\ journal'[LastSeq + 1] = e
  BY <1>1, <1>2, <1>2a DEF LastSeq
<1>4a. \A i \in 1 .. LastSeq : journal'[i] = journal[i]
  BY <1>1, <1>2, <1>2a DEF LastSeq
<1>5. ~Free' /\ emission'.stage = "appended" /\ emission'.event = e /\ e.seq = LastSeq + 1
      /\ emission' \in [by : Handlers \cup {"worker", Nobody}, stage : EmitterStages \cup {"none"}, event : Event]
  BY <1>1, <1>2, <1>2a DEF Free, EmitterStages
<1> HIDE DEF e
<1>6. LogFits'
  <2>1. \A i \in 1 .. LastSeq' : journal'[i].seq = i
    <3>1. \A i \in 1 .. LastSeq : journal[i].seq = i
      BY DEF LogInv, LogFits
    <3> QED BY <1>1, <1>4, <1>4a, <1>5, <3>1
  <2>2. next_seq' = IF run'.driven THEN LastSeq' + 1 ELSE 1
    BY <1>1, <1>3, <1>4
  <2>3. run'.driven /\ emission'.stage \in EmitterStages /\ LastSeq' # 0
        /\ emission'.event = journal'[LastSeq']
    BY <1>1, <1>4, <1>5 DEF EmitterStages
  <2> QED BY <1>4, <1>5, <2>1, <2>2, <2>3 DEF LogFits
<1>7. EndFits'
  <2>1. finished \in BOOLEAN /\ (finished => \E i \in 1 .. LastSeq : journal[i].kind = "terminal")
    BY <1>1 DEF LogInv, EndFits, Ends
  <2>2. finished => \E i \in 1 .. LastSeq' : journal'[i].kind = "terminal"
    BY <1>1, <1>4, <1>4a, <2>1
  <2> QED BY <1>3, <2>1, <2>2 DEF EndFits, Ends
<1>8. ChannelFits'
  <2>1. channel \in Seq(Event) /\ Len(channel) = LastSeq /\ \A i \in 1 .. Len(channel) : channel[i] = journal[i]
    BY <1>1 DEF LogInv, ChannelFits
  <2>2. Len(channel') = LastSeq' - 1 /\ run'.driven
    BY <1>1, <1>3, <1>4, <2>1
  <2>3. \A i \in 1 .. Len(channel') : channel'[i] = journal'[i]
    BY <1>3, <1>4a, <2>1
  <2> QED BY <1>3, <1>5, <2>1, <2>2, <2>3 DEF ChannelFits
<1>9. RingFits'
  <2>1. /\ ring \in Seq(Event) /\ Len(ring) <= EventRing /\ Len(ring) <= LastSeq
        /\ \A i \in 1 .. Len(ring) : ring[i] = journal[LastSeq - Len(ring) + i]
    BY <1>1 DEF LogInv, RingFits, Pushed
  <2>2. Pushed' = LastSeq
    BY <1>1, <1>4, <1>5 DEF Pushed
  <2>3. \A i \in 1 .. Len(ring) : ring[i] = journal'[LastSeq - Len(ring) + i]
    <3>1. Len(ring) \in Nat
      BY <2>1
    <3>2. \A i \in 1 .. Len(ring) : LastSeq - Len(ring) + i \in 1 .. LastSeq
      BY <1>1, <2>1, <3>1
    <3> QED BY <1>4a, <2>1, <3>2
  <2> QED BY <1>3, <2>1, <2>2, <2>3 DEF RingFits
<1> QED BY <1>3, <1>4, <1>4a, <1>6, <1>7, <1>8, <1>9 DEF LogInv

\* The loop or a handler emits.
LEMMA EmitGrows ==
    ASSUME LogInv, WorkerEmits \/ \E h \in Handlers : HandlerEmits(h)
    PROVE  LogInv' /\ Grows
<1>0. /\ run \in [driven : BOOLEAN, metrics : 0 .. MaxMetrics, over : BOOLEAN] /\ MaxMetrics \in Nat
      /\ pending \in SUBSET Handlers /\ LastSeq \in Nat
      /\ LastSeq <= run.metrics + (IF run.over THEN 1 ELSE 0) + Cardinality(Handlers \ pending)
  BY SizesAssumption DEF LogInv, LogFits, LastSeq
<1>1. IsFiniteSet(Handlers \ pending) /\ Cardinality(Handlers \ pending) \in Nat
  BY RoomAssumption, FS_Difference, FS_CardinalityType
<1> DEFINE c == Cardinality(Handlers \ pending)
<1>2. ASSUME NEW who \in Handlers \cup {"worker"}, NEW kind \in Kinds, AppendEvent(who, kind),
             run' \in [driven : BOOLEAN, metrics : 0 .. MaxMetrics, over : BOOLEAN],
             run'.driven = run.driven, pending' \in SUBSET Handlers,
             LastSeq + 1 <= run'.metrics + (IF run'.over THEN 1 ELSE 0) + Cardinality(Handlers \ pending'),
             UNCHANGED <<conn, frames, pull>>
      PROVE  LogInv' /\ Grows
  <2>1. LogInv' /\ LastSeq' = LastSeq + 1 /\ channel' = channel
        /\ \A i \in 1 .. LastSeq : journal'[i] = journal[i]
    BY <1>2, AppendKeepsLog
  <2>2. run.driven
    BY <1>2 DEF AppendEvent, Numbered
  <2>3. Len(channel) \in Nat
    BY DEF LogInv, ChannelFits
  <2> QED BY <1>0, <1>2, <2>1, <2>2, <2>3 DEF Grows
<1>3. ASSUME WorkerEmits, NEW kind \in {"metrics", "terminal"}, AppendEvent("worker", kind),
             \/ run' = [run EXCEPT !.metrics = @ + 1] /\ run.metrics < MaxMetrics
             \/ run' = [run EXCEPT !.over = TRUE]
      PROVE  LogInv' /\ Grows
  <2>1. ~run.over /\ UNCHANGED <<pending, conn, frames, pull>>
    BY <1>3 DEF WorkerEmits
  <2>2. /\ run' \in [driven : BOOLEAN, metrics : 0 .. MaxMetrics, over : BOOLEAN]
        /\ run'.driven = run.driven
        /\ run'.metrics + (IF run'.over THEN 1 ELSE 0) = run.metrics + 1
    <3>1. CASE run' = [run EXCEPT !.metrics = @ + 1] /\ run.metrics < MaxMetrics
      BY <1>0, <2>1, <3>1
    <3>2. CASE run' = [run EXCEPT !.over = TRUE]
      BY <1>0, <2>1, <3>2
    <3> QED BY <1>3, <3>1, <3>2
  <2>3. run.metrics \in Nat /\ LastSeq <= run.metrics + c
    BY <1>0, <1>1, <2>1
  <2>4. LastSeq + 1 <= run.metrics + 1 + c
    BY <1>0, <1>1, <2>3
  <2>5. kind \in Kinds
    BY DEF Kinds
  <2>6. Cardinality(Handlers \ pending') = c
    BY <2>1
  <2> QED BY <1>0, <1>2, <1>3, <2>1, <2>2, <2>4, <2>5, <2>6
<1>4. CASE WorkerEmits
  BY <1>3, <1>4 DEF WorkerEmits
<1>5. ASSUME NEW h \in Handlers, HandlerEmits(h) PROVE LogInv' /\ Grows
  <2>1. h \in pending /\ AppendEvent(h, "other") /\ pending' = pending \ {h}
        /\ UNCHANGED <<run, conn, frames, pull>>
    BY <1>5 DEF HandlerEmits
  <2>2. Handlers \ pending' = (Handlers \ pending) \cup {h} /\ h \notin Handlers \ pending
    BY <2>1
  <2>3. Cardinality(Handlers \ pending') = c + 1
    BY <1>1, <2>2, FS_AddElement
  <2>4. LastSeq + 1 <= run.metrics + (IF run.over THEN 1 ELSE 0) + (c + 1)
    BY <1>0, <1>1
  <2>5. "other" \in Kinds /\ pending' \in SUBSET Handlers
    BY <1>0, <2>1 DEF Kinds
  <2>6. run' = run
    BY <2>1
  <2> QED BY <1>0, <1>2, <2>1, <2>3, <2>4, <2>5, <2>6
<1> QED BY <1>4, <1>5

\* The event under way goes on the ring, then out, then the lock is released.
LEMMA PublishGrows == ASSUME LogInv, Publish PROVE LogInv' /\ Grows
<1>0. /\ journal \in Seq(Event) /\ LastSeq \in Nat /\ EventRing \in Nat \ {0}
      /\ emission \in [by : Handlers \cup {"worker", Nobody}, stage : EmitterStages \cup {"none"}, event : Event]
      /\ ring \in Seq(Event) /\ Len(ring) \in Nat /\ channel \in Seq(Event) /\ Len(channel) \in Nat
  BY SizesAssumption DEF LogInv, LogFits, LastSeq, RingFits, ChannelFits
<1>1. ~Free /\ UNCHANGED <<run, pending, next_seq, journal, conn, frames, pull>>
  BY DEF Publish, PushRing, Broadcast, PublicationEnds, Emitting
<1>2. run.driven /\ LastSeq # 0 /\ emission.event = journal[LastSeq] /\ LastSeq' = LastSeq
  BY <1>1 DEF LogInv, LogFits, LastSeq
<1>3. ASSUME Len(channel) <= Len(channel') PROVE Grows
  BY <1>0, <1>1, <1>2, <1>3 DEF Grows
<1>4. ASSUME NEW stage \in {"pushed", "sent"}, emission' = [emission EXCEPT !.stage = stage] PROVE LogFits'
  <2>1. emission' \in [by : Handlers \cup {"worker", Nobody}, stage : EmitterStages \cup {"none"}, event : Event]
        /\ emission'.stage \in EmitterStages /\ emission'.by = emission.by /\ emission'.event = emission.event
    BY <1>0, <1>4 DEF EmitterStages
  <2>2. ~Free'
    BY <1>1, <2>1 DEF Free
  <2> QED BY <1>1, <1>2, <2>1, <2>2 DEF LogInv, LogFits
<1>5. CASE PushRing
  <2> DEFINE kept == IF Len(ring) = EventRing THEN Tail(ring) ELSE ring
  <2>1. /\ emission.stage = "appended" /\ ring' = Append(kept, emission.event)
        /\ emission' = [emission EXCEPT !.stage = "pushed"] /\ UNCHANGED <<channel, finished>>
    BY <1>5 DEF PushRing, Emitting
  <2>2. emission'.stage = "pushed"
    BY <1>0, <2>1
  <2>3. Len(ring) <= EventRing /\ Len(ring) <= LastSeq - 1
        /\ \A i \in 1 .. Len(ring) : ring[i] = journal[LastSeq - 1 - Len(ring) + i]
    BY <2>1 DEF LogInv, RingFits, Pushed
  <2>4. /\ kept \in Seq(Event) /\ Len(kept) \in Nat /\ Len(kept) + 1 <= EventRing /\ Len(kept) <= LastSeq - 1
        /\ \A i \in 1 .. Len(kept) : kept[i] = journal[LastSeq - 1 - Len(kept) + i]
    <3>1. CASE Len(ring) = EventRing
      <4>1. kept = Tail(ring) /\ ring # <<>> /\ kept \in Seq(Event) /\ Len(kept) = Len(ring) - 1
        BY <1>0, <3>1
      <4> HIDE DEF kept
      <4>2. \A i \in 1 .. Len(kept) : kept[i] = ring[i + 1] /\ i + 1 \in 1 .. Len(ring)
        BY <1>0, <4>1
      <4>3. \A i \in 1 .. Len(kept) : LastSeq - 1 - Len(ring) + (i + 1) = LastSeq - 1 - Len(kept) + i
        BY <1>0, <4>1
      <4>4. Len(kept) \in Nat /\ Len(kept) + 1 <= EventRing /\ Len(kept) <= LastSeq - 1
        BY <1>0, <2>3, <3>1, <4>1
      <4>5. \A i \in 1 .. Len(kept) : kept[i] = journal[LastSeq - 1 - Len(ring) + (i + 1)]
        BY <2>3, <4>2
      <4> QED BY <4>1, <4>3, <4>4, <4>5
    <3>2. CASE Len(ring) # EventRing
      <4>1. kept = ring
        BY <3>2
      <4> HIDE DEF kept
      <4>2. Len(ring) + 1 <= EventRing
        BY <1>0, <2>3, <3>2
      <4> QED BY <1>0, <2>3, <4>1, <4>2
    <3> QED BY <3>1, <3>2
  <2> HIDE DEF kept
  <2>5. /\ ring' \in Seq(Event) /\ Len(ring') = Len(kept) + 1
        /\ \A i \in 1 .. Len(kept) : ring'[i] = kept[i]
        /\ ring'[Len(kept) + 1] = journal[LastSeq]
    BY <1>0, <1>2, <2>1, <2>4
  <2>6. \A i \in 1 .. Len(ring') : ring'[i] = journal[LastSeq - Len(ring') + i]
    <3> TAKE i \in 1 .. Len(ring')
    <3>1. CASE i = Len(kept) + 1
      <4>1. LastSeq - Len(ring') + i = LastSeq
        BY <1>0, <2>4, <2>5, <3>1
      <4> QED BY <2>5, <3>1, <4>1
    <3>2. CASE i \in 1 .. Len(kept)
      <4>1. LastSeq - 1 - Len(kept) + i = LastSeq - Len(ring') + i
        BY <1>0, <2>4, <2>5, <3>2
      <4> QED BY <2>4, <2>5, <3>2, <4>1
    <3> QED BY <2>4, <2>5, <3>1, <3>2
  <2>7. Pushed' = LastSeq'
    BY <2>2 DEF Pushed
  <2>8. RingFits'
    BY <1>0, <1>1, <1>2, <2>4, <2>5, <2>6, <2>7 DEF RingFits
  <2>9. ChannelFits' /\ EndFits'
    BY <1>1, <1>2, <2>1, <2>2 DEF LogInv, ChannelFits, EndFits, Ends
  <2> QED BY <1>0, <1>3, <1>4, <2>1, <2>8, <2>9 DEF LogInv
<1>6. CASE Broadcast
  <2>1. /\ emission.stage = "pushed" /\ channel' = Append(channel, emission.event)
        /\ emission' = [emission EXCEPT !.stage = "sent"] /\ UNCHANGED <<ring, finished>>
    BY <1>6 DEF Broadcast, Emitting
  <2>2. emission'.stage = "sent"
    BY <1>0, <2>1
  <2>3. Len(channel) = LastSeq - 1 /\ \A i \in 1 .. Len(channel) : channel[i] = journal[i]
    BY <1>2, <2>1 DEF LogInv, ChannelFits
  <2>4. /\ channel' \in Seq(Event) /\ Len(channel') = Len(channel) + 1
        /\ (\A i \in 1 .. Len(channel) : channel'[i] = channel[i])
        /\ channel'[Len(channel) + 1] = journal[LastSeq]
    BY <1>0, <1>2, <2>1
  <2>5. Len(channel') = LastSeq /\ \A i \in 1 .. Len(channel') : channel'[i] = journal[i]
    BY <1>0, <2>3, <2>4
  <2>6. ChannelFits'
    BY <1>1, <1>2, <2>2, <2>4, <2>5 DEF ChannelFits
  <2>7. Pushed' = Pushed
    BY <1>2, <2>1, <2>2 DEF Pushed
  <2>8. RingFits' /\ EndFits'
    BY <1>1, <1>2, <2>1, <2>7 DEF LogInv, RingFits, EndFits, Ends
  <2> QED BY <1>0, <1>3, <1>4, <2>1, <2>4, <2>6, <2>8 DEF LogInv
<1>7. CASE PublicationEnds
  <2>1. /\ emission.stage = "sent" /\ finished' = (finished \/ emission.event.kind = "terminal")
        /\ emission' = NoEmission /\ UNCHANGED <<ring, channel>>
    BY <1>7 DEF PublicationEnds, Emitting
  <2>2. emission'.stage = "none" /\ Free' /\ NoEmission.event \in Event
    BY <2>1 DEF NoEmission, Free, Event, Kinds
  <2>3. LogFits'
    BY <1>1, <1>2, <2>1, <2>2 DEF LogInv, LogFits, NoEmission
  <2>4. EndFits'
    <3>1. emission.event.kind = "terminal" => \E i \in 1 .. LastSeq : journal[i].kind = "terminal"
      BY <1>0, <1>2
    <3> QED BY <1>1, <1>2, <2>1, <3>1 DEF LogInv, EndFits, Ends
  <2>5. Pushed' = Pushed
    BY <1>2, <2>1, <2>2 DEF Pushed
  <2>6. RingFits' /\ ChannelFits'
    BY <1>1, <1>2, <2>1, <2>2, <2>5 DEF LogInv, RingFits, ChannelFits
  <2> QED BY <1>0, <1>3, <2>1, <2>3, <2>4, <2>6 DEF LogInv
<1> QED BY <1>5, <1>6, <1>7 DEF Publish

\* What was shown, while nothing more is.
LEMMA FramesStay ==
    ASSUME FramesFit, GapsAreAnnounced,
           frames' = frames, conn'.last = conn.last, conn'.since = conn.since
    PROVE  FramesFit' /\ GapsAreAnnounced'
<1>1. FramesFit'
  BY DEF FramesFit, IsShown
<1>2. \A i \in DOMAIN frames : SeenBefore(i)' = SeenBefore(i)
  BY DEF SeenBefore
<1>3. GapsAreAnnounced'
  BY <1>2 DEF GapsAreAnnounced
<1> QED BY <1>1, <1>3

\* What readers hold of the log stays so while it goes on.
LEMMA GrowsKeepsReaders ==
    ASSUME LogInv, StreamInv, PullFits, Grows, LogInv'
    PROVE  StreamInv' /\ PullFits'
<1>0. /\ LastSeq \in Nat /\ LastSeq' \in Nat /\ LastSeq <= LastSeq' /\ conn \in Streams
      /\ conn' = conn /\ frames' = frames /\ pull' = pull /\ run'.driven = run.driven
      /\ \A i \in 1 .. LastSeq : journal'[i] = journal[i]
      /\ journal \in Seq(Event) /\ journal' \in Seq(Event)
  BY DEF Grows, LogInv, LogFits, LastSeq, StreamInv, StreamType
<1>1. /\ conn.last \in Nat /\ conn.since \in Nat /\ conn.cursor \in Nat /\ conn.last <= LastSeq
      /\ conn.replay \in Seq(Event) /\ Len(conn.replay) \in Nat
  BY <1>0 DEF Streams, StreamInv, StreamType
<1>2. StreamType'
  <2>1. Len(channel) \in Nat /\ Len(channel') \in Nat /\ Len(channel) <= Len(channel')
    BY DEF Grows, LogInv, ChannelFits
  <2>2. conn.cursor \in 1 .. Len(channel) + 1 => conn.cursor \in 1 .. Len(channel') + 1
    BY <1>1, <2>1
  <2>3. conn.last <= LastSeq' /\ (conn.cursor <= LastSeq + 1 => conn.cursor <= LastSeq' + 1)
    BY <1>0, <1>1
  <2> QED BY <1>0, <1>1, <2>2, <2>3 DEF StreamInv, StreamType
<1>3. \A x \in 0 .. LastSeq : Ends(x) => \E i \in 1 .. x : journal'[i].kind = "terminal"
  BY <1>0 DEF Ends
<1>4. ~run.driven => LastSeq' = LastSeq
  BY DEF Grows
<1>5. StreamFits'
  <2> DEFINE reached == conn.last + Len(conn.replay)
  <2>1. Complete(conn.last) => Complete(conn.last)'
    BY <1>0, <1>1, <1>3, <1>4 DEF Complete, Ends
  <2>2. Complete(LastSeq) => Complete(LastSeq)'
    BY <1>0, <1>1, <1>3, <1>4 DEF Complete, Ends
  <2>3. reached \in 0 .. LastSeq /\ Complete(reached) => Complete(reached)'
    BY <1>0, <1>1, <1>3, <1>4 DEF Complete, Ends
  <2>4. conn.pc = "replaying" =>
            /\ reached <= LastSeq /\ reached <= LastSeq'
            /\ \A i \in 1 .. Len(conn.replay) : conn.replay[i] = journal'[conn.last + i]
    <3>1. SUFFICES ASSUME conn.pc = "replaying"
                   PROVE  /\ reached <= LastSeq /\ reached <= LastSeq'
                          /\ \A i \in 1 .. Len(conn.replay) : conn.replay[i] = journal'[conn.last + i]
      OBVIOUS
    <3>2. reached <= LastSeq /\ \A i \in 1 .. Len(conn.replay) : conn.replay[i] = journal[conn.last + i]
      BY <3>1 DEF StreamInv, StreamFits
    <3>3. \A i \in 1 .. Len(conn.replay) : conn.last + i \in 1 .. LastSeq
      BY <1>0, <1>1, <3>2
    <3>4. reached <= LastSeq'
      BY <1>0, <1>1, <3>2
    <3>5. \A i \in 1 .. Len(conn.replay) : journal'[conn.last + i] = journal[conn.last + i]
      BY <1>0, <3>3
    <3> QED BY <3>2, <3>4, <3>5
  <2>5. reached \in Nat /\ reached' = reached
    BY <1>0, <1>1
  <2> HIDE DEF reached
  <2> QED BY <1>0, <1>1, <2>1, <2>2, <2>3, <2>4, <2>5 DEF StreamInv, StreamFits, reached
<1>6. FramesFit' /\ GapsAreAnnounced'
  BY <1>0, FramesStay DEF StreamInv
<1>7. PullFits'
  <2>1. pull.since \in 0 .. LastSeq /\ pull.since \in 0 .. LastSeq'
    BY <1>0 DEF PullFits
  <2>2. SubSeq(journal', 1, pull.since) = SubSeq(journal, 1, pull.since)
    BY <1>0, <2>1 DEF LastSeq
  <2>3. MetricsIn(SubSeq(journal', 1, pull.since)) = MetricsIn(SubSeq(journal, 1, pull.since))
    BY <2>2
  <2>4. pull' = pull
    BY <1>0
  <2> QED BY <2>1, <2>3, <2>4 DEF PullFits
<1> QED BY <1>2, <1>5, <1>6, <1>7 DEF StreamInv

\* A restart leaves the log and what the clients were shown.
LEMMA RestartKeepsInv == ASSUME Inv, Restart PROVE Inv'
<1>0. /\ LogInv /\ StreamInv /\ PullFits /\ LastSeq' = LastSeq /\ LastSeq \in Nat
      /\ run \in [driven : BOOLEAN, metrics : 0 .. MaxMetrics, over : BOOLEAN] /\ conn \in Streams
  BY DEF Inv, Restart, LastSeq, LogInv, LogFits, StreamInv, StreamType
<1>1. /\ run' = [run EXCEPT !.driven = FALSE] /\ pending' = {} /\ emission' = NoEmission
      /\ next_seq' = 1 /\ ring' = <<>> /\ channel' = <<>> /\ finished' = TRUE
      /\ UNCHANGED <<journal, frames, pull>>
      /\ conn' = [conn EXCEPT !.pc = IF @ \in Connected THEN "away" ELSE @, !.replay = <<>>]
  BY DEF Restart
<1>2. /\ run' \in [driven : BOOLEAN, metrics : 0 .. MaxMetrics, over : BOOLEAN] /\ ~run'.driven
      /\ run'.metrics = run.metrics /\ run'.over = run.over
  BY <1>0, <1>1
<1>3. LogFits'
  <2>1. LastSeq <= run.metrics + (IF run.over THEN 1 ELSE 0) + Cardinality(Handlers \ {})
    <3>1. /\ IsFiniteSet(Handlers \ pending) /\ IsFiniteSet(Handlers \ {})
          /\ Cardinality(Handlers \ pending) <= Cardinality(Handlers \ {})
      <4>1. Handlers \ pending \in SUBSET (Handlers \ {}) /\ IsFiniteSet(Handlers \ {})
        BY RoomAssumption
      <4> QED BY <4>1, FS_Subset
    <3>2. Cardinality(Handlers \ pending) \in Nat /\ Cardinality(Handlers \ {}) \in Nat
      BY <3>1, FS_CardinalityType
    <3>3. LastSeq <= run.metrics + (IF run.over THEN 1 ELSE 0) + Cardinality(Handlers \ pending)
          /\ run.metrics \in Nat
      BY <1>0, SizesAssumption DEF LogInv, LogFits
    <3> QED BY <1>0, <3>1, <3>2, <3>3
  <2>2. Free' /\ NoEmission \in [by : Handlers \cup {"worker", Nobody},
                                 stage : EmitterStages \cup {"none"}, event : Event]
    BY <1>1 DEF Free, NoEmission, Event, Kinds
  <2> QED BY <1>0, <1>1, <1>2, <2>1, <2>2 DEF LogInv, LogFits
<1>4. EndFits' /\ ChannelFits' /\ RingFits'
  <2>1. Pushed' = LastSeq
    BY <1>0, <1>1 DEF Pushed, NoEmission
  <2> QED BY <1>0, <1>1, <1>2, <2>1, SizesAssumption DEF EndFits, ChannelFits, RingFits
<1>5. /\ conn' \in Streams /\ conn'.since = conn.since /\ conn'.last = conn.last
      /\ conn'.cursor = conn.cursor /\ conn'.pc \in {"away", "ended"}
      /\ conn'.pc = "ended" => conn.pc = "ended"
  <2>1. conn.pc \in Connected \cup {"away", "ended"}
    BY <1>0 DEF Streams
  <2>2. (IF conn.pc \in Connected THEN "away" ELSE conn.pc) \in {"away", "ended"}
    BY <2>1
  <2>3. <<>> \in Seq(Event)
    OBVIOUS
  <2> QED BY <1>0, <1>1, <2>2, <2>3 DEF Streams
<1>6. StreamType'
  BY <1>0, <1>5 DEF StreamInv, StreamType, Connected
<1>7. StreamFits'
  <2>1. conn.pc = "ended" => Complete(conn.last)
    BY <1>0 DEF StreamInv, StreamFits
  <2>2. Complete(conn.last) => Complete(conn.last)'
    BY <1>0, <1>1, <1>2, <1>5 DEF Complete, Ends
  <2> QED BY <1>5, <2>1, <2>2 DEF StreamFits
<1>8. FramesFit' /\ GapsAreAnnounced'
  BY <1>0, <1>1, <1>5, FramesStay DEF StreamInv
<1>9. PullFits'
  BY <1>0, <1>1 DEF PullFits
<1> QED BY <1>3, <1>4, <1>6, <1>7, <1>8, <1>9 DEF Inv, LogInv, StreamInv

\* Before the first emission the log, the ring and the channel are empty, and nothing
\* was shown.
LEMMA InitInv == Init => Inv
<1> SUFFICES ASSUME Init PROVE Inv
  OBVIOUS
<1>1. LastSeq = 0 /\ Free /\ journal = <<>> /\ ring = <<>> /\ channel = <<>> /\ frames = <<>>
  BY DEF Init, LastSeq, Free, NoEmission
<1>2. LogFits
  <2>1. Cardinality(Handlers \ pending) \in Nat
    BY RoomAssumption, FS_Difference, FS_CardinalityType
  <2> QED BY <1>1, <2>1, SizesAssumption DEF Init, LogFits, NoEmission, Event, Kinds
<1>3. EndFits /\ ChannelFits /\ RingFits
  <2>1. emission.stage = "none" /\ finished = FALSE /\ Pushed = 0
    BY <1>1 DEF Init, NoEmission, Pushed
  <2>2. LastSeq = 0 /\ Len(channel) = 0 /\ Len(ring) = 0 /\ channel \in Seq(Event) /\ ring \in Seq(Event)
    BY <1>1
  <2>3. EndFits
    BY <2>1 DEF EndFits
  <2>4. ChannelFits
    <3>1. emission.stage \notin {"appended", "pushed"}
      BY <2>1
    <3> QED BY <2>2, <3>1 DEF ChannelFits
  <2>5. RingFits
    BY <2>1, <2>2, SizesAssumption DEF RingFits
  <2> QED BY <2>3, <2>4, <2>5
<1>4. StreamType /\ StreamFits
  BY <1>1, SizesAssumption DEF Init, StreamType, StreamFits, Streams, NotConnected, Connected
<1>5. FramesFit /\ GapsAreAnnounced
  BY <1>1 DEF Init, FramesFit, GapsAreAnnounced, NotConnected
<1>6. PullFits
  <2>1. SubSeq(journal, 1, 0) = <<>> /\ pull = [since |-> 0, got |-> <<>>]
    BY <1>1 DEF Init
  <2>2. MetricsIn(<<>>) = <<>>
    <3>1. Cardinality({i \in {} : <<>>[i].kind = "metrics"}) = 0
      BY FS_EmptySet
    <3>2. DOMAIN <<>> = {}
      OBVIOUS
    <3> QED BY <3>1, <3>2 DEF MetricsIn, Kept
  <2>3. Seqs(<<>>) = <<>>
    BY DEF Seqs
  <2>4. pull.since = 0 /\ pull.got = <<>> /\ pull \in [since : Nat, got : Seq(Nat)]
    BY <2>1
  <2>5. pull.got = Seqs(MetricsIn(SubSeq(journal, 1, pull.since)))
    BY <2>1, <2>2, <2>3, <2>4
  <2>6. pull.since <= LastSeq
    BY <1>1, <2>4
  <2> QED BY <2>4, <2>5, <2>6 DEF PullFits
<1> QED BY <1>2, <1>3, <1>4, <1>5, <1>6 DEF Inv, LogInv, StreamInv

----------------------------------------------------------------------------
(* The stream of a client.                                                  *)

\* A step of a reader leaves the publication as it is.
LEMMA ReadersOnlyRead ==
    ASSUME LogInv, UNCHANGED publication
    PROVE  LogInv' /\ LastSeq' = LastSeq /\ journal' = journal /\ channel' = channel /\ run' = run
<1>1. /\ run' = run /\ pending' = pending /\ emission' = emission /\ next_seq' = next_seq
      /\ journal' = journal /\ ring' = ring /\ channel' = channel /\ finished' = finished
  BY DEF publication
<1>2. LastSeq' = LastSeq /\ Free' = Free /\ Pushed' = Pushed
  BY <1>1 DEF LastSeq, Free, Pushed
<1>3. LogFits' /\ EndFits'
  BY <1>1, <1>2 DEF LogInv, LogFits, EndFits, Ends
<1>4. ChannelFits' /\ RingFits'
  BY <1>1, <1>2 DEF LogInv, ChannelFits, RingFits
<1> QED BY <1>1, <1>2, <1>3, <1>4 DEF LogInv

\* What a client was shown last is the last event on its frames.
LEMMA SeenIsLast ==
    ASSUME StreamType, FramesFit
    PROVE  SeenBefore(Len(frames) + 1) = conn.last
<1> DEFINE n == Len(frames)
           shown == {frames[j].at : j \in {k \in 1 .. n + 1 - 1 : frames[k].kind = "event"}}
<1>1. n \in Nat /\ frames \in Seq(Frame) /\ conn.last \in Nat /\ conn.since \in Nat
  BY DEF FramesFit, StreamType, Streams
<1>2. \A i \in 1 .. n : frames[i].at \in Nat /\ frames[i].at <= conn.last
                        /\ (frames[i].kind = "event" => frames[i].at > conn.since)
  <2>1. \A i \in 1 .. n : frames[i] \in Frame
    BY <1>1
  <2>2. \A i \in 1 .. n : frames[i].at \in Nat
    BY <2>1 DEF Frame
  <2> QED BY <2>2 DEF FramesFit, IsShown
<1>3. n + 1 - 1 = n
  BY <1>1
<1>4. \A x \in shown : x \in Nat /\ x <= conn.last /\ x > conn.since
  BY <1>2, <1>3
<1>5. shown # {} => conn.last \in shown
  <2>1. conn.last = conn.since => shown = {}
    <3> SUFFICES ASSUME conn.last = conn.since, NEW x \in shown PROVE FALSE
      OBVIOUS
    <3>1. x \in Nat /\ x <= conn.last /\ x > conn.since
      BY <1>4
    <3> HIDE DEF shown
    <3> QED BY <1>1, <3>1
  <2>2. ASSUME conn.last # conn.since PROVE conn.last \in shown
    <3>1. PICK i \in 1 .. n : frames[i].kind = "event" /\ frames[i].at = conn.last
      BY <2>2 DEF FramesFit, IsShown
    <3> QED BY <1>3, <3>1
  <2> QED BY <2>1, <2>2
<1>6. shown = {} => conn.last = conn.since
  <2>1. ASSUME NEW i \in 1 .. n, frames[i].kind = "event" PROVE frames[i].at \in shown
    BY <1>3, <2>1
  <2> HIDE DEF shown
  <2> QED BY <2>1 DEF FramesFit, IsShown
<1> HIDE DEF shown
<1>7. shown # {} => Max(shown) = conn.last
  <2> SUFFICES ASSUME shown # {} PROVE Max(shown) = conn.last
    OBVIOUS
  <2>1. conn.last \in shown /\ \A y \in shown : conn.last >= y
    BY <1>1, <1>4, <1>5
  <2>2. Max(shown) \in shown /\ \A y \in shown : Max(shown) >= y
    BY <2>1, Zenon DEF Max
  <2> QED BY <1>1, <1>4, <2>1, <2>2
<1>8. SeenBefore(n + 1) = IF shown = {} THEN conn.since ELSE Max(shown)
  BY DEF SeenBefore, shown
<1> QED BY <1>6, <1>7, <1>8

\* A frame is added: the next event, or one that a notice announced.
LEMMA ShownFits ==
    ASSUME StreamType, FramesFit, GapsAreAnnounced, NEW q \in Nat,
           q > conn.last, conn'.last = q, conn'.since = conn.since,
           frames' = Append(frames, [kind |-> "event", at |-> q]),
           \/ q = conn.last + 1
           \/ frames # <<>> /\ frames[Len(frames)] = LaggedFrame(conn.last)
    PROVE  FramesFit' /\ GapsAreAnnounced'
<1>0. PICK n \in Nat : n = Len(frames)
  BY DEF FramesFit
<1>1. n \in Nat /\ frames \in Seq(Frame) /\ conn.last \in Nat /\ conn.since \in Nat
      /\ conn.since <= conn.last
  BY DEF FramesFit, StreamType, Streams
<1>2. [kind |-> "event", at |-> q] \in Frame
  BY DEF Frame
<1>3. /\ frames' \in Seq(Frame) /\ Len(frames') = n + 1 /\ frames'[n + 1] = [kind |-> "event", at |-> q]
      /\ \A i \in 1 .. n : frames'[i] = frames[i]
  BY <1>0, <1>1, <1>2
<1>4. frames'[n + 1].kind = "event" /\ frames'[n + 1].at = q
  BY <1>3
<1>5. FramesFit'
  <2>1. \A i \in 1 .. n : frames[i].at \in Nat /\ frames[i].at <= conn.last
                          /\ (frames[i].kind = "event" => frames[i].at > conn.since)
    <3>1. \A i \in 1 .. n : frames[i] \in Frame
      BY <1>0, <1>1
    <3>2. \A i \in 1 .. n : frames[i].at \in Nat
      BY <3>1 DEF Frame
    <3> QED BY <1>0, <3>2 DEF FramesFit, IsShown
  <2>2. \A i \in 1 .. n + 1 : frames'[i].at <= q
                              /\ (frames'[i].kind = "event" => frames'[i].at > conn.since)
    <3> TAKE i \in 1 .. n + 1
    <3>1. CASE i = n + 1
      <4>1. q > conn.since /\ q <= q
        BY <1>1
      <4> QED BY <1>4, <3>1, <4>1
    <3>2. CASE i \in 1 .. n
      <4>1. frames'[i] = frames[i]
        BY <1>3, <3>2
      <4>2. frames[i].at \in Nat /\ frames[i].at <= conn.last
            /\ (frames[i].kind = "event" => frames[i].at > conn.since)
        BY <2>1, <3>2
      <4>3. frames[i].at <= q
        BY <1>1, <4>2
      <4> QED BY <4>1, <4>2, <4>3
    <3>3. i = n + 1 \/ i \in 1 .. n
      BY <1>1
    <3> QED BY <3>1, <3>2, <3>3
  <2>3. n + 1 \in 1 .. n + 1
    BY <1>1
  <2> QED BY <1>3, <1>4, <2>2, <2>3 DEF FramesFit, IsShown
<1>6. \A i \in 1 .. n : SeenBefore(i)' = SeenBefore(i)
  <2> TAKE i \in 1 .. n
  <2>1. \A k \in 1 .. i - 1 : frames'[k] = frames[k]
    BY <1>1, <1>3
  <2>2. {frames'[j].at : j \in {k \in 1 .. i - 1 : frames'[k].kind = "event"}}
        = {frames[j].at : j \in {k \in 1 .. i - 1 : frames[k].kind = "event"}}
    BY <2>1
  <2> QED BY <2>2 DEF SeenBefore
<1>7. SeenBefore(n + 1)' = conn.last
  <2>1. (n + 1) - 1 = n
    BY <1>1
  <2>2. {frames'[j].at : j \in {k \in 1 .. (n + 1) - 1 : frames'[k].kind = "event"}}
        = {frames[j].at : j \in {k \in 1 .. (n + 1) - 1 : frames[k].kind = "event"}}
    BY <1>3, <2>1
  <2>3. SeenBefore(n + 1) = conn.last
    BY <1>0, SeenIsLast
  <2>4. SeenBefore(n + 1)' = SeenBefore(n + 1)
    BY <2>2 DEF SeenBefore
  <2> QED BY <2>3, <2>4
<1>8. GapsAreAnnounced'
  <2> SUFFICES ASSUME NEW i \in 1 .. n + 1, frames'[i].kind = "event"
               PROVE  \/ frames'[i].at = SeenBefore(i)' + 1
                      \/ /\ frames'[i].at > SeenBefore(i)' + 1
                         /\ i > 1 /\ frames'[i - 1] = LaggedFrame(SeenBefore(i)')
    BY <1>3 DEF GapsAreAnnounced, LaggedFrame
  <2>1. CASE i \in 1 .. n
    <3>1. frames'[i] = frames[i] /\ SeenBefore(i)' = SeenBefore(i) /\ i \in DOMAIN frames
      BY <1>0, <1>1, <1>3, <1>6, <2>1
    <3>2. i > 1 => frames'[i - 1] = frames[i - 1]
      BY <1>1, <1>3, <2>1
    <3> QED BY <3>1, <3>2 DEF GapsAreAnnounced
  <2>2. CASE i = n + 1
    <3>1. CASE q = conn.last + 1
      BY <1>4, <1>7, <2>2, <3>1
    <3>2. CASE q # conn.last + 1
      <4>1. n # 0 /\ frames[n] = LaggedFrame(conn.last)
        BY <1>0, <1>1, <3>2
      <4>2. frames'[n] = frames[n] /\ i - 1 = n /\ i > 1
        BY <1>1, <1>3, <2>2, <4>1
      <4>3. q > conn.last + 1
        BY <1>1, <3>2
      <4> QED BY <1>4, <1>7, <2>2, <4>1, <4>2, <4>3
    <3> QED BY <3>1, <3>2
  <2>3. i = n + 1 \/ i \in 1 .. n
    BY <1>1
  <2> QED BY <2>1, <2>2, <2>3
<1> QED BY <1>5, <1>8

\* A notice is added: it tells the client from where to catch up.
LEMMA NoticeFits ==
    ASSUME StreamType, FramesFit, GapsAreAnnounced,
           conn'.last = conn.last, conn'.since = conn.since,
           frames' = Append(frames, LaggedFrame(conn.last))
    PROVE  /\ FramesFit' /\ GapsAreAnnounced'
           /\ frames' # <<>> /\ frames'[Len(frames')] = LaggedFrame(conn.last)
<1>0. PICK n \in Nat : n = Len(frames)
  BY DEF FramesFit
<1>1. n \in Nat /\ frames \in Seq(Frame) /\ conn.last \in Nat /\ conn.since \in Nat
  BY DEF FramesFit, StreamType, Streams
<1>2. LaggedFrame(conn.last) \in Frame /\ LaggedFrame(conn.last).kind # "event"
      /\ LaggedFrame(conn.last).at = conn.last
  BY <1>1 DEF Frame, LaggedFrame
<1>3. /\ frames' \in Seq(Frame) /\ Len(frames') = n + 1 /\ frames'[n + 1] = LaggedFrame(conn.last)
      /\ \A i \in 1 .. n : frames'[i] = frames[i]
  BY <1>0, <1>1, <1>2
<1>4. \A i \in 1 .. n + 1 : i = n + 1 \/ i \in 1 .. n
  BY <1>1
<1>5. FramesFit'
  <2>1. \A i \in 1 .. n : frames[i].at <= conn.last /\ (IsShown(i) => frames[i].at > conn.since)
    BY <1>0 DEF FramesFit
  <2>2. \A i \in 1 .. n + 1 : frames'[i].at <= conn.last
                              /\ (frames'[i].kind = "event" => frames'[i].at > conn.since)
    <3> TAKE i \in 1 .. n + 1
    <3>1. CASE i = n + 1
      <4>1. conn.last <= conn.last
        BY <1>1
      <4> QED BY <1>2, <1>3, <3>1, <4>1
    <3>2. CASE i \in 1 .. n
      BY <1>3, <2>1, <3>2 DEF IsShown
    <3> QED BY <1>4, <3>1, <3>2
  <2>3. conn.last = conn.since \/ \E i \in 1 .. n + 1 : frames'[i].kind = "event" /\ frames'[i].at = conn.last
    <3>1. \A i \in 1 .. n : i \in 1 .. n + 1
      BY <1>1
    <3> QED BY <1>0, <1>3, <3>1 DEF FramesFit, IsShown
  <2> QED BY <1>3, <2>2, <2>3 DEF FramesFit, IsShown
<1>6. \A i \in 1 .. n : SeenBefore(i)' = SeenBefore(i)
  <2> TAKE i \in 1 .. n
  <2>1. \A k \in 1 .. i - 1 : frames'[k] = frames[k]
    BY <1>1, <1>3
  <2>2. {frames'[j].at : j \in {k \in 1 .. i - 1 : frames'[k].kind = "event"}}
        = {frames[j].at : j \in {k \in 1 .. i - 1 : frames[k].kind = "event"}}
    BY <2>1
  <2> QED BY <2>2 DEF SeenBefore
<1>7. GapsAreAnnounced'
  <2> SUFFICES ASSUME NEW i \in 1 .. n + 1, frames'[i].kind = "event"
               PROVE  \/ frames'[i].at = SeenBefore(i)' + 1
                      \/ /\ frames'[i].at > SeenBefore(i)' + 1
                         /\ i > 1 /\ frames'[i - 1] = LaggedFrame(SeenBefore(i)')
    BY <1>3 DEF GapsAreAnnounced, LaggedFrame
  <2>1. i \in 1 .. n
    BY <1>2, <1>3, <1>4
  <2>2. frames'[i] = frames[i] /\ SeenBefore(i)' = SeenBefore(i) /\ i \in DOMAIN frames
    BY <1>0, <1>1, <1>3, <1>6, <2>1
  <2>3. i > 1 => frames'[i - 1] = frames[i - 1]
    BY <1>1, <1>3, <2>1
  <2> QED BY <2>2, <2>3 DEF GapsAreAnnounced
<1>8. frames' # <<>>
  BY <1>1, <1>3
<1> QED BY <1>3, <1>5, <1>7, <1>8

\* Where a stream stands against the log.
LEMMA StreamFacts ==
    ASSUME LogInv, StreamInv
    PROVE  /\ journal \in Seq(Event) /\ LastSeq \in Nat /\ \A i \in 1 .. LastSeq : journal[i].seq = i
           /\ channel \in Seq(Event) /\ Len(channel) \in Nat /\ Len(channel) <= LastSeq
           /\ \A i \in 1 .. Len(channel) : channel[i] = journal[i]
           /\ conn \in Streams /\ conn.since \in Nat /\ conn.last \in Nat /\ conn.cursor \in Nat
           /\ conn.since <= conn.last /\ conn.last <= LastSeq /\ conn.cursor <= LastSeq + 1
           /\ conn.pc \in Connected => conn.cursor \in 1 .. Len(channel) + 1
           /\ conn.replay \in Seq(Event) /\ Len(conn.replay) \in Nat
<1>1. /\ journal \in Seq(Event) /\ LastSeq \in Nat /\ \A i \in 1 .. LastSeq : journal[i].seq = i
      /\ ~Free => LastSeq # 0
  BY DEF LogInv, LogFits, LastSeq
<1>2. emission.stage \in {"appended", "pushed"} => ~Free
  BY DEF LogInv, LogFits, NoEmission
<1>3. Len(channel) <= LastSeq /\ channel \in Seq(Event) /\ Len(channel) \in Nat
      /\ \A i \in 1 .. Len(channel) : channel[i] = journal[i]
  <2>1. CASE ~run.driven
    BY <1>1, <2>1 DEF LogInv, ChannelFits
  <2>2. CASE run.driven /\ emission.stage \in {"appended", "pushed"}
    BY <1>1, <1>2, <2>2 DEF LogInv, ChannelFits
  <2>3. CASE run.driven /\ emission.stage \notin {"appended", "pushed"}
    BY <1>1, <2>3 DEF LogInv, ChannelFits
  <2> QED BY <2>1, <2>2, <2>3
<1>4. conn \in Streams /\ conn.since <= conn.last /\ conn.last <= LastSeq /\ conn.cursor <= LastSeq + 1
      /\ (conn.pc \in Connected => conn.cursor \in 1 .. Len(channel) + 1)
  BY DEF StreamInv, StreamType
<1>5. conn.since \in Nat /\ conn.last \in Nat /\ conn.cursor \in Nat /\ conn.replay \in Seq(Event)
  BY <1>4 DEF Streams
<1> QED BY <1>1, <1>3, <1>4, <1>5

\* What the log has after an event, and the ring when it reaches back to it.
LEMMA ReplayIs ==
    ASSUME LogInv, NEW since \in Nat, since <= LastSeq,
           NEW r, \/ r = EventsAfter(journal, since)
                  \/ Free /\ Covers(since) /\ r = EventsAfter(ring, since)
    PROVE  /\ r \in Seq(Event) /\ Len(r) = LastSeq - since
           /\ \A i \in 1 .. Len(r) : r[i] = journal[since + i]
<1>1. journal \in Seq(Event) /\ LastSeq \in Nat /\ LastSeq = Len(journal)
      /\ \A i \in 1 .. LastSeq : journal[i].seq = i
  BY DEF LogInv, LogFits, LastSeq
<1>2. CASE r = EventsAfter(journal, since)
  <2>1. \A i \in 1 .. Len(journal) : journal[i].seq = 0 + i
    BY <1>1
  <2>2. 0 <= since /\ since <= 0 + Len(journal) /\ since - 0 + 1 = since + 1
    BY <1>1
  <2>3. EventsAfter(journal, since) = SubSeq(journal, since - 0 + 1, Len(journal))
    BY <1>1, <2>1, <2>2, AfterIsRest
  <2>4. r = SubSeq(journal, since + 1, LastSeq)
    BY <1>1, <1>2, <2>2, <2>3
  <2> QED BY <1>1, <2>4
<1>3. CASE Free /\ Covers(since) /\ r = EventsAfter(ring, since)
  <2>1. Pushed = LastSeq
    BY <1>3 DEF LogInv, LogFits, Pushed, NoEmission
  <2>2. /\ ring \in Seq(Event) /\ Len(ring) \in Nat /\ Len(ring) <= LastSeq
        /\ \A i \in 1 .. Len(ring) : ring[i] = journal[LastSeq - Len(ring) + i]
    BY <2>1 DEF LogInv, RingFits
  <2>3. PICK off \in Nat : off = LastSeq - Len(ring)
    <3>1. LastSeq - Len(ring) \in Nat
      BY <1>1, <2>2
    <3> QED BY <3>1
  <2>4. \A i \in 1 .. Len(ring) : ring[i] = journal[off + i] /\ off + i \in 1 .. LastSeq
    BY <1>1, <2>2, <2>3
  <2>5. \A i \in 1 .. Len(ring) : ring[i].seq = off + i
    BY <1>1, <2>4
  <2>6. 1 \in 1 .. Len(ring) /\ ring[1].seq <= since + 1
    BY <1>3, <2>2 DEF Covers
  <2>7. off <= since /\ since <= off + Len(ring)
    BY <1>1, <2>2, <2>3, <2>5, <2>6
  <2>8. r = SubSeq(ring, since - off + 1, Len(ring))
    BY <1>3, <2>2, <2>5, <2>7, AfterIsRest
  <2>9. r \in Seq(Event) /\ Len(r) = Len(ring) - (since - off)
        /\ \A i \in 1 .. Len(r) : r[i] = ring[since - off + i]
    BY <2>2, <2>7, <2>8
  <2>10. \A i \in 1 .. Len(r) : since - off + i \in 1 .. Len(ring) /\ off + (since - off + i) = since + i
    BY <2>2, <2>7, <2>9
  <2>11. \A i \in 1 .. Len(r) : r[i] = journal[since + i]
    BY <2>4, <2>9, <2>10
  <2>12. Len(r) = LastSeq - since
    BY <1>1, <2>2, <2>3, <2>7, <2>9
  <2> QED BY <2>9, <2>11, <2>12
<1> QED BY <1>2, <1>3

\* A stream is opened.
LEMMA SubscribeFits == ASSUME LogInv, StreamInv, Subscribe PROVE StreamInv'
<1>1. UNCHANGED publication /\ frames' = <<>> /\ conn.count < MaxConnects
  BY DEF Subscribe
<1>2. LastSeq' = LastSeq /\ channel' = channel
  BY <1>1, ReadersOnlyRead
<1>3. PICK since \in ResumePoints :
          conn' = [pc |-> "subscribed", since |-> since, last |-> since, cursor |-> Len(channel) + 1,
                   over |-> FALSE, replay |-> <<>>, count |-> conn.count + 1]
  BY DEF Subscribe
<1>4. since \in Nat /\ since <= conn.last
  <2>1. frames \in Seq(Frame) /\ conn.last \in Nat /\ conn.last <= conn.last
        /\ \A i \in 1 .. Len(frames) : frames[i].at <= conn.last
    BY StreamFacts DEF StreamInv, FramesFit
  <2>2. \A i \in 1 .. Len(frames) : frames[i] \in Frame
    BY <2>1
  <2>3. \A i \in DOMAIN frames : frames[i].at \in Nat /\ frames[i].at <= conn.last
    BY <2>1, <2>2 DEF Frame
  <2> QED BY <2>1, <2>3 DEF ResumePoints
<1>5. /\ conn'.pc = "subscribed" /\ conn'.since = since /\ conn'.last = since
      /\ conn'.cursor = Len(channel) + 1 /\ conn'.over = FALSE
  BY <1>3
<1>6. StreamType'
  <2>1. conn.count + 1 \in 0 .. MaxConnects
    BY <1>1, StreamFacts, SizesAssumption DEF Streams
  <2>2. conn' \in Streams
    <3>1. <<>> \in Seq(Event) /\ Len(channel) + 1 \in Nat
      BY StreamFacts
    <3> QED BY <1>3, <1>4, <2>1, <3>1 DEF Streams, Connected
  <2>3. since <= since /\ since <= LastSeq /\ Len(channel) + 1 <= LastSeq + 1
        /\ Len(channel) + 1 \in 1 .. Len(channel) + 1
    BY <1>4, StreamFacts
  <2> QED BY <1>2, <1>5, <2>2, <2>3 DEF StreamType
<1>7. StreamFits'
  BY <1>5 DEF StreamFits
<1>8. FramesFit' /\ GapsAreAnnounced'
  BY <1>1, <1>5 DEF FramesFit, GapsAreAnnounced
<1> QED BY <1>6, <1>7, <1>8 DEF StreamInv

\* Whether the run was over is sampled after the subscription.
LEMMA SampleFits == ASSUME LogInv, StreamInv, SampleFinished PROVE StreamInv'
<1>1. UNCHANGED publication /\ frames' = frames /\ conn.pc = "subscribed"
      /\ conn' = [conn EXCEPT !.pc = "sampled", !.over = finished]
  BY DEF SampleFinished
<1>2. LastSeq' = LastSeq /\ channel' = channel /\ journal' = journal /\ run' = run
  BY <1>1, ReadersOnlyRead
<1>3. finished \in BOOLEAN /\ (finished => Complete(LastSeq))
  BY DEF LogInv, EndFits, Complete
<1>4. /\ conn' \in Streams /\ conn'.pc = "sampled" /\ conn'.since = conn.since /\ conn'.last = conn.last
      /\ conn'.cursor = conn.cursor /\ conn'.over = finished
  BY <1>1, <1>3, StreamFacts DEF Streams, Connected
<1>5. StreamType'
  BY <1>1, <1>2, <1>4 DEF StreamInv, StreamType, Connected
<1>6. StreamFits'
  <2>1. conn.last = conn.since
    BY <1>1 DEF StreamInv, StreamFits
  <2>2. Complete(LastSeq)' <=> Complete(LastSeq)
    BY <1>2 DEF Complete, Ends
  <2> QED BY <1>3, <1>4, <2>1, <2>2 DEF StreamFits
<1> QED BY <1>1, <1>4, <1>5, <1>6, FramesStay DEF StreamInv

\* The replay is taken: what the log has after the event the client resumes at.
LEMMA ReplayFits == ASSUME LogInv, StreamInv, ReplayRing \/ ReplayJournal PROVE StreamInv'
<1>1. UNCHANGED publication /\ frames' = frames /\ conn.pc \in {"sampled", "reading"}
  BY DEF ReplayRing, ReplayJournal
<1>2. LastSeq' = LastSeq /\ channel' = channel /\ journal' = journal /\ run' = run
  BY <1>1, ReadersOnlyRead
<1>3. conn.last = conn.since /\ (conn.over => Complete(LastSeq)) /\ conn.since <= LastSeq
      /\ conn.since \in Nat /\ LastSeq \in Nat /\ conn \in Streams
  BY <1>1, StreamFacts DEF StreamInv, StreamFits
<1>4. Complete(LastSeq)' <=> Complete(LastSeq)
  BY <1>2 DEF Complete, Ends
<1>5. CASE conn' = [conn EXCEPT !.pc = "reading"]
  <2>1. /\ conn' \in Streams /\ conn'.pc = "reading" /\ conn'.since = conn.since /\ conn'.last = conn.last
        /\ conn'.cursor = conn.cursor /\ conn'.over = conn.over
    BY <1>3, <1>5 DEF Streams, Connected
  <2>2. StreamType'
    BY <1>1, <1>2, <2>1 DEF StreamInv, StreamType, Connected
  <2>3. StreamFits'
    BY <1>3, <1>4, <2>1 DEF StreamFits
  <2> QED BY <1>1, <2>1, <2>2, <2>3, FramesStay DEF StreamInv
<1>6. ASSUME NEW r, conn' = [conn EXCEPT !.pc = "replaying", !.replay = r],
             \/ r = EventsAfter(journal, conn.since)
             \/ Free /\ Covers(conn.since) /\ r = EventsAfter(ring, conn.since)
      PROVE  StreamInv'
  <2>1. r \in Seq(Event) /\ Len(r) = LastSeq - conn.since
        /\ \A i \in 1 .. Len(r) : r[i] = journal[conn.since + i]
    BY <1>3, <1>6, ReplayIs
  <2>2. /\ conn' \in Streams /\ conn'.pc = "replaying" /\ conn'.since = conn.since /\ conn'.last = conn.last
        /\ conn'.cursor = conn.cursor /\ conn'.over = conn.over /\ conn'.replay = r
    BY <1>3, <1>6, <2>1 DEF Streams, Connected
  <2>3. StreamType'
    BY <1>1, <1>2, <2>2 DEF StreamInv, StreamType, Connected
  <2>4. conn.last + Len(r) = LastSeq
    BY <1>3, <2>1
  <2>5. LastSeq <= LastSeq /\ conn.cursor <= LastSeq + 1
    BY StreamFacts
  <2>6. StreamFits'
    <3>1. conn'.last + Len(conn'.replay) = LastSeq
      BY <2>2, <2>4
    <3>2. \A i \in 1 .. Len(conn'.replay) : conn'.replay[i] = journal'[conn'.last + i]
      BY <1>2, <1>3, <2>1, <2>2
    <3>3. conn'.over => Complete(conn.last + Len(conn.replay))'
      BY <1>2, <1>3, <2>2, <3>1 DEF Complete, Ends
    <3> QED BY <1>2, <2>2, <2>5, <3>1, <3>2, <3>3 DEF StreamFits
  <2> QED BY <1>1, <2>2, <2>3, <2>6, FramesStay DEF StreamInv
<1> QED BY <1>5, <1>6 DEF ReplayRing, ReplayJournal

\* The next event of the replay goes out.
LEMMA ServeFits == ASSUME LogInv, StreamInv, ServeReplay PROVE StreamInv'
<1> DEFINE h == Head(conn.replay)
           t == Tail(conn.replay)
<1>1. UNCHANGED publication /\ conn.pc = "replaying" /\ conn.replay # <<>>
      /\ conn' = Yielded([conn EXCEPT !.replay = t], h) /\ frames' = Shown(conn.last, h)
  BY DEF ServeReplay
<1>2. LastSeq' = LastSeq /\ channel' = channel /\ journal' = journal /\ run' = run
  BY <1>1, ReadersOnlyRead
<1>3. PICK n \in Nat : n = Len(conn.replay)
  BY StreamFacts
<1>4. /\ n >= 1 /\ h = conn.replay[1] /\ t \in Seq(Event) /\ Len(t) = n - 1
      /\ \A i \in 1 .. n - 1 : t[i] = conn.replay[i + 1]
  BY <1>1, <1>3, StreamFacts
<1>5. PICK l \in Nat : l = conn.last
  BY StreamFacts
<1>6. /\ l + n <= LastSeq /\ conn.cursor <= l + n + 1
      /\ \A i \in 1 .. n : conn.replay[i] = journal[l + i]
      /\ conn.over => Complete(l + n)
  BY <1>1, <1>3, <1>5 DEF StreamInv, StreamFits
<1>7. l + 1 \in 1 .. LastSeq /\ 1 \in 1 .. n
  BY <1>4, <1>6, StreamFacts
<1>8. h = journal[l + 1] /\ h.seq = l + 1 /\ h.kind \in Kinds
  <2>1. h = journal[l + 1] /\ h.seq = l + 1
    BY <1>4, <1>6, <1>7, StreamFacts
  <2>2. h \in Event
    BY <1>7, <2>1, StreamFacts DEF LastSeq
  <2> QED BY <2>1, <2>2 DEF Event
<1> HIDE DEF h, t
<1>9. ~(h.seq <= conn.last)
  BY <1>5, <1>8
<1>10. PICK c : c = [conn EXCEPT !.replay = t]
  OBVIOUS
<1>11. c \in Streams /\ c.pc = "replaying" /\ c.since = conn.since /\ c.last = conn.last
       /\ c.cursor = conn.cursor /\ c.over = conn.over /\ c.replay = t
  BY <1>1, <1>4, <1>10, StreamFacts DEF Streams
<1>12. conn' = [c EXCEPT !.last = l + 1, !.pc = IF h.kind = "terminal" THEN "ended" ELSE @]
  BY <1>1, <1>8, <1>9, <1>10, <1>11 DEF Yielded
<1>13. /\ conn' \in Streams /\ conn'.since = conn.since /\ conn'.last = l + 1
       /\ conn'.cursor = conn.cursor /\ conn'.over = conn.over /\ conn'.replay = t
       /\ conn'.pc = IF h.kind = "terminal" THEN "ended" ELSE "replaying"
  <2>1. PICK p \in Connected \cup {"away", "ended"} : p = IF h.kind = "terminal" THEN "ended" ELSE "replaying"
    BY DEF Connected
  <2>2. conn' = [c EXCEPT !.last = l + 1, !.pc = p]
    BY <1>11, <1>12, <2>1
  <2>3. l + 1 \in Nat
    OBVIOUS
  <2>4. conn' \in Streams /\ conn'.since = c.since /\ conn'.last = l + 1 /\ conn'.pc = p
        /\ conn'.cursor = c.cursor /\ conn'.over = c.over /\ conn'.replay = c.replay
    BY <1>11, <2>2, <2>3 DEF Streams
  <2> QED BY <1>11, <2>1, <2>4
<1>14. FramesFit' /\ GapsAreAnnounced'
  <2>1. frames' = Append(frames, [kind |-> "event", at |-> l + 1])
    BY <1>1, <1>8, <1>9 DEF Shown, EventFrame
  <2>2. l + 1 > conn.last /\ l + 1 = conn.last + 1 /\ l + 1 \in Nat
    BY <1>5
  <2> QED BY <1>13, <2>1, <2>2, ShownFits DEF StreamInv
<1>15. StreamType'
  <2>1. conn.since <= l + 1 /\ l + 1 <= LastSeq /\ conn.cursor <= LastSeq + 1
        /\ conn.cursor \in 1 .. Len(channel) + 1
    BY <1>1, <1>5, <1>7, StreamFacts DEF Connected
  <2> QED BY <1>2, <1>13, <2>1 DEF StreamType
<1>16. StreamFits'
  <2>1. CASE h.kind = "terminal"
    <3>1. conn'.pc = "ended"
      BY <1>13, <2>1
    <3>2. l + 1 \in 1 .. l + 1
      BY <1>7
    <3>3. Complete(conn.last)'
      BY <1>2, <1>8, <1>13, <2>1, <3>2 DEF Complete, Ends
    <3> QED BY <3>1, <3>3 DEF StreamFits
  <2>2. CASE h.kind # "terminal"
    <3>1. conn'.pc = "replaying"
      BY <1>13, <2>2
    <3>2. conn'.last + Len(conn'.replay) = l + n
      <4>1. (l + 1) + (n - 1) = l + n
        OBVIOUS
      <4> QED BY <1>4, <1>13, <4>1
    <3>3. \A i \in 1 .. Len(conn'.replay) : conn'.replay[i] = journal'[conn'.last + i]
      <4>1. \A i \in 1 .. n - 1 : i + 1 \in 1 .. n /\ l + (i + 1) = l + 1 + i
        OBVIOUS
      <4>2. \A i \in 1 .. n - 1 : t[i] = journal[l + 1 + i]
        BY <1>4, <1>6, <4>1
      <4> QED BY <1>2, <1>4, <1>13, <4>2
    <3>4. conn'.over => Complete(conn.last + Len(conn.replay))'
      BY <1>2, <1>6, <1>13, <3>2 DEF Complete, Ends
    <3> QED BY <1>2, <1>6, <1>13, <3>1, <3>2, <3>3, <3>4 DEF StreamFits
  <2> QED BY <2>1, <2>2
<1> QED BY <1>14, <1>15, <1>16 DEF StreamInv

\* The replay is through: the stream ends, or follows.
LEMMA ReplayEndsFits == ASSUME LogInv, StreamInv, ReplayEnds PROVE StreamInv'
<1>1. UNCHANGED publication /\ frames' = frames /\ conn.pc = "replaying" /\ conn.replay = <<>>
      /\ conn' = [conn EXCEPT !.pc = IF conn.over THEN "ended" ELSE "following"]
  BY DEF ReplayEnds
<1>2. LastSeq' = LastSeq /\ channel' = channel /\ journal' = journal /\ run' = run
  BY <1>1, ReadersOnlyRead
<1>3. /\ conn' \in Streams /\ conn'.since = conn.since /\ conn'.last = conn.last
      /\ conn'.cursor = conn.cursor
      /\ conn'.pc = IF conn.over THEN "ended" ELSE "following"
  <2>1. (IF conn.over THEN "ended" ELSE "following") \in Connected \cup {"away", "ended"}
    BY DEF Connected
  <2> QED BY <1>1, <2>1, StreamFacts DEF Streams
<1>4. StreamType'
  BY <1>1, <1>2, <1>3 DEF StreamInv, StreamType, Connected
<1>5. conn.last + Len(conn.replay) = conn.last
  BY <1>1, StreamFacts
<1>6. conn.cursor <= conn.last + 1 /\ (conn.over => Complete(conn.last))
  BY <1>1, <1>5 DEF StreamInv, StreamFits
<1>7. Complete(conn.last) => Complete(conn.last)'
  BY <1>2, <1>3 DEF Complete, Ends
<1>8. StreamFits'
  BY <1>3, <1>6, <1>7 DEF StreamFits
<1> QED BY <1>1, <1>3, <1>4, <1>8, FramesStay DEF StreamInv

\* An event of the channel is received: shown, unless the replay showed it.
LEMMA ReceiveFits == ASSUME LogInv, StreamInv, Receive PROVE StreamInv'
<1> DEFINE e == channel[conn.cursor]
<1>1. UNCHANGED publication /\ conn.pc = "following" /\ conn.cursor \in Oldest .. Len(channel)
      /\ conn' = Yielded([conn EXCEPT !.cursor = @ + 1], e) /\ frames' = Shown(conn.last, e)
  BY DEF Receive
<1>2. LastSeq' = LastSeq /\ channel' = channel /\ journal' = journal /\ run' = run
  BY <1>1, ReadersOnlyRead
<1>3. PICK q \in Nat : q = conn.cursor
  BY StreamFacts
<1>4. PICK l \in Nat : l = conn.last
  BY StreamFacts
<1>5. q \in 1 .. Len(channel) /\ q \in 1 .. LastSeq
  <2>1. Oldest \in Int
    BY StreamFacts, SizesAssumption DEF Oldest
  <2> QED BY <1>1, <1>3, <2>1, StreamFacts DEF Connected
<1>6. e = journal[q] /\ e.seq = q /\ e.kind \in Kinds
  <2>1. e = journal[q] /\ e.seq = q
    BY <1>3, <1>5, StreamFacts
  <2>2. e \in Event
    BY <1>5, <2>1, StreamFacts DEF LastSeq
  <2> QED BY <2>1, <2>2 DEF Event
<1> HIDE DEF e
<1>7. PICK c : c = [conn EXCEPT !.cursor = @ + 1]
  OBVIOUS
<1>8. c \in Streams /\ c.pc = "following" /\ c.since = conn.since /\ c.last = conn.last
      /\ c.cursor = q + 1 /\ c.over = conn.over
  <2>1. conn \in Streams /\ q + 1 \in Nat /\ c = [conn EXCEPT !.cursor = q + 1]
    BY <1>3, <1>7, StreamFacts
  <2> QED BY <1>1, <2>1 DEF Streams
<1>9. q + 1 \in 1 .. Len(channel) + 1 /\ q + 1 <= LastSeq + 1 /\ conn.since <= conn.last
      /\ conn.last <= LastSeq
  BY <1>5, StreamFacts
<1>10. \/ conn.cursor <= conn.last + 1
       \/ frames # <<>> /\ frames[Len(frames)] = LaggedFrame(conn.last)
  BY <1>1 DEF StreamInv, StreamFits
<1>11. CASE q <= l
  <2>1. conn' = c /\ frames' = frames
    BY <1>1, <1>4, <1>6, <1>7, <1>8, <1>11 DEF Yielded, Shown
  <2>2. StreamType'
    BY <1>2, <1>8, <1>9, <2>1 DEF StreamType
  <2>3. q + 1 <= l + 1
    BY <1>11
  <2>4. StreamFits'
    BY <1>4, <1>8, <2>1, <2>3 DEF StreamFits
  <2> QED BY <1>8, <2>1, <2>2, <2>4, FramesStay DEF StreamInv
<1>12. CASE q > l
  <2>1. ~(e.seq <= conn.last)
    BY <1>4, <1>6, <1>12
  <2>2. conn' = [c EXCEPT !.last = q, !.pc = IF e.kind = "terminal" THEN "ended" ELSE @]
    BY <1>1, <1>6, <1>7, <1>8, <2>1 DEF Yielded
  <2>3. /\ conn' \in Streams /\ conn'.since = conn.since /\ conn'.last = q /\ conn'.cursor = q + 1
        /\ conn'.pc = IF e.kind = "terminal" THEN "ended" ELSE "following"
    <3>1. (IF e.kind = "terminal" THEN "ended" ELSE "following") \in Connected \cup {"away", "ended"}
      BY DEF Connected
    <3> QED BY <1>8, <2>2, <3>1 DEF Streams
  <2>4. FramesFit' /\ GapsAreAnnounced'
    <3>1. frames' = Append(frames, [kind |-> "event", at |-> q])
      BY <1>1, <1>6, <2>1 DEF Shown, EventFrame
    <3>2. q > conn.last
      BY <1>4, <1>12
    <3>3. q <= conn.last + 1 => q = conn.last + 1
      BY <1>4, <1>12
    <3>4. \/ q = conn.last + 1
          \/ frames # <<>> /\ frames[Len(frames)] = LaggedFrame(conn.last)
      BY <1>3, <1>10, <3>3
    <3> QED BY <2>3, <3>1, <3>2, <3>4, ShownFits DEF StreamInv
  <2>5. StreamType'
    <3>1. conn.since <= q /\ q <= LastSeq
      BY <1>4, <1>5, <1>12, StreamFacts
    <3> QED BY <1>2, <1>9, <2>3, <3>1 DEF StreamType
  <2>6. StreamFits'
    <3>1. CASE e.kind = "terminal"
      <4>1. conn'.pc = "ended" /\ q \in 1 .. q
        BY <1>5, <2>3, <3>1
      <4>2. Complete(conn.last)'
        BY <1>2, <1>6, <2>3, <3>1, <4>1 DEF Complete, Ends
      <4> QED BY <4>1, <4>2 DEF StreamFits
    <3>2. CASE e.kind # "terminal"
      <4>1. conn'.pc = "following" /\ q + 1 <= q + 1
        BY <2>3, <3>2
      <4> QED BY <2>3, <4>1 DEF StreamFits
    <3> QED BY <3>1, <3>2
  <2> QED BY <2>4, <2>5, <2>6 DEF StreamInv
<1>13. q <= l \/ q > l
  OBVIOUS
<1> QED BY <1>11, <1>12, <1>13

\* The receiver fell behind what the channel holds.
LEMMA LaggedFits == ASSUME LogInv, StreamInv, Lagged PROVE StreamInv'
<1>1. UNCHANGED publication /\ conn.pc = "following" /\ conn.cursor < Oldest
      /\ conn' = [conn EXCEPT !.cursor = Oldest] /\ frames' = Append(frames, LaggedFrame(conn.last))
  BY DEF Lagged
<1>2. LastSeq' = LastSeq /\ channel' = channel
  BY <1>1, ReadersOnlyRead
<1>3. Oldest \in 1 .. Len(channel) + 1 /\ Oldest <= LastSeq + 1 /\ Oldest \in Nat
  BY StreamFacts, SizesAssumption DEF Oldest
<1>4. /\ conn' \in Streams /\ conn'.pc = "following" /\ conn'.since = conn.since
      /\ conn'.last = conn.last /\ conn'.cursor = Oldest
  BY <1>1, <1>3, StreamFacts DEF Streams
<1>5. FramesFit' /\ GapsAreAnnounced' /\ frames' # <<>> /\ frames'[Len(frames')] = LaggedFrame(conn.last)
  BY <1>1, <1>4, NoticeFits DEF StreamInv
<1>6. StreamType'
  BY <1>2, <1>3, <1>4, StreamFacts DEF StreamType
<1>7. StreamFits'
  BY <1>4, <1>5 DEF StreamFits, LaggedFrame
<1> QED BY <1>5, <1>6, <1>7 DEF StreamInv

\* The client goes away.
LEMMA DisconnectFits == ASSUME LogInv, StreamInv, Disconnect PROVE StreamInv'
<1>1. UNCHANGED publication /\ frames' = frames /\ conn' = [conn EXCEPT !.pc = "away", !.replay = <<>>]
  BY DEF Disconnect
<1>2. LastSeq' = LastSeq /\ channel' = channel
  BY <1>1, ReadersOnlyRead
<1>3. <<>> \in Seq(Event)
  OBVIOUS
<1>4. /\ conn' \in Streams /\ conn'.pc = "away" /\ conn'.since = conn.since
      /\ conn'.last = conn.last /\ conn'.cursor = conn.cursor
  BY <1>1, <1>3, StreamFacts DEF Streams
<1>5. StreamType' /\ StreamFits'
  BY <1>2, <1>4 DEF StreamInv, StreamType, StreamFits, Connected
<1> QED BY <1>1, <1>4, <1>5, FramesStay DEF StreamInv

----------------------------------------------------------------------------
(* The pages of metrics.                                                    *)

\* The metrics of a beginning of the log and of the page that follows it are
\* those of the longer beginning.
LEMMA PagesJoin ==
    ASSUME NEW s \in Seq(Event), NEW m \in 0 .. Len(s)
    PROVE  /\ MetricsIn(s) = MetricsIn(SubSeq(s, 1, m)) \o MetricsIn(SubSeq(s, m + 1, Len(s)))
           /\ MetricsIn(SubSeq(s, 1, m)) \in Seq(Event)
           /\ MetricsIn(SubSeq(s, m + 1, Len(s))) \in Seq(Event)
<1> DEFINE n == Len(s)
           a == SubSeq(s, 1, m)
           b == SubSeq(s, m + 1, n)
           K == {i \in DOMAIN s : s[i].kind = "metrics"}
           lo == Below(K, m)
           hi == Beyond(K, m, n)
<1>1. n \in Nat /\ m \in Nat /\ m <= n /\ DOMAIN s = 1 .. n /\ K \in SUBSET (DOMAIN s)
  OBVIOUS
<1>2. /\ a \in Seq(Event) /\ DOMAIN a = 1 .. m /\ \A i \in 1 .. m : a[i] = s[i]
      /\ b \in Seq(Event) /\ DOMAIN b = 1 .. n - m /\ \A i \in 1 .. n - m : b[i] = s[m + i]
  BY <1>1
<1>3. lo = {i \in DOMAIN a : a[i].kind = "metrics"}
  BY <1>1, <1>2 DEF Below
<1>4. hi = {i \in DOMAIN b : b[i].kind = "metrics"}
  BY <1>1, <1>2 DEF Beyond
<1> HIDE DEF lo, hi
<1> HIDE DEF K
<1>5. Kept(s, K) = Kept(a, lo) \o Kept(b, hi)
  BY <1>1, KeptJoin DEF lo, hi
<1>6. lo \in SUBSET (DOMAIN a) /\ hi \in SUBSET (DOMAIN b)
  BY <1>3, <1>4
<1> HIDE DEF a, b
<1>7. Kept(a, lo) \in Seq(Event) /\ Kept(b, hi) \in Seq(Event)
  BY <1>2, <1>6, KeptFits
<1>8. MetricsIn(s) = Kept(s, K) /\ MetricsIn(a) = Kept(a, lo) /\ MetricsIn(b) = Kept(b, hi)
  BY <1>3, <1>4 DEF MetricsIn, K
<1> QED BY <1>5, <1>7, <1>8 DEF a, b, n

\* The sequence numbers of events, and of events put one after another.
LEMMA SeqsFit ==
    ASSUME NEW s \in Seq(Event), NEW t \in Seq(Event)
    PROVE  Seqs(s) \in Seq(Nat) /\ Seqs(s \o t) = Seqs(s) \o Seqs(t)
<1>1. \A e \in Event : e.seq \in Nat
  BY DEF Event
<1>2. ASSUME NEW u \in Seq(Event)
      PROVE  Seqs(u) \in Seq(Nat) /\ Len(Seqs(u)) = Len(u) /\ \A i \in 1 .. Len(u) : Seqs(u)[i] = u[i].seq
  <2>1. DOMAIN u = 1 .. Len(u) /\ Len(u) \in Nat /\ \A i \in 1 .. Len(u) : u[i] \in Event
    OBVIOUS
  <2>2. \A i \in 1 .. Len(u) : u[i].seq \in Nat
    BY <1>1, <2>1
  <2> QED BY <2>1, <2>2 DEF Seqs
<1>3. /\ s \o t \in Seq(Event) /\ Len(s \o t) = Len(s) + Len(t)
      /\ \A k \in 1 .. Len(s) + Len(t) : (s \o t)[k] = IF k <= Len(s) THEN s[k] ELSE t[k - Len(s)]
  BY Concatenated
<1> DEFINE l == Seqs(s \o t)
           r == Seqs(s) \o Seqs(t)
<1>4. l \in Seq(Nat) /\ Len(l) = Len(s) + Len(t) /\ \A k \in 1 .. Len(s) + Len(t) : l[k] = (s \o t)[k].seq
  BY <1>2, <1>3
<1>5. Seqs(s) \in Seq(Nat) /\ Seqs(t) \in Seq(Nat) /\ Len(Seqs(s)) = Len(s) /\ Len(Seqs(t)) = Len(t)
      /\ (\A k \in 1 .. Len(s) : Seqs(s)[k] = s[k].seq) /\ (\A k \in 1 .. Len(t) : Seqs(t)[k] = t[k].seq)
  BY <1>2
<1>6. /\ r \in Seq(Nat) /\ Len(r) = Len(s) + Len(t)
      /\ \A k \in 1 .. Len(s) + Len(t) :
            r[k] = IF k <= Len(s) THEN Seqs(s)[k] ELSE Seqs(t)[k - Len(s)]
  BY <1>5, Concatenated
<1> HIDE DEF l, r
<1>7. Len(s) \in Nat /\ Len(t) \in Nat
  OBVIOUS
<1>8. \A k \in 1 .. Len(s) + Len(t) : l[k] = r[k]
  <2> TAKE k \in 1 .. Len(s) + Len(t)
  <2>1. CASE k <= Len(s)
    <3>1. k \in 1 .. Len(s)
      BY <1>7, <2>1
    <3> QED BY <1>3, <1>4, <1>5, <1>6, <2>1, <3>1
  <2>2. CASE ~(k <= Len(s))
    <3>1. k - Len(s) \in 1 .. Len(t)
      BY <1>7, <2>2
    <3> QED BY <1>3, <1>4, <1>5, <1>6, <2>2, <3>1
  <2> QED BY <2>1, <2>2
<1>9. l = r
  BY <1>4, <1>6, <1>8, SameSequence
<1> QED BY <1>5, <1>9 DEF l, r

\* A page is a beginning of what it is taken from.
LEMMA PageIsPrefix ==
    ASSUME NEW s \in Seq(Event)
    PROVE  \E p \in 0 .. Len(s) : Page(s) = SubSeq(s, 1, p) /\ (s # <<>> => p # 0)
<1> DEFINE full == {k \in DOMAIN s : Len(MetricsIn(SubSeq(s, 1, k))) = PageLimit}
<1>1. Page(s) = IF full = {} THEN s ELSE SubSeq(s, 1, Min(full))
  BY DEF Page
<1>2. Len(s) \in Nat /\ DOMAIN s = 1 .. Len(s) /\ full \in SUBSET (1 .. Len(s))
      /\ SubSeq(s, 1, Len(s)) = s /\ Len(s) \in 0 .. Len(s) /\ (s # <<>> => Len(s) # 0)
  OBVIOUS
<1>3. CASE full = {}
  BY <1>1, <1>2, <1>3
<1>4. CASE full # {}
  <2>1. \E x \in full : \A y \in full : x <= y
    <3>1. full \in SUBSET (1 .. Len(s)) /\ Len(s) \in Nat
      BY <1>2
    <3> HIDE DEF full
    <3> QED BY <1>4, <3>1, LeastOf
  <2>2. Min(full) \in full
    BY <2>1, Zenon DEF Min
  <2>3. Min(full) \in 1 .. Len(s)
    BY <1>2, <2>2
  <2>4. Min(full) \in 0 .. Len(s) /\ Min(full) # 0
    BY <1>2, <2>3
  <2>5. Page(s) = SubSeq(s, 1, Min(full))
    BY <1>1, <1>4
  <2> QED BY <2>4, <2>5
<1> QED BY <1>3, <1>4

\* Nothing is in no events.
LEMMA NoMetrics == MetricsIn(<<>>) = <<>> /\ Seqs(<<>>) = <<>>
<1>1. Cardinality({i \in {} : <<>>[i].kind = "metrics"}) = 0
  BY FS_EmptySet
<1>2. DOMAIN <<>> = {}
  OBVIOUS
<1> QED BY <1>1, <1>2 DEF MetricsIn, Kept, Seqs

\* A page is pulled: the metrics of the log between two positions.
LEMMA PullKeeps == ASSUME LogInv, PullFits, PullMetrics PROVE PullFits'
<1>1. UNCHANGED publication
  BY DEF PullMetrics
<1>2. LastSeq' = LastSeq /\ journal' = journal
  BY <1>1, ReadersOnlyRead
<1>3. PICK m \in Nat : m = pull.since
  BY DEF PullFits
<1>4. PICK r : /\ pull' = [since |-> IF r = <<>> THEN pull.since ELSE Last(Page(r)).seq,
                           got |-> pull.got \o Seqs(MetricsIn(Page(r)))]
               /\ \/ r = EventsAfter(journal, m)
                  \/ Free /\ Covers(m) /\ r = EventsAfter(ring, m)
  BY <1>3 DEF PullMetrics, Pulled
<1>5. /\ m <= LastSeq /\ LastSeq \in Nat /\ LastSeq = Len(journal) /\ journal \in Seq(Event)
      /\ \A i \in 1 .. LastSeq : journal[i].seq = i
      /\ pull.got = Seqs(MetricsIn(SubSeq(journal, 1, m)))
  BY <1>3 DEF LogInv, LogFits, LastSeq, PullFits
<1>6. r \in Seq(Event) /\ Len(r) = LastSeq - m /\ \A i \in 1 .. Len(r) : r[i] = journal[m + i]
  BY <1>4, <1>5, ReplayIs
<1>7. PICK p \in 0 .. Len(r) : Page(r) = SubSeq(r, 1, p) /\ (r # <<>> => p # 0)
  BY <1>6, PageIsPrefix
<1>8. p \in Nat /\ m + p \in 0 .. LastSeq /\ p <= Len(r) /\ Len(r) \in Nat
  BY <1>5, <1>6, <1>7
<1> DEFINE page == SubSeq(r, 1, p)
           s == SubSeq(journal, 1, m + p)
<1>9. page \in Seq(Event) /\ Len(page) = p /\ \A i \in 1 .. p : page[i] = r[i]
  BY <1>6, <1>8
<1>10. \A i \in 1 .. p : page[i] = journal[m + i]
  BY <1>6, <1>8, <1>9
<1>11. s \in Seq(Event) /\ Len(s) = m + p /\ \A i \in 1 .. m + p : s[i] = journal[i]
  BY <1>5, <1>8
<1> HIDE DEF page, s
<1>12. SubSeq(s, 1, m) = SubSeq(journal, 1, m)
  <2>1. /\ SubSeq(s, 1, m) \in Seq(Event) /\ Len(SubSeq(s, 1, m)) = m
        /\ \A i \in 1 .. m : SubSeq(s, 1, m)[i] = s[i]
    BY <1>8, <1>11
  <2>2. /\ SubSeq(journal, 1, m) \in Seq(Event) /\ Len(SubSeq(journal, 1, m)) = m
        /\ \A i \in 1 .. m : SubSeq(journal, 1, m)[i] = journal[i]
    BY <1>5
  <2>3. \A i \in 1 .. m : s[i] = journal[i]
    BY <1>8, <1>11
  <2> QED BY <2>1, <2>2, <2>3, SameSequence
<1>13. SubSeq(s, m + 1, Len(s)) = page
  <2>1. /\ SubSeq(s, m + 1, Len(s)) \in Seq(Event) /\ Len(SubSeq(s, m + 1, Len(s))) = p
        /\ \A i \in 1 .. p : SubSeq(s, m + 1, Len(s))[i] = s[m + i]
    BY <1>8, <1>11
  <2>2. \A i \in 1 .. p : s[m + i] = journal[m + i]
    BY <1>8, <1>11
  <2> QED BY <1>9, <1>10, <2>1, <2>2, SameSequence
<1>14. m \in 0 .. Len(s)
  BY <1>8, <1>11
<1>15. /\ MetricsIn(s) = MetricsIn(SubSeq(journal, 1, m)) \o MetricsIn(page)
       /\ MetricsIn(SubSeq(journal, 1, m)) \in Seq(Event) /\ MetricsIn(page) \in Seq(Event)
  BY <1>11, <1>12, <1>13, <1>14, PagesJoin
<1>16. Seqs(MetricsIn(s)) = pull.got \o Seqs(MetricsIn(page)) /\ Seqs(MetricsIn(s)) \in Seq(Nat)
  <2>1. Seqs(MetricsIn(s)) = Seqs(MetricsIn(SubSeq(journal, 1, m))) \o Seqs(MetricsIn(page))
    BY <1>15, SeqsFit
  <2>2. Seqs(MetricsIn(s)) \in Seq(Nat)
    <3>1. MetricsIn(s) \in Seq(Event)
      BY <1>15, Concatenated
    <3> QED BY <3>1, SeqsFit
  <2> QED BY <1>5, <2>1, <2>2
<1>17. pull'.since = m + p
  <2>1. CASE r = <<>>
    <3>1. p = 0
      BY <1>6, <1>7, <2>1
    <3> QED BY <1>3, <1>4, <2>1, <3>1
  <2>2. CASE r # <<>>
    <3>1. p \in 1 .. p /\ m + p \in 1 .. LastSeq
      BY <1>7, <1>8, <2>2
    <3>2. Last(page) = journal[m + p]
      BY <1>9, <1>10, <3>1 DEF Last
    <3>3. Last(Page(r)).seq = m + p
      BY <1>5, <1>7, <3>1, <3>2 DEF page
    <3> QED BY <1>4, <2>2, <3>3
  <2> QED BY <2>1, <2>2
<1>18. pull'.got = Seqs(MetricsIn(s)) /\ pull' \in [since : Nat, got : Seq(Nat)]
  <2>1. pull'.got = Seqs(MetricsIn(s))
    BY <1>4, <1>7, <1>16 DEF page
  <2>2. pull' = [since |-> pull'.since, got |-> pull'.got]
    BY <1>4
  <2>3. pull'.since \in Nat /\ pull'.got \in Seq(Nat)
    BY <1>8, <1>16, <1>17, <2>1
  <2> QED BY <2>1, <2>2, <2>3
<1> QED BY <1>2, <1>8, <1>17, <1>18 DEF PullFits, s

----------------------------------------------------------------------------
(* The invariant, and what follows from it.                                 *)

\* Every step of the publication and of its readers keeps the invariant.
LEMMA NextKeepsInv == Inv /\ [Next]_vars => Inv'
<1> SUFFICES ASSUME Inv, [Next]_vars PROVE Inv'
  OBVIOUS
<1>0. LogInv /\ StreamInv /\ PullFits
  BY DEF Inv
<1>1. CASE WorkerEmits \/ \E h \in Handlers : HandlerEmits(h)
  <2>1. LogInv' /\ Grows
    BY <1>0, <1>1, EmitGrows
  <2> QED BY <1>0, <2>1, GrowsKeepsReaders DEF Inv
<1>2. CASE Publish
  <2>1. LogInv' /\ Grows
    BY <1>0, <1>2, PublishGrows
  <2> QED BY <1>0, <2>1, GrowsKeepsReaders DEF Inv
<1>3. CASE StreamStep \/ Subscribe \/ Disconnect
  <2>1. UNCHANGED publication /\ pull' = pull
    BY <1>3 DEF StreamStep, Subscribe, Disconnect, SampleFinished, ReplayRing, ReplayJournal,
                ServeReplay, ReplayEnds, Receive, Lagged
  <2>2. LogInv' /\ LastSeq' = LastSeq /\ journal' = journal
    BY <1>0, <2>1, ReadersOnlyRead
  <2>3. PullFits'
    BY <1>0, <2>1, <2>2 DEF PullFits
  <2>4. StreamInv'
    BY <1>0, <1>3, SubscribeFits, SampleFits, ReplayFits, ServeFits, ReplayEndsFits, ReceiveFits,
       LaggedFits, DisconnectFits DEF StreamStep
  <2> QED BY <2>2, <2>3, <2>4 DEF Inv
<1>4. ASSUME UNCHANGED <<publication, conn, frames>> PROVE LogInv' /\ StreamInv'
  <2>1. /\ LogInv' /\ LastSeq' = LastSeq /\ journal' = journal /\ channel' = channel /\ run' = run
        /\ conn' = conn /\ frames' = frames
    BY <1>0, <1>4, ReadersOnlyRead
  <2>2. StreamType' /\ StreamFits'
    BY <1>0, <2>1 DEF StreamInv, StreamType, StreamFits, Complete, Ends
  <2>3. FramesFit' /\ GapsAreAnnounced'
    BY <1>0, <2>1, FramesStay DEF StreamInv
  <2> QED BY <2>1, <2>2, <2>3 DEF StreamInv
<1>5. CASE PullMetrics
  <2>1. UNCHANGED <<publication, conn, frames>>
    BY <1>5 DEF PullMetrics
  <2> QED BY <1>0, <1>4, <1>5, <2>1, PullKeeps DEF Inv
<1>6. CASE Restart
  BY <1>6, RestartKeepsInv
<1>7. CASE UNCHANGED vars
  <2>1. UNCHANGED <<publication, conn, frames>> /\ pull' = pull
    BY <1>7 DEF vars
  <2>2. LastSeq' = LastSeq /\ journal' = journal
    BY <1>0, <2>1, ReadersOnlyRead
  <2> QED BY <1>0, <1>4, <2>1, <2>2 DEF Inv, PullFits
<1> QED BY <1>1, <1>2, <1>3, <1>5, <1>6, <1>7 DEF Next

\* The invariant: where each copy of an event stands against the log.
THEOREM InvHolds == Spec => []Inv
<1>1. Init => Inv
  BY InitInv
<1>2. Inv /\ [Next]_vars => Inv'
  BY NextKeepsInv
<1> QED BY <1>1, <1>2, PTL DEF Spec

\* Every frame a client was shown is of an event the log has, so that the
\* restart that loses the ring loses nothing a client saw.
THEOREM SeenIsAlwaysRecorded == Spec => []SeenIsRecorded
<1>1. Inv => SeenIsRecorded
  <2> SUFFICES ASSUME Inv, NEW i \in DOMAIN frames, frames[i].kind = "event"
               PROVE  frames[i].at <= LastSeq /\ journal[frames[i].at].seq = frames[i].at
    BY DEF SeenIsRecorded
  <2>1. /\ frames \in Seq(Frame) /\ i \in 1 .. Len(frames)
        /\ frames[i].at <= conn.last /\ frames[i].at > conn.since
    BY DEF Inv, StreamInv, FramesFit, IsShown
  <2>2. frames[i].at \in Nat
    <3>1. frames[i] \in Frame
      BY <2>1
    <3> QED BY <3>1 DEF Frame
  <2>3. /\ LastSeq \in Nat /\ conn.since \in Nat /\ conn.last \in Nat /\ conn.last <= LastSeq
        /\ \A k \in 1 .. LastSeq : journal[k].seq = k
    BY StreamFacts DEF Inv
  <2>4. frames[i].at \in 1 .. LastSeq
    BY <2>1, <2>2, <2>3
  <2> QED BY <2>3, <2>4
<1> QED BY <1>1, InvHolds, PTL

\* A stream has no gap but one a notice told the client of, and it ends after
\* the run did.
THEOREM StreamsAreComplete == Spec => []StreamIsComplete
<1>1. Inv => StreamIsComplete
  <2> SUFFICES ASSUME Inv, conn.pc = "ended"
               PROVE  \/ \E e \in Range(journal) : e.kind = "terminal" /\ e.seq <= conn.last
                      \/ ~run.driven /\ conn.last = LastSeq
    BY DEF StreamIsComplete, EndedStreamIsComplete, Inv, StreamInv
  <2>1. Ends(conn.last) \/ (~run.driven /\ conn.last = LastSeq)
    BY DEF Inv, StreamInv, StreamFits, Complete
  <2>2. ASSUME NEW i \in 1 .. conn.last, journal[i].kind = "terminal"
        PROVE  \E e \in Range(journal) : e.kind = "terminal" /\ e.seq <= conn.last
    <3>1. /\ journal \in Seq(Event) /\ LastSeq \in Nat /\ conn.last \in Nat /\ conn.last <= LastSeq
          /\ \A k \in 1 .. LastSeq : journal[k].seq = k
      BY StreamFacts DEF Inv
    <3>2. i \in 1 .. LastSeq /\ i <= conn.last
      BY <3>1
    <3>3. i \in DOMAIN journal
      BY <3>1, <3>2 DEF LastSeq
    <3>4. journal[i] \in Range(journal)
      BY <3>3 DEF Range
    <3> QED BY <2>2, <3>1, <3>2, <3>4
  <2> QED BY <2>1, <2>2 DEF Ends
<1> QED BY <1>1, InvHolds, PTL

\* The pages a client pulled one after another hold every metric up to its
\* next_since, once and in order.
THEOREM PagesAlwaysMissNothing == Spec => []PagesMissNothing
<1>1. Inv => PagesMissNothing
  <2> SUFFICES ASSUME Inv PROVE PagesMissNothing
    OBVIOUS
  <2>1. PICK m \in Nat : m = pull.since
    BY DEF Inv, PullFits
  <2>2. /\ journal \in Seq(Event) /\ LastSeq \in Nat /\ LastSeq = Len(journal) /\ m <= LastSeq
        /\ \A i \in 1 .. LastSeq : journal[i].seq = i
        /\ pull.got = Seqs(MetricsIn(SubSeq(journal, 1, m)))
    BY <2>1 DEF Inv, LogInv, LogFits, LastSeq, PullFits
  <2>3. {i \in DOMAIN journal : journal[i].seq <= m} = 0 + 1 .. m
    BY <2>2
  <2>4. m \in 0 .. Len(journal) /\ 0 \in 0 .. m
    BY <2>2
  <2>5. Kept(journal, 0 + 1 .. m) = SubSeq(journal, 0 + 1, m)
    BY <2>2, <2>4, KeptInterval
  <2>6. EventsUpTo(journal, m) = SubSeq(journal, 1, m)
    <3>1. 0 + 1 = 1
      OBVIOUS
    <3> QED BY <2>3, <2>5, <3>1 DEF EventsUpTo
  <2> QED BY <2>1, <2>2, <2>6 DEF PagesMissNothing
<1> QED BY <1>1, InvHolds, PTL

\* How far the log can go.
LastOfAll == MaxMetrics + Cardinality(Handlers) + 1
ReplayBounded == \A i \in DOMAIN conn.replay : conn.replay[i].seq \in 1 .. LastOfAll

\* A sequence is one of what its elements are.
LEMMA ElementsFit ==
    ASSUME NEW S, NEW s \in Seq(S), NEW T, \A i \in 1 .. Len(s) : s[i] \in T
    PROVE  s \in Seq(T)
OBVIOUS

\* The log stays within the events there are.
LEMMA LogBounded ==
    ASSUME LogInv
    PROVE  /\ LastOfAll \in Nat /\ LastSeq \in 0 .. LastOfAll
           /\ journal \in Seq([seq : 1 .. LastOfAll, kind : Kinds])
<1>1. /\ run \in [driven : BOOLEAN, metrics : 0 .. MaxMetrics, over : BOOLEAN] /\ MaxMetrics \in Nat
      /\ journal \in Seq(Event) /\ LastSeq \in Nat /\ LastSeq = Len(journal)
      /\ \A i \in 1 .. LastSeq : journal[i].seq = i
      /\ LastSeq <= run.metrics + (IF run.over THEN 1 ELSE 0) + Cardinality(Handlers \ pending)
  BY SizesAssumption DEF LogInv, LogFits, LastSeq
<1>2. /\ Cardinality(Handlers \ pending) <= Cardinality(Handlers)
      /\ Cardinality(Handlers \ pending) \in Nat /\ Cardinality(Handlers) \in Nat
  <2>1. Handlers \ pending \in SUBSET Handlers /\ IsFiniteSet(Handlers)
    BY RoomAssumption
  <2> QED BY <2>1, FS_Subset, FS_CardinalityType
<1>3. run.metrics \in Nat /\ run.metrics <= MaxMetrics
  BY <1>1
<1>4. LastOfAll \in Nat /\ LastSeq \in 0 .. LastOfAll
  BY <1>1, <1>2, <1>3 DEF LastOfAll
<1>5. \A i \in 1 .. LastSeq : journal[i] \in [seq : 1 .. LastOfAll, kind : Kinds]
  <2> TAKE i \in 1 .. LastSeq
  <2>1. journal[i] \in Event /\ journal[i].seq = i
    BY <1>1
  <2>2. i \in 1 .. LastOfAll
    BY <1>4
  <2> QED BY <2>1, <2>2 DEF Event
<1> DEFINE events == [seq : 1 .. LastOfAll, kind : Kinds]
<1>6. \A i \in 1 .. Len(journal) : journal[i] \in events
  BY <1>1, <1>5
<1> HIDE DEF events
<1>7. journal \in Seq(events)
  BY <1>1, <1>6, ElementsFit
<1> QED BY <1>4, <1>7 DEF events

\* What is left of a replay is of the log.
LEMMA ReplayStaysBounded == ASSUME Inv, Inv', ReplayBounded, [Next]_vars PROVE ReplayBounded'
<1>1. conn.replay \in Seq(Event) /\ conn'.replay \in Seq(Event)
  BY DEF Inv, StreamInv, StreamType, Streams
<1>2. CASE conn'.pc = "replaying"
  <2>1. /\ conn'.last \in Nat /\ Len(conn'.replay) \in Nat
        /\ conn'.last + Len(conn'.replay) <= LastSeq'
        /\ \A i \in 1 .. Len(conn'.replay) : conn'.replay[i] = journal'[conn'.last + i]
    BY <1>2 DEF Inv, StreamInv, StreamType, StreamFits, Streams
  <2>2. LastOfAll \in Nat /\ LastSeq' \in 0 .. LastOfAll
    <3>1. LastOfAll' = LastOfAll
      BY DEF LastOfAll
    <3>2. (LastOfAll \in Nat /\ LastSeq \in 0 .. LastOfAll)'
      BY LogBounded, PTL DEF Inv
    <3> QED BY <3>1, <3>2
  <2>3. \A i \in 1 .. LastSeq' : journal'[i].seq = i
    BY DEF Inv, LogInv, LogFits
  <2>4. \A i \in 1 .. Len(conn'.replay) : conn'.last + i \in 1 .. LastSeq' /\ conn'.last + i \in 1 .. LastOfAll
    BY <2>1, <2>2
  <2>5. \A i \in 1 .. Len(conn'.replay) : conn'.replay[i].seq \in 1 .. LastOfAll
    BY <2>1, <2>3, <2>4
  <2>6. DOMAIN conn'.replay = 1 .. Len(conn'.replay) /\ LastOfAll' = LastOfAll
    BY <1>1 DEF LastOfAll
  <2> QED BY <2>5, <2>6 DEF ReplayBounded
<1>3. CASE conn'.replay = conn.replay
  BY <1>3 DEF ReplayBounded, LastOfAll
<1>4. CASE conn'.replay = <<>>
  BY <1>4 DEF ReplayBounded
<1>5. CASE conn.replay # <<>> /\ conn'.replay = Tail(conn.replay)
  <2>1. \A i \in DOMAIN conn'.replay : conn'.replay[i] = conn.replay[i + 1] /\ i + 1 \in DOMAIN conn.replay
    BY <1>1, <1>5
  <2> QED BY <2>1 DEF ReplayBounded, LastOfAll
<1>6. \/ conn'.pc = "replaying" \/ conn'.replay = conn.replay \/ conn'.replay = <<>>
      \/ conn.replay # <<>> /\ conn'.replay = Tail(conn.replay)
  <2>0. conn \in Streams
    BY DEF Inv, StreamInv, StreamType
  <2>1. CASE UNCHANGED conn
    BY <2>1
  <2>2. CASE Restart \/ Disconnect
    BY <2>0, <2>2 DEF Restart, Disconnect, Streams
  <2>3. CASE Subscribe
    BY <2>3 DEF Subscribe
  <2>4. CASE SampleFinished \/ ReplayRing \/ ReplayJournal \/ ReplayEnds \/ Lagged
    BY <2>0, <2>4 DEF SampleFinished, ReplayRing, ReplayJournal, ReplayEnds, Lagged, Streams
  <2>5. CASE ServeReplay
    BY <2>0, <2>5 DEF ServeReplay, Yielded, Streams
  <2>6. CASE Receive
    BY <2>0, <2>6 DEF Receive, Yielded, Streams
  <2>7. WorkerEmits \/ Publish \/ (\E h \in Handlers : HandlerEmits(h)) \/ PullMetrics \/ UNCHANGED vars
        => UNCHANGED conn
    BY DEF WorkerEmits, Publish, PushRing, Broadcast, PublicationEnds, HandlerEmits, PullMetrics, vars
  <2> QED BY <2>1, <2>2, <2>3, <2>4, <2>5, <2>6, <2>7 DEF Next, StreamStep
<1> QED BY <1>2, <1>3, <1>4, <1>5, <1>6

\* The variables keep their types, within the events the handlers and the
\* bound on metrics allow.
THEOREM TypeCorrect == Spec => []TypeOK
<1>1. Init => ReplayBounded
  BY DEF Init, NotConnected, ReplayBounded
<1>2. Inv /\ Inv' /\ ReplayBounded /\ [Next]_vars => ReplayBounded'
  BY ReplayStaysBounded
<1>3. Inv /\ ReplayBounded => TypeOK
  <2> DEFINE events == [seq : 1 .. LastOfAll, kind : Kinds]
             seqs == 0 .. LastOfAll + 1
  <2> SUFFICES ASSUME Inv, ReplayBounded PROVE TypeOK
    OBVIOUS
  <2>1. LastOfAll \in Nat /\ LastSeq \in 0 .. LastOfAll /\ journal \in Seq(events)
    BY LogBounded DEF Inv
  <2>2. LastOfAll + 1 = MaxMetrics + Cardinality(Handlers) + 2
    <3>1. Cardinality(Handlers) \in Nat
      BY RoomAssumption, FS_CardinalityType
    <3> QED BY <3>1, SizesAssumption DEF LastOfAll
  <2> HIDE DEF events, seqs
  <2>3. \A i \in 1 .. LastSeq : journal[i] \in events
    BY <2>1 DEF LastSeq
  <2>4. channel \in Seq(events)
    <3>1. /\ channel \in Seq(Event) /\ Len(channel) \in Nat /\ Len(channel) <= LastSeq
          /\ \A i \in 1 .. Len(channel) : channel[i] = journal[i]
      BY StreamFacts DEF Inv
    <3>2. \A i \in 1 .. Len(channel) : channel[i] \in events
      BY <2>1, <2>3, <3>1
    <3> QED BY <3>1, <3>2
  <2>5. ring \in Seq(events) /\ Len(ring) <= EventRing
    <3>1. /\ ring \in Seq(Event) /\ Len(ring) \in Nat /\ Len(ring) <= EventRing /\ Len(ring) <= Pushed
          /\ \A i \in 1 .. Len(ring) : ring[i] = journal[Pushed - Len(ring) + i]
      BY DEF Inv, LogInv, RingFits
    <3>2. Pushed \in Int /\ Pushed <= LastSeq
      BY <2>1 DEF Pushed
    <3>3. \A i \in 1 .. Len(ring) : Pushed - Len(ring) + i \in 1 .. LastSeq
      BY <2>1, <3>1, <3>2
    <3>4. \A i \in 1 .. Len(ring) : ring[i] \in events
      BY <2>3, <3>1, <3>3
    <3> QED BY <3>1, <3>4
  <2>6. conn.replay \in Seq(events)
    <3>1. conn.replay \in Seq(Event)
      BY StreamFacts DEF Inv
    <3>2. \A i \in 1 .. Len(conn.replay) : conn.replay[i] \in events
      <4> TAKE i \in 1 .. Len(conn.replay)
      <4>1. conn.replay[i] \in Event /\ conn.replay[i].seq \in 1 .. LastOfAll
        BY <3>1 DEF ReplayBounded
      <4> QED BY <4>1 DEF Event, events
    <3> QED BY <3>1, <3>2
  <2>7. /\ conn.pc \in Connected \cup {"away", "ended"} /\ conn.count \in 0 .. MaxConnects
        /\ conn.since \in seqs /\ conn.last \in seqs /\ conn.cursor \in seqs
    <3>1. conn \in Streams /\ conn.since \in Nat /\ conn.last \in Nat /\ conn.cursor \in Nat
          /\ conn.since <= conn.last /\ conn.last <= LastSeq /\ conn.cursor <= LastSeq + 1
      BY StreamFacts DEF Inv
    <3>2. conn.since \in seqs /\ conn.last \in seqs /\ conn.cursor \in seqs
      BY <2>1, <3>1 DEF seqs
    <3> QED BY <3>1, <3>2 DEF Streams
  <2>8. frames \in Seq([kind : {"event", "lagged"}, at : seqs])
    <3>1. frames \in Seq(Frame) /\ conn.last \in Nat /\ conn.last <= LastSeq
          /\ \A i \in 1 .. Len(frames) : frames[i].at <= conn.last
      BY StreamFacts DEF Inv, StreamInv, FramesFit
    <3>2. \A i \in 1 .. Len(frames) : frames[i] \in [kind : {"event", "lagged"}, at : seqs]
      <4> TAKE i \in 1 .. Len(frames)
      <4>1. frames[i] \in Frame /\ frames[i].at <= conn.last
        BY <3>1
      <4>2. frames[i].at \in Nat
        BY <4>1 DEF Frame
      <4>3. frames[i].at \in seqs
        BY <2>1, <3>1, <4>1, <4>2 DEF seqs
      <4> QED BY <4>1, <4>3 DEF Frame
    <3> QED BY <3>1, <3>2, ElementsFit
  <2>9. pull.since \in seqs /\ pull.got \in Seq(seqs)
    <3>1. PICK m \in Nat : m = pull.since
      BY DEF Inv, PullFits
    <3>2. m <= LastSeq /\ LastSeq = Len(journal) /\ pull.got = Seqs(MetricsIn(SubSeq(journal, 1, m)))
      BY <3>1 DEF Inv, PullFits, LastSeq
    <3>3. SubSeq(journal, 1, m) \in Seq(events)
      BY <2>1, <3>2
    <3>4. MetricsIn(SubSeq(journal, 1, m)) \in Seq(events)
      <4> DEFINE s == SubSeq(journal, 1, m)
                 K == {i \in DOMAIN s : s[i].kind = "metrics"}
      <4>1. s \in Seq(events) /\ K \in SUBSET (DOMAIN s)
        BY <3>3
      <4> HIDE DEF s, K
      <4>2. Kept(s, K) \in Seq(events)
        BY <4>1, KeptFits
      <4> QED BY <4>2 DEF MetricsIn, s, K
    <3>5. \A e \in events : e.seq \in seqs
      BY <2>1 DEF events, seqs
    <3>6. ASSUME NEW u \in Seq(events) PROVE Seqs(u) \in Seq(seqs)
      <4>1. DOMAIN u = 1 .. Len(u) /\ Len(u) \in Nat /\ \A i \in 1 .. Len(u) : u[i] \in events
        OBVIOUS
      <4>2. \A i \in 1 .. Len(u) : u[i].seq \in seqs
        BY <3>5, <4>1
      <4> QED BY <4>1, <4>2 DEF Seqs
    <3>7. pull.since \in seqs
      BY <2>1, <3>1, <3>2 DEF seqs
    <3> QED BY <3>2, <3>4, <3>6, <3>7
  <2>10. /\ run \in [driven : BOOLEAN, metrics : 0 .. MaxMetrics, over : BOOLEAN]
         /\ pending \subseteq Handlers
         /\ emission.by \in Handlers \cup {"worker", Nobody}
         /\ emission.stage \in {"none", "appended", "pushed", "sent"}
         /\ next_seq = IF run.driven THEN LastSeq + 1 ELSE 1
         /\ finished \in BOOLEAN
    BY DEF Inv, LogInv, LogFits, EndFits, EmitterStages
  <2> QED BY <2>1, <2>2, <2>4, <2>5, <2>6, <2>7, <2>8, <2>9, <2>10 DEF TypeOK, LastOfAll, events, seqs
<1> QED BY <1>1, <1>2, <1>3, InvHolds, PTL DEF Spec
=============================================================================
