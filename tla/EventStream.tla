---------------------------- MODULE EventStream ----------------------------
(***************************************************************************)
(* The events of one run, from the callbacks that emit them to the clients *)
(* that watch: RunHandle::emit and replay (runtime/registry.rs), the       *)
(* append-only log (runtime/journal.rs), and the two readers of            *)
(* api/events.rs, the stream that replays and then follows and the page of *)
(* metrics a client pulls.                                                 *)
(*                                                                         *)
(* An emission holds the ring's lock while it numbers the event, appends   *)
(* it to the log, pushes it on the ring and broadcasts it; whether the run *)
(* is finished is published last.  Readers take the lock for the ring only,*)
(* so every other thing they look at may be in the middle of an emission.  *)
(*                                                                         *)
(* Readers change nothing the run reads: one stream and one puller stand   *)
(* for any number.  The write of a line is one write(2), seen whole or not *)
(* at all by a reader of the log.  Left out: what an event says beyond its *)
(* kind; a disk that refuses a line; the merged stream of all runs, which  *)
(* has no resume point.                                                    *)
(***************************************************************************)
EXTENDS Integers, FiniteSets, SequencesExt, Subsequence

CONSTANTS Handlers,    \* request handlers and the drain: each emits one event, whenever
          MaxMetrics,  \* bound: metric events of the run
          MaxConnects, \* bound: connections of the streaming client
          EventRing,   \* EVENT_RING
          Capacity,    \* BROADCAST_CAPACITY
          PageLimit,   \* the limit of a page of metrics
          Nobody       \* no emitter

ASSUME SizesAssumption ==
    /\ MaxMetrics \in Nat /\ MaxConnects \in Nat
    /\ EventRing \in Nat \ {0} /\ PageLimit \in Nat \ {0} /\ Capacity \in Nat \ {0}
    /\ "worker" \notin Handlers /\ Nobody \notin Handlers \cup {"worker"}

\* Events emitted by handlers after the terminal event do not fill the channel.
ASSUME RoomAssumption == IsFiniteSet(Handlers) /\ Cardinality(Handlers) < Capacity

VARIABLES
    run,      \* whether a worker drives it, and whether the terminal event is out
    pending,  \* the handlers that have not emitted yet
    emission, \* who holds the ring's lock to publish, the event, and how far it is
    next_seq, \* RunHandle::next_seq
    journal,  \* events.jsonl
    ring,     \* RunHandle::ring
    channel,  \* everything sent to RunHandle::live; the last Capacity can be received
    finished, \* RunHandle::events_finished
    conn,     \* the stream of the client: its code and what it has
    frames,   \* what the client received on its latest connection
    pull      \* the client of GET .../metrics: its next_since, and what it has

publication == <<run, pending, emission, next_seq, journal, ring, channel, finished>>
vars == <<publication, conn, frames, pull>>

----------------------------------------------------------------------------
Kinds == {"metrics", "other", "terminal"}
Free == emission.by = Nobody
NoEmission == [by |-> Nobody, stage |-> "none", event |-> [seq |-> 0, kind |-> "other"]]
LastSeq == Len(journal)

EventsAfter(events, since) == Kept(events, {i \in DOMAIN events : events[i].seq > since})
EventFrame(e) == [kind |-> "event", at |-> e.seq]
LaggedFrame(since) == [kind |-> "lagged", at |-> since]

Connected == {"subscribed", "sampled", "reading", "replaying", "following"}
NotConnected == [pc |-> "away", since |-> 0, last |-> 0, cursor |-> 0, over |-> FALSE,
                 replay |-> <<>>, count |-> 0]

TypeOK ==
    LET events == [seq : 1 .. MaxMetrics + Cardinality(Handlers) + 1, kind : Kinds]
        seqs == 0 .. MaxMetrics + Cardinality(Handlers) + 2
    IN  /\ run \in [driven : BOOLEAN, metrics : 0 .. MaxMetrics, over : BOOLEAN]
        /\ pending \subseteq Handlers
        /\ emission.by \in Handlers \cup {"worker", Nobody}
        /\ emission.stage \in {"none", "appended", "pushed", "sent"}
        /\ next_seq = IF run.driven THEN LastSeq + 1 ELSE 1
        /\ journal \in Seq(events) /\ channel \in Seq(events)
        /\ ring \in Seq(events) /\ Len(ring) <= EventRing
        /\ finished \in BOOLEAN
        /\ conn.pc \in Connected \cup {"away", "ended"}
        /\ conn.since \in seqs /\ conn.last \in seqs /\ conn.cursor \in seqs
        /\ conn.replay \in Seq(events) /\ conn.count \in 0 .. MaxConnects
        /\ frames \in Seq([kind : {"event", "lagged"}, at : seqs])
        /\ pull.since \in seqs /\ pull.got \in Seq(seqs)

Init ==
    /\ run = [driven |-> TRUE, metrics |-> 0, over |-> FALSE]
    /\ pending = Handlers
    /\ emission = NoEmission /\ next_seq = 1
    /\ journal = <<>> /\ ring = <<>> /\ channel = <<>>
    /\ finished = FALSE
    /\ conn = NotConnected
    /\ frames = <<>>
    /\ pull = [since |-> 0, got |-> <<>>]

----------------------------------------------------------------------------
(* RunHandle::emit.                                                         *)

Numbered(who, kind) ==
    /\ run.driven /\ Free
    /\ emission' = [by |-> who, stage |-> "appended", event |-> [seq |-> next_seq, kind |-> kind]]
    /\ next_seq' = next_seq + 1
    /\ UNCHANGED <<ring, channel, finished>>

\* A fault: an event that is not of the loop is not written to the log.
AppendSkipped(who, kind) ==
    /\ Numbered(who, kind)
    /\ journal' = IF kind = "other" THEN journal ELSE Append(journal, emission'.event)

\* The lock is taken, the event numbered and its line appended to the log.
AppendEvent(who, kind) ==
    /\ Numbered(who, kind)
    /\ journal' = Append(journal, emission'.event)

\* The metrics of a run and its one terminal event.  The handler that withdraws a
\* queued run emits the latter in the worker's stead, before any metric: the step
\* stands for both.  Left out: the worker that trains on after a withdrawal
\* (CancelledRunHasNoThread in RunControl) and emits metrics and a second
\* terminal event behind the first.
WorkerEmits ==
    /\ ~run.over
    /\ \/ /\ run.metrics < MaxMetrics
          /\ AppendEvent("worker", "metrics")
          /\ run' = [run EXCEPT !.metrics = @ + 1]
       \/ /\ AppendEvent("worker", "terminal")
          /\ run' = [run EXCEPT !.over = TRUE]
    /\ UNCHANGED <<pending, conn, frames, pull>>

\* A handler emits after it has released the state's lock: even after the end.
HandlerEmits(h) ==
    /\ h \in pending
    /\ AppendEvent(h, "other")
    /\ pending' = pending \ {h}
    /\ UNCHANGED <<run, conn, frames, pull>>

Emitting(stage) == ~Free /\ emission.stage = stage

\* A fault: the ring is never trimmed.
PushUntrimmed ==
    /\ Emitting("appended")
    /\ ring' = Append(ring, emission.event)
    /\ emission' = [emission EXCEPT !.stage = "pushed"]
    /\ UNCHANGED <<run, pending, next_seq, journal, channel, finished, conn, frames, pull>>

PushRing ==
    /\ Emitting("appended")
    /\ ring' = Append(IF Len(ring) = EventRing THEN Tail(ring) ELSE ring, emission.event)
    /\ emission' = [emission EXCEPT !.stage = "pushed"]
    /\ UNCHANGED <<run, pending, next_seq, journal, channel, finished, conn, frames, pull>>

Broadcast ==
    /\ Emitting("pushed")
    /\ channel' = Append(channel, emission.event)
    /\ emission' = [emission EXCEPT !.stage = "sent"]
    /\ UNCHANGED <<run, pending, next_seq, journal, ring, finished, conn, frames, pull>>

\* events_finished, if the event is the terminal one, and the lock is released.
PublicationEnds ==
    /\ Emitting("sent")
    /\ finished' = (finished \/ emission.event.kind = "terminal")
    /\ emission' = NoEmission
    /\ UNCHANGED <<run, pending, next_seq, journal, ring, channel, conn, frames, pull>>

----------------------------------------------------------------------------
(* stream_from: subscribe, sample, replay, follow.                          *)

\* Where a client may resume: what it saw last, or what a notice told it.
ResumePoints ==
    {conn.last} \cup {frames[i].at : i \in {j \in DOMAIN frames : frames[j].kind = "lagged"}}

Subscribe ==
    /\ conn.pc \in {"away", "ended"} /\ conn.count < MaxConnects
    /\ \E since \in ResumePoints :
          conn' = [pc |-> "subscribed", since |-> since, last |-> since, cursor |-> Len(channel) + 1,
                   over |-> FALSE, replay |-> <<>>, count |-> conn.count + 1]
    /\ frames' = <<>>
    /\ UNCHANGED <<publication, pull>>

SampleFinished ==
    /\ conn.pc = "subscribed"
    /\ conn' = [conn EXCEPT !.pc = "sampled", !.over = finished]
    /\ UNCHANGED <<publication, frames, pull>>

\* A fault: a ring that starts one event too late is taken to reach back.
CoversLoosely(since) == ring # <<>> /\ ring[1].seq <= since + 2

\* The ring reaches back far enough.
Covers(since) == ring # <<>> /\ ring[1].seq <= since + 1

\* The ring is read under its lock: between emissions.
ReplayRing ==
    /\ conn.pc = "sampled" /\ Free
    /\ conn' = IF Covers(conn.since)
               THEN [conn EXCEPT !.pc = "replaying", !.replay = EventsAfter(ring, conn.since)]
               ELSE [conn EXCEPT !.pc = "reading"]
    /\ UNCHANGED <<publication, frames, pull>>

\* The log is read with no lock: in the middle of an emission too.
ReplayJournal ==
    /\ conn.pc = "reading"
    /\ conn' = [conn EXCEPT !.pc = "replaying", !.replay = EventsAfter(journal, conn.since)]
    /\ UNCHANGED <<publication, frames, pull>>

\* An event goes out, unless it did before; the terminal event ends the stream.
Yielded(c, e) ==
    IF e.seq <= c.last THEN c
    ELSE [c EXCEPT !.last = e.seq, !.pc = IF e.kind = "terminal" THEN "ended" ELSE @]
Shown(last, e) == IF e.seq <= last THEN frames ELSE Append(frames, EventFrame(e))

ServeReplay ==
    /\ conn.pc = "replaying" /\ conn.replay # <<>>
    /\ conn' = Yielded([conn EXCEPT !.replay = Tail(@)], Head(conn.replay))
    /\ frames' = Shown(conn.last, Head(conn.replay))
    /\ UNCHANGED <<publication, pull>>

\* A fault: the subscription is taken after the replay.
ReplayThenSubscribe ==
    /\ conn.pc = "replaying" /\ conn.replay = <<>>
    /\ conn' = [conn EXCEPT !.pc = IF conn.over THEN "ended" ELSE "following",
                            !.cursor = Len(channel) + 1]
    /\ UNCHANGED <<publication, frames, pull>>

ReplayEnds ==
    /\ conn.pc = "replaying" /\ conn.replay = <<>>
    /\ conn' = [conn EXCEPT !.pc = IF conn.over THEN "ended" ELSE "following"]
    /\ UNCHANGED <<publication, frames, pull>>

Oldest == IF Len(channel) > Capacity THEN Len(channel) - Capacity + 1 ELSE 1

Receive ==
    /\ conn.pc = "following" /\ conn.cursor \in Oldest .. Len(channel)
    /\ conn' = Yielded([conn EXCEPT !.cursor = @ + 1], channel[conn.cursor])
    /\ frames' = Shown(conn.last, channel[conn.cursor])
    /\ UNCHANGED <<publication, pull>>

\* The receiver fell behind: it goes on from the oldest event that is left.
Lagged ==
    /\ conn.pc = "following" /\ conn.cursor < Oldest
    /\ conn' = [conn EXCEPT !.cursor = Oldest]
    /\ frames' = Append(frames, LaggedFrame(conn.last))
    /\ UNCHANGED <<publication, pull>>

\* The client goes away, whatever its stream is doing.
Disconnect ==
    /\ conn.pc \in Connected
    /\ conn' = [conn EXCEPT !.pc = "away", !.replay = <<>>]
    /\ UNCHANGED <<publication, frames, pull>>

----------------------------------------------------------------------------
(* GET .../metrics: a page of the metric events after next_since.           *)

MetricsIn(events) == Kept(events, {i \in DOMAIN events : events[i].kind = "metrics"})
Seqs(events) == [i \in DOMAIN events |-> events[i].seq]

\* The loop stops before the event that would follow a full page.
Page(events) ==
    LET full == {k \in DOMAIN events : Len(MetricsIn(SubSeq(events, 1, k))) = PageLimit}
    IN  IF full = {} THEN events ELSE SubSeq(events, 1, Min(full))

\* A fault: next_since moves to the end of the run, not of the page.
PulledToLast(events) ==
    pull' = [since |-> LastSeq, got |-> pull.got \o Seqs(MetricsIn(Page(events)))]

Pulled(events) ==
    pull' = [since |-> IF events = <<>> THEN pull.since ELSE Last(Page(events)).seq,
             got |-> pull.got \o Seqs(MetricsIn(Page(events)))]

\* The check and the reading of the log are one step here: what is appended
\* between them is at most one more event of the same log.
PullMetrics ==
    /\ \/ Free /\ Covers(pull.since) /\ Pulled(EventsAfter(ring, pull.since))
       \/ ~Covers(pull.since) /\ Pulled(EventsAfter(journal, pull.since))
    /\ UNCHANGED <<publication, conn, frames>>

----------------------------------------------------------------------------
\* The server is killed, and restarted: the run is restored from its log, with
\* an empty ring, and its connections are gone.  The scan of run.json decides
\* its status (RunRecord).
Restart ==
    /\ run.driven
    /\ run' = [run EXCEPT !.driven = FALSE]
    /\ pending' = {} /\ emission' = NoEmission /\ next_seq' = 1
    /\ ring' = <<>> /\ channel' = <<>> /\ finished' = TRUE
    /\ conn' = [conn EXCEPT !.pc = IF @ \in Connected THEN "away" ELSE @, !.replay = <<>>]
    /\ UNCHANGED <<journal, frames, pull>>

Publish == PushRing \/ Broadcast \/ PublicationEnds
StreamStep ==
    \/ SampleFinished \/ ReplayRing \/ ReplayJournal \/ ServeReplay \/ ReplayEnds
    \/ Receive \/ Lagged

Next ==
    \/ WorkerEmits \/ Publish \/ StreamStep
    \/ \E h \in Handlers : HandlerEmits(h)
    \/ Subscribe \/ Disconnect \/ PullMetrics \/ Restart

Spec == Init /\ [][Next]_vars

\* The loop reports until its end, an emission that holds the lock completes,
\* and a client that stays connected reads.  Nothing is assumed of the
\* handlers, of the pages or of connecting.
FairSpec ==
    Spec /\ WF_vars(WorkerEmits) /\ WF_vars(Publish) /\ WF_vars(StreamStep)

----------------------------------------------------------------------------
(* Properties.                                                              *)

\* "A reconnecting client neither loses nor duplicates an event": each frame
\* carries the next event, or jumps forward right after a notice that told the
\* client from where to catch up.
SeenBefore(i) ==
    LET shown == {frames[j].at : j \in {k \in 1 .. i - 1 : frames[k].kind = "event"}}
    IN  IF shown = {} THEN conn.since ELSE Max(shown)

GapsAreAnnounced ==
    \A i \in DOMAIN frames : frames[i].kind = "event" =>
        \/ frames[i].at = SeenBefore(i) + 1
        \/ /\ frames[i].at > SeenBefore(i) + 1
           /\ i > 1 /\ frames[i - 1] = LaggedFrame(SeenBefore(i))

\* The log is ahead of every reader: what a client was shown, live or from the
\* ring, is on disk, so that the restart that loses the ring loses nothing a
\* client saw and a resumed stream goes on from where it was.
SeenIsRecorded ==
    \A i \in DOMAIN frames : frames[i].kind = "event" =>
        frames[i].at <= LastSeq /\ journal[frames[i].at].seq = frames[i].at

\* A stream does not end before the client has the terminal event, however the
\* end of the run falls between its subscription, its sample and its replay;
\* of a restored run it ends with the log.
EndedStreamIsComplete ==
    conn.pc = "ended" =>
        \/ \E e \in Range(journal) : e.kind = "terminal" /\ e.seq <= conn.last
        \/ ~run.driven /\ conn.last = LastSeq

\* A stream is complete: no unannounced gap in it, and its end after the run's.
StreamIsComplete == GapsAreAnnounced /\ EndedStreamIsComplete

\* A stream opened before the terminal event ends, without polling.  (One that
\* resumes at the terminal event itself is not due it: see the README.)
Due == conn.pc \in Connected /\ (\A e \in Range(journal) : e.kind = "terminal" => conn.since < e.seq)
StreamEnds == Due ~> (conn.pc \in {"away", "ended"})

EventsUpTo(events, since) == Kept(events, {i \in DOMAIN events : events[i].seq <= since})

\* The pages a client pulls one after another hold every metric up to its
\* next_since, once and in order, whatever is emitted while they are read.
PagesMissNothing ==
    pull.got = Seqs(MetricsIn(EventsUpTo(journal, pull.since)))
=============================================================================
