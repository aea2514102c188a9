----------------------------- MODULE RunRecord -----------------------------
(***************************************************************************)
(* The record of a run on disk and in the registry: creation under an      *)
(* idempotency key (api/runs.rs, runtime/registry.rs), the rewriting of    *)
(* run.json at every state change (runtime/journal.rs), the deletion of a  *)
(* finished run (api/artifacts.rs), a crash of the server and the scan of  *)
(* the state directory at its restart.                                     *)
(*                                                                         *)
(* A transition changes the state under its lock and persists after it:    *)
(* the snapshot, the open that truncates and the write are steps that any  *)
(* other writer of the same run may come between.  A document is abstract: *)
(* the status it shows and its length, which grows with every transition   *)
(* it lists.                                                               *)
(*                                                                         *)
(* Left out: events.jsonl, which is only appended to; the progress and the *)
(* error a document carries; a disk that refuses a write.                  *)
(***************************************************************************)
EXTENDS RunStatus, Integers, FiniteSets

CONSTANTS Creates,   \* creation requests; each names the run it would create
          Keyed,     \* those that carry the one Idempotency-Key
          None,      \* no run
          MaxMoves,  \* bound: transitions of a run
          MaxCrashes \* bound: crashes of the server

ASSUME KeyedAssumption == Keyed \subseteq Creates /\ None \notin Creates
ASSUME BoundsAssumption == MaxMoves \in Nat \ {0} /\ MaxCrashes \in Nat

\* Who rewrites a run.json: the request that created the run, its worker, and
\* the handler of a control request.
Writers == {"create", "worker", "handler"}

VARIABLES
    server,  \* "up", or the directories the scan of a restart has left
    crashes, \* crashes so far
    runs,    \* Inner::runs
    owner,   \* Inner::keys, for the one key
    request, \* where each creation request is
    handle,  \* the state in memory of each run, and whether it was restored
    writer,  \* what each writer of each run is doing, with its snapshot
    purging, \* where the deletion of each run is
    file     \* the directory and the run.json of each run

vars == <<server, crashes, runs, owner, request, handle, writer, purging, file>>

----------------------------------------------------------------------------
Lengths == 0 .. MaxMoves + 2
File(kind, status, length) == [kind |-> kind, status |-> status, length |-> length]
Shows(status, length) == File("document", status, length)
Garbled(length) == File("garbled", "none", length)
Without(kind) == File(kind, "none", 0)

NoHandle == [from |-> "none", status |-> "none", length |-> 0]
Resting == [pc |-> "off", status |-> "none", length |-> 0]

Up == server.up
Live(q) == handle[q].from = "live"

TypeOK ==
    /\ server \in [up : BOOLEAN, todo : SUBSET Creates, marking : Creates \cup {None}]
    /\ crashes \in 0 .. MaxCrashes
    /\ runs \subseteq Creates
    /\ owner \in runs \cup {None}
    /\ request \in [Creates -> {"new", "resolving", "candidate", "loser",
                                "registered", "spawned", "told", "cut"}]
    /\ handle \in [Creates -> [from : {"none", "live", "restored"},
                               status : Statuses \cup {"none"}, length : Lengths]]
    /\ writer \in [Creates -> [Writers -> [pc : {"off", "moved", "writing", "open", "unlinked"},
                                           status : Statuses \cup {"none"}, length : Lengths]]]
    /\ purging \in [Creates -> {"off", "unlinking", "removing"}]
    /\ file \in [Creates -> [kind : {"nodir", "nofile", "empty", "garbled", "document"},
                             status : Statuses \cup {"none"}, length : Lengths]]

Init ==
    /\ server = [up |-> TRUE, todo |-> {}, marking |-> None]
    /\ crashes = 0 /\ runs = {} /\ owner = None
    /\ request = [q \in Creates |-> "new"]
    /\ handle = [q \in Creates |-> NoHandle]
    /\ writer = [q \in Creates |-> [a \in Writers |-> Resting]]
    /\ purging = [q \in Creates |-> "off"]
    /\ file = [q \in Creates |-> Without("nodir")]

----------------------------------------------------------------------------
(* Creation.  The key is looked up before the plan is resolved, and again   *)
(* when the run is registered: registration is the arbiter.                 *)

Taken(q) == q \in Keyed /\ owner # None

Lookup(q) ==
    /\ Up /\ request[q] = "new"
    /\ request' = [request EXCEPT ![q] = IF Taken(q) THEN "told" ELSE "resolving"]
    /\ UNCHANGED <<server, crashes, runs, owner, handle, writer, purging, file>>

CreateJournal(q) ==
    /\ Up /\ request[q] = "resolving"
    /\ request' = [request EXCEPT ![q] = "candidate"]
    /\ file' = [file EXCEPT ![q] = Without("nofile")]
    /\ handle' = [handle EXCEPT ![q] = [from |-> "live", status |-> "queued", length |-> 1]]
    /\ UNCHANGED <<server, crashes, runs, owner, writer, purging>>

\* A fault: the key is looked up once, before the plan is resolved.
RegisterUnchecked(q) ==
    /\ Up /\ request[q] = "candidate"
    /\ request' = [request EXCEPT ![q] = "registered"]
    /\ runs' = runs \cup {q}
    /\ owner' = IF q \in Keyed THEN q ELSE owner
    /\ writer' = [writer EXCEPT ![q]["create"].pc = "moved"]
    /\ UNCHANGED <<server, crashes, handle, purging, file>>

Register(q) ==
    /\ Up /\ request[q] = "candidate"
    /\ \/ /\ Taken(q)
          /\ request' = [request EXCEPT ![q] = "loser"]
          /\ UNCHANGED <<runs, owner, writer>>
       \/ /\ ~Taken(q)
          /\ request' = [request EXCEPT ![q] = "registered"]
          /\ runs' = runs \cup {q}
          /\ owner' = IF q \in Keyed THEN q ELSE owner
          /\ writer' = [writer EXCEPT ![q]["create"].pc = "moved"]
    /\ UNCHANGED <<server, crashes, handle, purging, file>>

DiscardCandidate(q) ==
    /\ Up /\ request[q] = "loser"
    /\ request' = [request EXCEPT ![q] = "told"]
    /\ file' = [file EXCEPT ![q] = Without("nodir")]
    /\ handle' = [handle EXCEPT ![q] = NoHandle]
    /\ UNCHANGED <<server, crashes, runs, owner, writer, purging>>

\* A fault: the worker starts, and the client is answered, before the record.
SpawnEarly(q) ==
    /\ Up /\ request[q] = "registered"
    /\ request' = [request EXCEPT ![q] = "spawned"]
    /\ UNCHANGED <<server, crashes, runs, owner, handle, writer, purging, file>>

Spawn(q) ==
    /\ Up /\ request[q] = "registered" /\ writer[q]["create"].pc = "off"
    /\ request' = [request EXCEPT ![q] = "spawned"]
    /\ UNCHANGED <<server, crashes, runs, owner, handle, writer, purging, file>>

----------------------------------------------------------------------------
(* Transitions and the rewriting of run.json.                               *)

\* The statuses each writer asks for.
Asked(a) ==
    IF a = "handler" THEN {"pausing", "cancelling", "cancelled"}
    ELSE {"starting", "running", "paused", "cancelled", "completed", "failed"}

Transition(q, a) ==
    /\ Up /\ Live(q) /\ writer[q][a].pc = "off"
    /\ \/ a = "worker" /\ request[q] = "spawned"
       \/ a = "handler" /\ q \in runs
    /\ handle[q].length <= MaxMoves
    /\ \E s \in Asked(a) \ {handle[q].status} :
          /\ Allowed(handle[q].status, s)
          /\ handle' = [handle EXCEPT ![q].status = s, ![q].length = @ + 1]
    /\ writer' = [writer EXCEPT ![q][a].pc = "moved"]
    /\ UNCHANGED <<server, crashes, runs, owner, request, purging, file>>

\* fail(): whatever became of its transition, the worker persists once more when
\* the terminal event is out; how often it does is not counted.
PersistAgain(q, a) ==
    /\ Up /\ Live(q) /\ writer[q][a].pc = "off"
    /\ a = "worker" /\ request[q] = "spawned"
    /\ handle[q].status \in {"failed", "cancelled"}
    /\ writer' = [writer EXCEPT ![q][a].pc = "moved"]
    /\ UNCHANGED <<server, crashes, runs, owner, request, handle, purging, file>>

Snapshot(q, a) ==
    /\ Up /\ writer[q][a].pc = "moved"
    /\ writer' = [writer EXCEPT ![q][a] =
                    [pc |-> "writing", status |-> handle[q].status, length |-> handle[q].length]]
    /\ UNCHANGED <<server, crashes, runs, owner, request, handle, purging, file>>

\* std::fs::write opens with truncation, and fails if the directory is gone.
OpenDocument(q, a) ==
    /\ Up /\ writer[q][a].pc = "writing"
    /\ \/ /\ file[q].kind = "nodir"
          /\ writer' = [writer EXCEPT ![q][a] = Resting]
          /\ UNCHANGED file
       \/ /\ file[q].kind # "nodir"
          /\ writer' = [writer EXCEPT ![q][a].pc = "open"]
          /\ file' = [file EXCEPT ![q] = Without("empty")]
    /\ UNCHANGED <<server, crashes, runs, owner, request, handle, purging>>

\* It then writes from the start of the file: over what another writer wrote
\* since, whose tail stays if it is longer.
Written(old, doc) ==
    IF doc.length >= old.length THEN Shows(doc.status, doc.length) ELSE Garbled(old.length)

WriteDocument(q, a) ==
    /\ Up
    /\ \/ /\ writer[q][a].pc = "open"
          /\ file' = [file EXCEPT ![q] = Written(@, writer[q][a])]
       \/ writer[q][a].pc = "unlinked" /\ UNCHANGED file
    /\ writer' = [writer EXCEPT ![q][a] = Resting]
    /\ UNCHANGED <<server, crashes, runs, owner, request, handle, purging>>

----------------------------------------------------------------------------
(* DELETE of a finished run.                                                *)

\* A fault: the key of the run is not dropped with it.
PurgeKeepsKey(q) ==
    /\ Up /\ q \in runs /\ handle[q].status \in Terminal /\ purging[q] = "off"
    /\ runs' = runs \ {q}
    /\ purging' = [purging EXCEPT ![q] = "unlinking"]
    /\ UNCHANGED <<server, crashes, owner, request, handle, writer, file>>

Purge(q) ==
    /\ Up /\ q \in runs /\ handle[q].status \in Terminal /\ purging[q] = "off"
    /\ runs' = runs \ {q}
    /\ owner' = IF owner = q THEN None ELSE owner
    /\ purging' = [purging EXCEPT ![q] = "unlinking"]
    /\ UNCHANGED <<server, crashes, request, handle, writer, file>>

\* remove_dir_all: the files first; a writer that has run.json open keeps
\* writing to a file with no name.
UnlinkFiles(q) ==
    /\ Up /\ purging[q] = "unlinking"
    /\ file' = [file EXCEPT ![q] = Without("nofile")]
    /\ writer' = [writer EXCEPT ![q] = [a \in Writers |->
                    IF @[a].pc = "open" THEN [@[a] EXCEPT !.pc = "unlinked"] ELSE @[a]]]
    /\ purging' = [purging EXCEPT ![q] = "removing"]
    /\ UNCHANGED <<server, crashes, runs, owner, request, handle>>

\* Then the directory, which stays if a writer has made a new run.json in it.
RemoveDirectory(q) ==
    /\ Up /\ purging[q] = "removing"
    /\ file' = [file EXCEPT ![q] = IF @.kind = "nofile" THEN Without("nodir") ELSE @]
    /\ purging' = [purging EXCEPT ![q] = "off"]
    /\ UNCHANGED <<server, crashes, runs, owner, request, handle, writer>>

----------------------------------------------------------------------------
(* A crash, and the scan of the restart, which ends before the server       *)
(* answers its first request.                                               *)

Crash ==
    /\ crashes < MaxCrashes
    /\ crashes' = crashes + 1
    /\ server' = [up |-> FALSE, todo |-> Creates, marking |-> None]
    /\ runs' = {} /\ owner' = None
    /\ request' = [q \in Creates |->
                    IF request[q] \in {"new", "spawned", "told"} THEN request[q] ELSE "cut"]
    /\ handle' = [q \in Creates |-> NoHandle]
    /\ writer' = [q \in Creates |-> [a \in Writers |-> Resting]]
    /\ purging' = [q \in Creates |-> "off"]
    /\ UNCHANGED file

Restore(q, doc) ==
    /\ handle' = [handle EXCEPT ![q] = [from |-> "restored", status |-> doc.status, length |-> doc.length]]
    /\ runs' = runs \cup {q}

Scanning(q) == ~Up /\ server.marking = None /\ q \in server.todo
ScanRest == UNCHANGED <<crashes, owner, request, writer, purging>>

\* No directory, or a run.json that does not parse.
ScanSkips(q) ==
    /\ Scanning(q) /\ file[q].kind # "document"
    /\ server' = [server EXCEPT !.todo = @ \ {q}]
    /\ UNCHANGED <<runs, handle, file>> /\ ScanRest

ScanKeeps(q) ==
    /\ Scanning(q) /\ file[q].kind = "document" /\ file[q].status \in Terminal
    /\ server' = [server EXCEPT !.todo = @ \ {q}]
    /\ Restore(q, file[q])
    /\ UNCHANGED file /\ ScanRest

\* A live status: the file is opened, then marked interrupted.
ScanOpens(q) ==
    /\ Scanning(q) /\ file[q].kind = "document" /\ file[q].status \notin Terminal
    /\ server' = [server EXCEPT !.marking = q]
    /\ handle' = [handle EXCEPT ![q] = [from |-> "restored", status |-> "interrupted",
                                        length |-> file[q].length + 1]]
    /\ file' = [file EXCEPT ![q] = Without("empty")]
    /\ UNCHANGED runs /\ ScanRest

ScanMarks(q) ==
    /\ ~Up /\ server.marking = q
    /\ server' = [server EXCEPT !.todo = @ \ {q}, !.marking = None]
    /\ file' = [file EXCEPT ![q] = Shows("interrupted", handle[q].length)]
    /\ runs' = runs \cup {q}
    /\ UNCHANGED handle /\ ScanRest

ScanEnds ==
    /\ ~Up /\ server.todo = {}
    /\ server' = [server EXCEPT !.up = TRUE]
    /\ UNCHANGED <<crashes, runs, owner, request, handle, writer, purging, file>>

----------------------------------------------------------------------------
CreateStep(q) ==
    Lookup(q) \/ CreateJournal(q) \/ Register(q) \/ DiscardCandidate(q) \/ Spawn(q)
WriteStep(q, a) ==
    \/ Transition(q, a) \/ PersistAgain(q, a)
    \/ Snapshot(q, a) \/ OpenDocument(q, a) \/ WriteDocument(q, a)
PurgeStep(q) == Purge(q) \/ UnlinkFiles(q) \/ RemoveDirectory(q)
ScanStep(q) == ScanSkips(q) \/ ScanKeeps(q) \/ ScanOpens(q) \/ ScanMarks(q)

Next ==
    \/ \E q \in Creates : CreateStep(q) \/ PurgeStep(q) \/ ScanStep(q)
    \/ \E q \in Creates, a \in Writers : WriteStep(q, a)
    \/ ScanEnds \/ Crash

Spec == Init /\ [][Next]_vars

----------------------------------------------------------------------------
(* Properties.                                                              *)

\* Of the concurrent requests with one Idempotency-Key, at most one has a run
\* that this process drives.
OneRunPerKey ==
    \A p, q \in runs \cap Keyed : Live(p) /\ Live(q) => p = q

\* A candidate that lost its key leaves no record a restart could restore as
\* a second run, whatever crashed while it was discarded.
LosersLeaveNoRecord ==
    \A q \in Creates : request[q] \in {"loser", "told"} => file[q].kind \in {"nodir", "nofile"}

\* A key has one run and one record: whoever lost the race is neither driven by
\* this process nor restored by the next one.
KeysOwnOneRecord == OneRunPerKey /\ LosersLeaveNoRecord

\* A run whose creation was answered is on disk until it is deleted, so that
\* no worker holds the device for a run a restart would not know.
AnsweredRunIsOnDisk ==
    \A q \in Creates :
        request[q] = "spawned" /\ Live(q) /\ q \in runs => file[q].kind \notin {"nodir", "nofile"}

\* A run.json that shows an outcome shows the outcome of the run: whatever the
\* writers overwrite, none writes an end the run did not have.
RecordedOutcomeIsTrue ==
    \A q \in Creates :
        Live(q) /\ file[q].status \in Terminal => file[q].status = handle[q].status

\* After a restart a restored run is settled, in memory and on disk alike, for
\* as long as it is not deleted: nothing claims to run that does not.
RestoredRunIsSettled ==
    \A q \in runs : Up /\ handle[q].from = "restored" =>
        /\ handle[q].status \in Terminal
        /\ file[q] = Shows(handle[q].status, handle[q].length)

\* What run.json says of an end is so, of a driven run and of a restored one.
RecordsAreTrue == RecordedOutcomeIsTrue /\ RestoredRunIsSettled

\* A transition rewrites run.json: when nobody is writing, the record shows the
\* state of the run.
Quiet(q) == \A a \in Writers : writer[q][a].pc = "off"
RecordCatchesUp ==
    \A q \in runs : Live(q) /\ Quiet(q) /\ request[q] = "spawned"
        => file[q] = Shows(handle[q].status, handle[q].length)
=============================================================================
