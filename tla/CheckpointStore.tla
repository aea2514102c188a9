--------------------------- MODULE CheckpointStore ---------------------------
(***************************************************************************)
(* A checkpoint path that is written more than once ("best" is, at every   *)
(* improved evaluation): Checkpoint::write of retrograd-checkpoint, which   *)
(* stages a generation in a sibling directory, moves the previous one       *)
(* aside, renames the new one into place, drops the old one and exports     *)
(* the adapter beside it; and Trainer::load_checkpoint, which resolves the  *)
(* directory and reads it file by file.                                    *)
(*                                                                         *)
(* A file is the generation it was written by, 0 when it is not there.  The *)
(* msgpack members and artifacts, written between the payloads and the      *)
(* manifest and read one by one, are two parts: "progress", the first of    *)
(* them, and "records", the others.  Removing a directory is not atomic; a  *)
(* rename is.  The writer's process may die between any two steps and every *)
(* call on the file system may fail.  The machine does not lose power: the  *)
(* code syncs nothing.  What a write that failed or died has staged stays;  *)
(* the next write stages under another name, and of what it finds no longer *)
(* under its own nothing is kept here, because nothing ever reads it.       *)
(***************************************************************************)
EXTENDS Naturals, Sequences, FiniteSets

CONSTANTS
    Payloads,   \* the payload files the run's policy declares
    Readers,    \* loads under way at a time, of other runs or processes
    Saves       \* bound: generations written

ASSUME PayloadsAssumption == Payloads \subseteq {"adapter", "bundle", "optimizer"}
ASSUME SavesAssumption == Saves \in Nat

Parts == Payloads \cup {"progress", "records", "manifest"}
Generations == 1 .. Saves
Absent == [p \in {} |-> 0]
Directories == [Parts -> 0 .. Saves]
Empty == [p \in Parts |-> 0]
Whole(g) == [p \in Parts |-> g]

VARIABLES
    canonical,  \* the directory at the checkpoint's path
    backup,     \* its predecessor, moved aside
    staged,     \* the directory the last write to begin fills, or left
    export,     \* the adapter published beside the directory, 0 for none
    copied,     \* the temporary copy of it that write made, or left
    writer,     \* the step Checkpoint::write is at
    gen,        \* the generation being written, or written last
    answer,     \* what the last write returned
    landed,     \* generations that were renamed into place
    latest,     \* the last of them
    loads       \* one record per reader

store == <<canonical, backup, staged>>
exports == <<export, copied>>
history == <<landed, latest>>
vars == <<canonical, backup, staged, export, copied, writer, gen, answer, landed, latest, loads>>

Staging == {"payloads", "progress", "records", "manifest"}
Steps == Staging \cup {"idle", "clear", "aside", "publish", "drop", "copy", "unlink", "name"}

------------------------------------------------------------------------------
(* Loads *)

\* What load_checkpoint reads, in its order.  The bundle is opened twice, for
\* its fingerprint and for its tensors.
Order ==
    <<"manifest", "progress", "records">>
    \o (IF "adapter" \in Payloads THEN <<"adapter">> ELSE <<>>)
    \o (IF "bundle" \in Payloads THEN <<"fingerprint", "bundle">> ELSE <<>>)
    \o (IF "optimizer" \in Payloads THEN <<"optimizer">> ELSE <<>>)

\* Reads that go to the directory the read before them was resolved to.
SamePlace == {"progress", "records", "bundle"}

Loads == [at : {"idle", "look", "second", "read", "loaded", "failed"},
          place : {"canonical", "backup"}, todo : Seq(Parts \cup {"fingerprint"}),
          seen : Directories, quiet : BOOLEAN, since : 0 .. Saves]

Active(r) == loads[r].at \in {"look", "second", "read"}

\* The loads under way when the directory at the path changes.
Disturbed == [r \in Readers |->
                 IF Active(r) THEN [loads[r] EXCEPT !.quiet = FALSE] ELSE loads[r]]

Init ==
    /\ canonical = Absent /\ backup = Absent /\ staged = Absent
    /\ export = 0 /\ copied = 0
    /\ writer = "idle" /\ gen = 0 /\ answer = "none"
    /\ landed = {} /\ latest = 0
    /\ loads = [r \in Readers |-> [at |-> "idle", place |-> "canonical", todo |-> <<>>,
                                   seen |-> Empty, quiet |-> TRUE, since |-> 0]]

StartLoad(r) ==
    /\ ~ Active(r)
    /\ loads' = [loads EXCEPT ![r] = [at |-> "look", place |-> "canonical", todo |-> Order,
                                      seen |-> Empty, quiet |-> TRUE, since |-> latest]]
    /\ UNCHANGED <<store, exports, history, writer, gen, answer>>

\* readable_state_dir's first test.
LookCanonical(r) ==
    /\ loads[r].at = "look"
    /\ loads' = [loads EXCEPT ![r].place = "canonical",
                              ![r].at = IF canonical # Absent THEN "read" ELSE "second"]
    /\ UNCHANGED <<store, exports, history, writer, gen, answer>>

\* A fault: a path that is missing has no backup.
LookNoFurther(r) ==
    /\ loads[r].at = "second"
    /\ loads' = [loads EXCEPT ![r].place = "canonical", ![r].at = "read"]
    /\ UNCHANGED <<store, exports, history, writer, gen, answer>>

\* Its second: without a backup the answer is the path itself.
LookBackup(r) ==
    /\ loads[r].at = "second"
    /\ loads' = [loads EXCEPT ![r].place = IF backup # Absent THEN "backup" ELSE "canonical",
                              ![r].at = "read"]
    /\ UNCHANGED <<store, exports, history, writer, gen, answer>>

Directory(r) == IF loads[r].place = "canonical" THEN canonical ELSE backup
Holds(d, p) == p \in DOMAIN d /\ d[p] # 0

\* Whether the read of p finds what it checks for: the file itself, before the
\* first member every member, after the others every declared payload, for the
\* bundle the manifest's fingerprint.
Found(r, p) ==
    LET d == Directory(r) IN
    CASE p = "progress" -> Holds(d, "progress") /\ Holds(d, "records")
      [] p = "records" -> \A q \in Payloads \cup {"records"} : Holds(d, q)
      [] p = "fingerprint" -> Holds(d, "bundle") /\ d["bundle"] = loads[r].seen["manifest"]
      [] OTHER -> Holds(d, p)

ReadPart(r) ==
    LET p == Head(loads[r].todo)
        rest == Tail(loads[r].todo)
    IN
    /\ loads[r].at = "read"
    /\ Found(r, p)
    /\ loads' = [loads EXCEPT
           ![r].seen = IF p \in Parts THEN [@ EXCEPT ![p] = Directory(r)[p]] ELSE @,
           ![r].todo = rest,
           ![r].at = IF rest = <<>> THEN "loaded"
                     ELSE IF Head(rest) \in SamePlace THEN "read" ELSE "look"]
    /\ UNCHANGED <<store, exports, history, writer, gen, answer>>

FailLoad(r) ==
    /\ loads[r].at = "read"
    /\ ~ Found(r, Head(loads[r].todo))
    /\ loads' = [loads EXCEPT ![r].at = "failed"]
    /\ UNCHANGED <<store, exports, history, writer, gen, answer>>

------------------------------------------------------------------------------
(* Checkpoint::write *)

\* A directory of its own, and a name for the copy of the adapter.
Begin ==
    /\ writer = "idle"
    /\ gen < Saves
    /\ gen' = gen + 1
    /\ staged' = Empty
    /\ copied' = 0
    /\ writer' = "payloads"
    /\ answer' = "none"
    /\ UNCHANGED <<canonical, backup, export, history, loads>>

StagePayload(p) ==
    /\ writer = "payloads"
    /\ staged[p] = 0
    /\ staged' = [staged EXCEPT ![p] = gen]
    /\ UNCHANGED <<canonical, backup, exports, history, writer, gen, answer, loads>>

\* A fault: a payload the writer skipped is not missed.
PayloadsAssumed ==
    /\ writer = "payloads"
    /\ writer' = "progress"
    /\ UNCHANGED <<store, exports, history, gen, answer, loads>>

\* The payload writer has returned and every declared file is there.
PayloadsStaged ==
    /\ writer = "payloads"
    /\ \A p \in Payloads : staged[p] # 0
    /\ writer' = "progress"
    /\ UNCHANGED <<store, exports, history, gen, answer, loads>>

\* The manifest last.
StageRecords ==
    /\ \/ writer = "progress" /\ writer' = "records"
       \/ writer = "records" /\ writer' = "manifest"
       \/ writer = "manifest" /\ writer' = "clear"
    /\ staged' = [staged EXCEPT ![writer] = gen]
    /\ UNCHANGED <<canonical, backup, exports, history, gen, answer, loads>>

Return(outcome) ==
    /\ writer' = "idle"
    /\ answer' = outcome

\* `let _ = remove_dir_all`: some of the files, all of them or the directory go.
Discarded(d) ==
    {Absent} \cup {[p \in Parts |-> IF p \in kept THEN d[p] ELSE 0] : kept \in SUBSET Parts}

\* A file could not be written, or the payload writer skipped one.
StageFails ==
    /\ writer \in Staging
    /\ Return("err")
    /\ staged' \in Discarded(staged)
    /\ UNCHANGED <<canonical, backup, exports, history, gen, loads>>

\* remove_dir_all, a file at a time and the directory last.
Removed(d) ==
    IF d = Empty THEN {Absent} ELSE {[d EXCEPT ![p] = 0] : p \in {q \in Parts : d[q] # 0}}

\* A fault: whatever backup there is is taken for stale.
AnyBackup == backup # Absent

\* A backup next to a canonical directory is stale.
BackupIsStale == canonical # Absent /\ backup # Absent

ClearBackup ==
    /\ writer = "clear"
    /\ BackupIsStale
    /\ backup' \in Removed(backup)
    /\ UNCHANGED <<canonical, staged, exports, history, writer, gen, answer, loads>>

Cleared ==
    /\ writer = "clear"
    /\ ~ BackupIsStale
    /\ writer' = "aside"
    /\ UNCHANGED <<store, exports, history, gen, answer, loads>>

MoveAside ==
    /\ writer = "aside"
    /\ writer' = "publish"
    /\ IF canonical = Absent
       THEN UNCHANGED <<canonical, backup, loads>>
       ELSE /\ backup' = canonical
            /\ canonical' = Absent
            /\ loads' = Disturbed
    /\ UNCHANGED <<staged, exports, history, gen, answer>>

Publish ==
    /\ writer = "publish"
    /\ canonical' = staged
    /\ staged' = Absent
    /\ loads' = Disturbed
    /\ landed' = landed \cup {gen}
    /\ latest' = gen
    /\ writer' = "drop"
    /\ UNCHANGED <<backup, exports, gen, answer>>

\* A fault: a publishing rename that fails is answered as one that worked.
PublishUnchecked ==
    /\ writer = "publish"
    /\ Return("ok")
    /\ UNCHANGED <<store, exports, history, gen, loads>>

\* The rename failed; the move back may fail as well.
PublishFails ==
    /\ writer = "publish"
    /\ Return("err")
    /\ staged' \in Discarded(staged)
    /\ \/ /\ backup # Absent
          /\ canonical = Absent
          /\ canonical' = backup
          /\ backup' = Absent
          /\ loads' = Disturbed
       \/ UNCHANGED <<canonical, backup, loads>>
    /\ UNCHANGED <<exports, history, gen>>

DropBackup ==
    /\ writer = "drop"
    /\ backup # Absent
    /\ backup' \in Removed(backup)
    /\ UNCHANGED <<canonical, staged, exports, history, writer, gen, answer, loads>>

\* Only a run that has an adapter exports one.
Dropped ==
    /\ writer = "drop"
    /\ backup = Absent
    /\ IF "adapter" \in Payloads
       THEN writer' = "copy" /\ UNCHANGED answer
       ELSE Return("ok")
    /\ UNCHANGED <<store, exports, history, gen, loads>>

CopyExport ==
    /\ writer = "copy"
    /\ copied' = canonical["adapter"]
    /\ writer' = "unlink"
    /\ UNCHANGED <<store, export, history, gen, answer, loads>>

RemoveExport ==
    /\ writer = "unlink"
    /\ export' = 0
    /\ writer' = "name"
    /\ UNCHANGED <<store, copied, history, gen, answer, loads>>

NameExport ==
    /\ writer = "name"
    /\ export' = copied
    /\ copied' = 0
    /\ Return("ok")
    /\ UNCHANGED <<store, history, gen, loads>>

\* Every `?` after the staging: what was staged, or copied, is left behind.
StepFails ==
    /\ writer \in {"clear", "aside", "drop", "copy", "unlink", "name"}
    /\ Return("err")
    /\ UNCHANGED <<store, exports, history, gen, loads>>

\* The process dies, with the caller that would have had the answer.
Crash ==
    /\ writer # "idle"
    /\ Return("none")
    /\ UNCHANGED <<store, exports, history, gen, loads>>

Stage == Begin \/ (\E p \in Payloads : StagePayload(p)) \/ PayloadsStaged \/ StageRecords
Replace == ClearBackup \/ Cleared \/ MoveAside \/ Publish \/ DropBackup \/ Dropped
Export == CopyExport \/ RemoveExport \/ NameExport
Fault == StageFails \/ StepFails \/ PublishFails \/ Crash
Load(r) == StartLoad(r) \/ LookCanonical(r) \/ LookBackup(r) \/ ReadPart(r) \/ FailLoad(r)

Next == Stage \/ Replace \/ Export \/ Fault \/ \E r \in Readers : Load(r)

Spec == Init /\ [][Next]_vars

------------------------------------------------------------------------------
(* Properties *)

\* A load's record, the directories and the writer's place keep their types;
\* and what a write has staged is its own, and whole before anything that was
\* published is touched: each payload the manifest declares was written.
TypeOK ==
    /\ {canonical, backup} \subseteq Directories \cup {Absent}
    /\ staged \in [Parts -> {0, gen}] \cup {Absent}
    /\ writer \in {"clear", "aside", "publish"} => staged = Whole(gen)
    /\ {export, copied, gen, latest} \subseteq 0 .. Saves
    /\ writer \in Steps
    /\ answer \in {"none", "ok", "err"}
    /\ landed \subseteq Generations
    /\ loads \in [Readers -> Loads]

\* What readable_state_dir resolves to when nothing moves.
Readable == IF canonical # Absent THEN canonical ELSE backup

\* Whatever step of whatever write died or failed, at a first write, a
\* replacement or the one after it, the directory a loader resolves to is the
\* complete last generation that landed, and before the first there is none:
\* "An interrupted write leaves no directory a loader would accept" and "a
\* replacement keeps the prior directory as a recoverable backup".
LatestSurvives == Readable = IF latest = 0 THEN Absent ELSE Whole(latest)

\* A write that returned Ok left its own generation readable, exported when it
\* has an adapter and with no backup beside it; and an export, which no write
\* but a finished one leaves in place whole, is of a generation that landed.
SavedIsPublished ==
    /\ answer = "ok" => /\ canonical = Whole(gen)
                        /\ backup = Absent
                        /\ "adapter" \in Payloads => export = gen
    /\ {export, copied} \subseteq landed \cup {0}

\* A load during which the directory at the path was not moved finds the
\* generation that had landed when it began, whole, through the backup if a
\* crash left only that; and no load, whatever it overlaps, ever reads a file
\* of a write that did not land.
LoadsAreSound ==
    \A r \in Readers :
        /\ loads[r].quiet /\ loads[r].since # 0 => loads[r].at # "failed"
        /\ loads[r].quiet /\ loads[r].at = "loaded" => loads[r].seen = Whole(loads[r].since)
        /\ \A p \in Parts : loads[r].seen[p] \in landed \cup {0}

\* Every load that succeeds read one generation: the files of a checkpoint
\* "become visible as one directory transaction" (Checkpoint::write).  The
\* code does not keep it: a load resolves the path anew for each payload.
LoadsAreWhole ==
    \A r \in Readers : loads[r].at = "loaded" => \E g \in Generations : loads[r].seen = Whole(g)

=============================================================================
