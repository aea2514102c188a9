--------------------------- MODULE RunRecordProofs ---------------------------
(***************************************************************************)
(* Proofs about RunRecord, for every set of creation requests, every       *)
(* number of transitions and any number of crashes.                        *)
(***************************************************************************)
EXTENDS RunRecord, TLAPS

\* A request that has no run yet, and one that was told of another's, have
\* nothing in the registry and nothing on disk a scan would read.
Unregistered ==
    \A q \in Creates : request[q] \in {"new", "resolving", "candidate", "loser", "told"} =>
        /\ q \notin runs
        /\ purging[q] = "off"
        /\ \A a \in Writers : writer[q][a].pc = "off"
        /\ server.marking # q
        /\ file[q].kind \in {"nodir", "nofile"}

\* Nothing is driven while the server is down, and a writer that has moved a
\* run has a run this process drives.
WritersDrive ==
    \A q \in Creates :
        /\ Live(q) => Up
        /\ \A a \in Writers : writer[q][a].pc = "moved" => Live(q)

\* A document of a run that is not over leaves room for one more transition.
RoomToInterrupt ==
    \A q \in Creates :
        /\ Live(q) => handle[q].length <= MaxMoves + 1
        /\ \A a \in Writers : writer[q][a].length <= MaxMoves + 1
        /\ file[q].status \notin Terminal => file[q].kind # "document" \/ file[q].length <= MaxMoves + 1

\* The key belongs to the run it created.
KeyOwner == \A q \in runs \cap Keyed : Live(q) => owner = q

\* A candidate has a handle.
CandidatesLive == \A q \in Creates : request[q] = "candidate" => Live(q)

Inv == TypeOK /\ Unregistered /\ WritersDrive /\ RoomToInterrupt /\ KeyOwner /\ CandidatesLive

----------------------------------------------------------------------------
Pcs == {"off", "moved", "writing", "open", "unlinked"}
FileStates == [kind : {"nodir", "nofile", "empty", "garbled", "document"},
               status : Statuses \cup {"none"}, length : Lengths]
WriterStates == [pc : Pcs, status : Statuses \cup {"none"}, length : Lengths]

\* A writer that takes a step leaves the others as they are.
LEMMA WriterSet ==
    ASSUME TypeOK, NEW q \in Creates, NEW a \in Writers, NEW w \in WriterStates,
           writer' = [writer EXCEPT ![q][a] = w]
    PROVE  /\ writer' \in [Creates -> [Writers -> WriterStates]]
           /\ \A p \in Creates, b \in Writers :
                 writer'[p][b] = IF p = q /\ b = a THEN w ELSE writer[p][b]
BY DEF TypeOK, WriterStates, Pcs

\* So does one that only moves on in its code.
LEMMA WriterMoves ==
    ASSUME TypeOK, NEW q \in Creates, NEW a \in Writers, NEW pc \in Pcs,
           writer' = [writer EXCEPT ![q][a].pc = pc]
    PROVE  /\ writer' \in [Creates -> [Writers -> WriterStates]]
           /\ \A p \in Creates, b \in Writers :
                 /\ writer'[p][b].pc = IF p = q /\ b = a THEN pc ELSE writer[p][b].pc
                 /\ writer'[p][b].status = writer[p][b].status
                 /\ writer'[p][b].length = writer[p][b].length
<1>1. writer[q][a] \in WriterStates
  BY DEF TypeOK, WriterStates, Pcs
<1>2. [writer[q][a] EXCEPT !.pc = pc] \in WriterStates
  BY <1>1 DEF WriterStates
<1>3. writer' = [writer EXCEPT ![q][a] = [writer[q][a] EXCEPT !.pc = pc]]
  BY DEF TypeOK
<1>4. writer \in [Creates -> [Writers -> WriterStates]]
  BY DEF TypeOK, WriterStates, Pcs
<1> QED BY <1>1, <1>2, <1>3, <1>4, WriterSet DEF WriterStates

\* The initial states satisfy the invariant.
LEMMA InvInit == Init => Inv
BY KeyedAssumption, BoundsAssumption
   DEF Init, Inv, TypeOK, Unregistered, WritersDrive, RoomToInterrupt, KeyOwner, CandidatesLive,
       Lengths,
       NoHandle, Resting, Without, File, Writers, Live, Up, Statuses, Terminal

\* Every step of a creation keeps the invariant.
LEMMA InvCreate ==
    ASSUME Inv, NEW q \in Creates, CreateStep(q)
    PROVE  Inv'
<1>1. CASE Lookup(q)
  BY <1>1, KeyedAssumption, BoundsAssumption
     DEF Lookup, Inv, TypeOK, Unregistered, WritersDrive, RoomToInterrupt, KeyOwner, CandidatesLive,
         Lengths, Up, Live, Taken
<1>2. CASE CreateJournal(q)
  BY <1>2, KeyedAssumption, BoundsAssumption
     DEF CreateJournal, Inv, TypeOK, Unregistered, WritersDrive, RoomToInterrupt, KeyOwner,
         CandidatesLive, Lengths, Up, Live, Without, File, Live, Statuses
<1>3. CASE Register(q) /\ Taken(q)
  <2>1. /\ request[q] = "candidate" /\ request' = [request EXCEPT ![q] = "loser"]
        /\ UNCHANGED <<server, crashes, runs, owner, handle, writer, purging, file>>
        /\ TypeOK /\ Unregistered
    BY <1>3 DEF Register, Inv
  <2>2. TypeOK' /\ Unregistered'
    BY <2>1 DEF TypeOK, Unregistered
  <2>3. WritersDrive' /\ RoomToInterrupt' /\ KeyOwner' /\ CandidatesLive'
    BY <2>1 DEF Inv, TypeOK, WritersDrive, RoomToInterrupt, KeyOwner, CandidatesLive, Live, Up
  <2> QED BY <2>2, <2>3 DEF Inv
<1>6. CASE Register(q) /\ ~Taken(q)
  <2>1. /\ request[q] = "candidate" /\ request' = [request EXCEPT ![q] = "registered"]
        /\ runs' = runs \cup {q}
        /\ owner' = IF q \in Keyed THEN q ELSE owner
        /\ writer' = [writer EXCEPT ![q]["create"].pc = "moved"]
        /\ UNCHANGED <<server, crashes, handle, purging, file>>
        /\ Up /\ TypeOK
    BY <1>6 DEF Register, Inv
  <2>2. "create" \in Writers /\ "moved" \in Pcs
    BY DEF Writers, Pcs
  <2>3. /\ writer' \in [Creates -> [Writers -> WriterStates]]
        /\ \A p \in Creates, b \in Writers :
              /\ writer'[p][b].pc = IF p = q /\ b = "create" THEN "moved" ELSE writer[p][b].pc
              /\ writer'[p][b].status = writer[p][b].status
              /\ writer'[p][b].length = writer[p][b].length
    BY <2>1, <2>2, WriterMoves, ZenonT(30)
  <2>4. TypeOK'
    BY <2>1, <2>3 DEF TypeOK, WriterStates, Pcs
  <2>5. Unregistered'
    BY <2>1, <2>3 DEF Inv, Unregistered, TypeOK
  <2>6. WritersDrive'
    BY <2>1, <2>3 DEF Inv, WritersDrive, Up, Live, CandidatesLive
  <2>7. RoomToInterrupt'
    BY <2>1, <2>3 DEF Inv, RoomToInterrupt, Live
  <2>8. KeyOwner'
    BY <1>6, <2>1, KeyedAssumption DEF Inv, KeyOwner, Live, Taken, TypeOK
  <2>9. CandidatesLive'
    BY <2>1 DEF Inv, CandidatesLive, Live, TypeOK
  <2> QED BY <2>4, <2>5, <2>6, <2>7, <2>8, <2>9 DEF Inv
<1>4. CASE DiscardCandidate(q)
  BY <1>4, KeyedAssumption, BoundsAssumption
     DEF DiscardCandidate, Inv, TypeOK, Unregistered, WritersDrive, RoomToInterrupt, KeyOwner,
         CandidatesLive, Lengths, Up, Live, Without, File, NoHandle, Live
<1>5. CASE Spawn(q)
  BY <1>5, KeyedAssumption, BoundsAssumption
     DEF Spawn, Inv, TypeOK, Unregistered, WritersDrive, RoomToInterrupt, KeyOwner, CandidatesLive,
         Lengths, Up, Live
<1> QED BY <1>1, <1>2, <1>3, <1>4, <1>5, <1>6 DEF CreateStep

\* So does every step of a deletion.
LEMMA InvPurge ==
    ASSUME Inv, NEW q \in Creates, PurgeStep(q)
    PROVE  Inv'
<1>1. CASE Purge(q)
  BY <1>1, KeyedAssumption, BoundsAssumption
     DEF Purge, Inv, TypeOK, Unregistered, WritersDrive, RoomToInterrupt, KeyOwner, CandidatesLive,
         Lengths, Up, Live
<1>2. CASE UnlinkFiles(q)
  <2> USE DEF Inv, TypeOK, UnlinkFiles, Lengths, Up, Live, Without, File, Writers
  <2>1. TypeOK'
    BY <1>2, BoundsAssumption, KeyedAssumption DEF RoomToInterrupt, WritersDrive
  <2>2. Unregistered'
    BY <1>2 DEF Unregistered
  <2>3. WritersDrive'
    BY <1>2 DEF WritersDrive, Unregistered
  <2>4. RoomToInterrupt'
    BY <1>2, BoundsAssumption DEF RoomToInterrupt, WritersDrive
  <2>5. KeyOwner'
    BY <1>2, KeyedAssumption DEF KeyOwner, Unregistered
  <2>6. CandidatesLive'
    BY <1>2 DEF CandidatesLive
  <2> QED BY <2>1, <2>2, <2>3, <2>4, <2>5, <2>6
<1>3. CASE RemoveDirectory(q)
  BY <1>3, KeyedAssumption, BoundsAssumption
     DEF RemoveDirectory, Inv, TypeOK, Unregistered, WritersDrive, RoomToInterrupt, KeyOwner,
         CandidatesLive, Lengths, Up, Live, Without, File
<1> QED BY <1>1, <1>2, <1>3 DEF PurgeStep

\* So does every step of the scan.
LEMMA InvScan ==
    ASSUME Inv, NEW q \in Creates, ScanStep(q)
    PROVE  Inv'
<1>1. CASE ScanSkips(q)
  <2>1. /\ server' = [server EXCEPT !.todo = @ \ {q}] /\ ~Up /\ TypeOK
        /\ UNCHANGED <<crashes, runs, owner, request, handle, writer, purging, file>>
    BY <1>1 DEF ScanSkips, Scanning, ScanRest, Inv
  <2>2. TypeOK' /\ Up' = Up /\ server'.marking = server.marking
    BY <2>1 DEF TypeOK, Up
  <2>3. Unregistered' /\ WritersDrive' /\ RoomToInterrupt' /\ KeyOwner' /\ CandidatesLive'
    BY <2>1, <2>2 DEF Inv, Unregistered, WritersDrive, RoomToInterrupt, KeyOwner, CandidatesLive,
        Live
  <2> QED BY <2>2, <2>3 DEF Inv
<1>2. CASE ScanKeeps(q)
  <2>1. handle' = [handle EXCEPT ![q] = [from |-> "restored", status |-> file[q].status, length |-> file[q].length]]
    BY <1>2 DEF ScanKeeps, Restore
  <2>2. \A p \in Creates : Live(p)' <=> Live(p) /\ p # q
    BY <2>1 DEF Inv, TypeOK, Live
  <2>3. TypeOK'
    <3>1. handle' \in [Creates -> [from : {"none", "live", "restored"},
                                   status : Statuses \cup {"none"}, length : Lengths]]
      BY <2>1 DEF Inv, TypeOK
    <3> QED BY <1>2, <3>1 DEF ScanKeeps, Scanning, ScanRest, Restore, Inv, TypeOK
  <2>4. ~Live(q)
    BY <1>2 DEF ScanKeeps, Scanning, Inv, WritersDrive
  <2>5. Unregistered' /\ WritersDrive' /\ CandidatesLive'
    BY <1>2, <2>2, <2>4 DEF ScanKeeps, Scanning, ScanRest, Restore, Inv, TypeOK, Unregistered,
        WritersDrive,
       CandidatesLive, Up
  <2>6. RoomToInterrupt' /\ KeyOwner'
    BY <1>2, <2>1, <2>2, <2>4 DEF ScanKeeps, ScanRest, Restore, Inv, TypeOK, RoomToInterrupt,
        KeyOwner
  <2> QED BY <2>3, <2>5, <2>6 DEF Inv
<1>3. CASE ScanOpens(q)
  <2>1. /\ ~Up /\ UNCHANGED <<crashes, owner, request, writer, purging, runs>>
        /\ file[q].kind = "document" /\ file[q].status \notin Terminal
        /\ server' = [server EXCEPT !.marking = q]
        /\ handle' = [handle EXCEPT ![q] = [from |-> "restored", status |-> "interrupted",
                                            length |-> file[q].length + 1]]
        /\ file' = [file EXCEPT ![q] = [kind |-> "empty", status |-> "none", length |-> 0]]
    BY <1>3 DEF ScanOpens, Scanning, ScanRest, Without, File
  <2>2. file[q].length + 1 \in Lengths
    BY <2>1, BoundsAssumption DEF Inv, TypeOK, RoomToInterrupt, Lengths
  <2>3. \A p \in Creates : Live(p)' <=> Live(p) /\ p # q
    BY <2>1 DEF Inv, TypeOK, Live
  <2>4. ~Live(q)
    BY <2>1 DEF Inv, WritersDrive
  <2>5. TypeOK'
    <3>1. handle' \in [Creates -> [from : {"none", "live", "restored"},
                                   status : Statuses \cup {"none"}, length : Lengths]]
      BY <2>1, <2>2 DEF Inv, TypeOK, Statuses
    <3>2. file' \in [Creates -> [kind : {"nodir", "nofile", "empty", "garbled", "document"},
                                 status : Statuses \cup {"none"}, length : Lengths]]
      BY <2>1, BoundsAssumption DEF Inv, TypeOK, Lengths
    <3> QED BY <2>1, <3>1, <3>2 DEF Inv, TypeOK
  <2>6. Unregistered' /\ WritersDrive' /\ CandidatesLive'
    BY <2>1, <2>3, <2>4 DEF Inv, TypeOK, Unregistered, WritersDrive, CandidatesLive, Up
  <2>7. RoomToInterrupt' /\ KeyOwner'
    BY <2>1, <2>3, <2>4 DEF Inv, TypeOK, RoomToInterrupt, KeyOwner, Live
  <2> QED BY <2>5, <2>6, <2>7 DEF Inv
<1>4. CASE ScanMarks(q)
  <2>1. /\ ~Up /\ UNCHANGED <<crashes, owner, request, writer, purging, handle>>
        /\ server.marking = q
        /\ server' = [server EXCEPT !.todo = @ \ {q}, !.marking = None]
        /\ file' = [file EXCEPT ![q] = [kind |-> "document", status |-> "interrupted",
                                        length |-> handle[q].length]]
        /\ runs' = runs \cup {q}
    BY <1>4 DEF ScanMarks, ScanRest, Shows, File
  <2>2. \A p \in Creates : ~Live(p)
    BY <2>1 DEF Inv, WritersDrive
  <2>3. TypeOK'
    BY <2>1 DEF Inv, TypeOK, Statuses
  <2>4. Unregistered' /\ WritersDrive' /\ CandidatesLive'
    BY <2>1, <2>2, KeyedAssumption DEF Inv, TypeOK, Unregistered, WritersDrive, CandidatesLive, Up,
        Live
  <2>5. RoomToInterrupt' /\ KeyOwner'
    BY <2>1, <2>2 DEF Inv, TypeOK, RoomToInterrupt, KeyOwner, Live, Terminal
  <2> QED BY <2>3, <2>4, <2>5 DEF Inv
<1> QED BY <1>1, <1>2, <1>3, <1>4 DEF ScanStep

\* So does every step of a writer.
LEMMA InvWrite ==
    ASSUME Inv, NEW q \in Creates, NEW a \in Writers, WriteStep(q, a)
    PROVE  Inv'
<1>0. TypeOK
  BY DEF Inv
<1>1. CASE Transition(q, a)
  <2>1. PICK s \in Asked(a) \ {handle[q].status} :
            handle' = [handle EXCEPT ![q].status = s, ![q].length = @ + 1]
    BY <1>1 DEF Transition
  <2>2. /\ Up /\ Live(q) /\ handle[q].length <= MaxMoves
        /\ request[q] = "spawned" \/ q \in runs
        /\ writer' = [writer EXCEPT ![q][a].pc = "moved"]
        /\ UNCHANGED <<server, crashes, runs, owner, request, purging, file>>
    BY <1>1 DEF Transition
  <2>3. /\ writer' \in [Creates -> [Writers -> WriterStates]]
        /\ \A p \in Creates, b \in Writers :
              /\ writer'[p][b].pc = IF p = q /\ b = a THEN "moved" ELSE writer[p][b].pc
              /\ writer'[p][b].status = writer[p][b].status
              /\ writer'[p][b].length = writer[p][b].length
    <3>1. "moved" \in Pcs
      BY DEF Pcs
    <3> QED BY <1>0, <2>2, <3>1, WriterMoves, ZenonT(30)
  <2>4. s \in Statuses
    BY <2>1 DEF Asked, Statuses
  <2>5. /\ handle' \in [Creates -> [from : {"none", "live", "restored"},
                                     status : Statuses \cup {"none"}, length : Lengths]]
        /\ \A p \in Creates : Live(p)' <=> Live(p)
        /\ \A p \in Creates : handle'[p].length = IF p = q THEN handle[p].length + 1 ELSE handle[p].length
    <3> DEFINE h == [handle[q] EXCEPT !.status = s, !.length = handle[q].length + 1]
    <3>1. handle[q] \in [from : {"none", "live", "restored"}, status : Statuses \cup {"none"}, length : Lengths]
      BY <1>0 DEF TypeOK
    <3>2. /\ h \in [from : {"none", "live", "restored"}, status : Statuses \cup {"none"}, length : Lengths]
          /\ h.from = handle[q].from /\ h.length = handle[q].length + 1
      <4>1. handle[q].length + 1 \in Lengths
        BY <2>2, <3>1, BoundsAssumption DEF Lengths
      <4> QED BY <2>4, <3>1, <4>1
    <3>3. handle' = [handle EXCEPT ![q] = h]
      BY <1>0, <2>1 DEF TypeOK
    <3> HIDE DEF h
    <3> QED BY <1>0, <3>2, <3>3 DEF TypeOK, Live
  <2>6. TypeOK'
    BY <1>0, <2>2, <2>3, <2>5 DEF TypeOK, WriterStates, Pcs
  <2>7. Unregistered' /\ WritersDrive' /\ CandidatesLive'
    BY <2>2, <2>3, <2>5 DEF Inv, Unregistered, WritersDrive, CandidatesLive, Up
  <2>8. RoomToInterrupt' /\ KeyOwner'
    BY <1>0, <2>2, <2>3, <2>5, BoundsAssumption DEF Inv, TypeOK, RoomToInterrupt, KeyOwner, Lengths
  <2> QED BY <2>6, <2>7, <2>8 DEF Inv
<1>5. CASE PersistAgain(q, a)
  <2>1. /\ Up /\ Live(q) /\ request[q] = "spawned"
        /\ writer' = [writer EXCEPT ![q][a].pc = "moved"]
        /\ UNCHANGED <<server, crashes, runs, owner, request, handle, purging, file>>
    BY <1>5 DEF PersistAgain
  <2>2. /\ writer' \in [Creates -> [Writers -> WriterStates]]
        /\ \A p \in Creates, b \in Writers :
              /\ writer'[p][b].pc = IF p = q /\ b = a THEN "moved" ELSE writer[p][b].pc
              /\ writer'[p][b].status = writer[p][b].status
              /\ writer'[p][b].length = writer[p][b].length
    <3>1. "moved" \in Pcs
      BY DEF Pcs
    <3> QED BY <1>0, <2>1, <3>1, WriterMoves, ZenonT(30)
  <2>3. TypeOK'
    BY <1>0, <2>1, <2>2 DEF TypeOK, WriterStates, Pcs
  <2>4. Unregistered' /\ WritersDrive' /\ CandidatesLive'
    BY <2>1, <2>2 DEF Inv, Unregistered, WritersDrive, CandidatesLive, Up, Live
  <2>5. RoomToInterrupt' /\ KeyOwner'
    BY <2>1, <2>2 DEF Inv, RoomToInterrupt, KeyOwner, Live
  <2> QED BY <2>3, <2>4, <2>5 DEF Inv
<1>2. CASE Snapshot(q, a)
  <2> DEFINE w == [pc |-> "writing", status |-> handle[q].status, length |-> handle[q].length]
  <2>1. /\ Up /\ writer[q][a].pc = "moved"
        /\ writer' = [writer EXCEPT ![q][a] = w]
        /\ UNCHANGED <<server, crashes, runs, owner, request, handle, purging, file>>
    BY <1>2 DEF Snapshot
  <2>2. w \in WriterStates /\ w.pc = "writing" /\ w.length = handle[q].length
    BY <1>0 DEF TypeOK, WriterStates, Pcs
  <2>3. w.length <= MaxMoves + 1
    BY <2>1, <2>2 DEF Inv, WritersDrive, RoomToInterrupt
  <2> HIDE DEF w
  <2>4. /\ writer' \in [Creates -> [Writers -> WriterStates]]
        /\ \A p \in Creates, b \in Writers : writer'[p][b] = IF p = q /\ b = a THEN w ELSE writer[p][b]
    BY <1>0, <2>1, <2>2, WriterSet
  <2>5. TypeOK'
    BY <1>0, <2>1, <2>4 DEF TypeOK, WriterStates, Pcs
  <2>6. Unregistered' /\ WritersDrive' /\ CandidatesLive'
    BY <2>1, <2>2, <2>4 DEF Inv, Unregistered, WritersDrive, CandidatesLive, Up, Live
  <2>7. RoomToInterrupt' /\ KeyOwner'
    BY <2>1, <2>3, <2>4 DEF Inv, RoomToInterrupt, KeyOwner, Live
  <2> QED BY <2>5, <2>6, <2>7 DEF Inv
<1>3. CASE OpenDocument(q, a)
  <2>1. /\ Up /\ writer[q][a].pc = "writing"
        /\ UNCHANGED <<server, crashes, runs, owner, request, handle, purging>>
        /\ file' = file \/ file' = [file EXCEPT ![q] = [kind |-> "empty", status |-> "none", length |-> 0]]
    BY <1>3 DEF OpenDocument, Without, File
  <2>2. PICK w \in WriterStates : /\ w.pc \in {"off", "open"} /\ w.length <= MaxMoves + 1
                                  /\ writer' = [writer EXCEPT ![q][a] = w]
    <3>1. CASE writer' = [writer EXCEPT ![q][a] = Resting]
      <4>1. Resting \in WriterStates /\ Resting.pc = "off" /\ Resting.length <= MaxMoves + 1
        BY BoundsAssumption DEF Resting, WriterStates, Pcs, Lengths
      <4> QED BY <3>1, <4>1
    <3>2. CASE writer' = [writer EXCEPT ![q][a].pc = "open"]
      <4>1. writer' = [writer EXCEPT ![q][a] = [writer[q][a] EXCEPT !.pc = "open"]]
        BY <1>0, <3>2 DEF TypeOK
      <4>2. [writer[q][a] EXCEPT !.pc = "open"] \in WriterStates
        <5>1. writer[q][a] \in WriterStates
          BY <1>0 DEF TypeOK, WriterStates, Pcs
        <5> QED BY <5>1 DEF WriterStates, Pcs
      <4>3. /\ [writer[q][a] EXCEPT !.pc = "open"].pc = "open"
            /\ [writer[q][a] EXCEPT !.pc = "open"].length <= MaxMoves + 1
        BY <1>0 DEF Inv, TypeOK, RoomToInterrupt
      <4> QED BY <4>1, <4>2, <4>3
    <3> QED BY <1>3, <3>1, <3>2 DEF OpenDocument
  <2>3. /\ writer' \in [Creates -> [Writers -> WriterStates]]
        /\ \A p \in Creates, b \in Writers : writer'[p][b] = IF p = q /\ b = a THEN w ELSE writer[p][b]
    BY <1>0, <2>2, WriterSet
  <2>4. /\ file' \in [Creates -> [kind : {"nodir", "nofile", "empty", "garbled", "document"},
                                  status : Statuses \cup {"none"}, length : Lengths]]
        /\ \A p \in Creates : p # q => file'[p] = file[p]
        /\ file'[q] = file[q] \/ file'[q].kind = "empty"
    <3>1. [kind |-> "empty", status |-> "none", length |-> 0] \in FileStates
      BY BoundsAssumption DEF FileStates, Lengths
    <3>2. file \in [Creates -> FileStates]
      BY <1>0 DEF TypeOK, FileStates
    <3>3. file' \in [Creates -> FileStates]
      BY <2>1, <3>1, <3>2
    <3> QED BY <2>1, <3>2, <3>3 DEF FileStates
  <2>5. TypeOK'
    BY <1>0, <2>1, <2>3, <2>4 DEF TypeOK, WriterStates, Pcs
  <2>6. Unregistered' /\ WritersDrive' /\ CandidatesLive'
    BY <2>1, <2>2, <2>3, <2>4 DEF Inv, Unregistered, WritersDrive, CandidatesLive, Up, Live
  <2>7. RoomToInterrupt' /\ KeyOwner'
    BY <2>1, <2>2, <2>3, <2>4 DEF Inv, RoomToInterrupt, KeyOwner, Live
  <2> QED BY <2>5, <2>6, <2>7 DEF Inv
<1>4. CASE WriteDocument(q, a)
  <2>1. /\ Up /\ writer[q][a].pc \in {"open", "unlinked"}
        /\ UNCHANGED <<server, crashes, runs, owner, request, handle, purging>>
        /\ file' = file \/ file' = [file EXCEPT ![q] = Written(file[q], writer[q][a])]
        /\ writer' = [writer EXCEPT ![q][a] = Resting]
    BY <1>4 DEF WriteDocument
  <2>2. Resting \in WriterStates /\ Resting.pc = "off" /\ Resting.length <= MaxMoves + 1
    BY BoundsAssumption DEF Resting, WriterStates, Pcs, Lengths
  <2>3. /\ writer' \in [Creates -> [Writers -> WriterStates]]
        /\ \A p \in Creates, b \in Writers : writer'[p][b] = IF p = q /\ b = a THEN Resting ELSE writer[p][b]
    BY <1>0, <2>1, <2>2, WriterSet
  <2>4. /\ Written(file[q], writer[q][a]) \in
              [kind : {"nodir", "nofile", "empty", "garbled", "document"},
               status : Statuses \cup {"none"}, length : Lengths]
        /\ \/ Written(file[q], writer[q][a]).kind = "garbled"
           \/ Written(file[q], writer[q][a]).length <= MaxMoves + 1
    BY <1>0 DEF Inv, TypeOK, Written, Shows, Garbled, File, RoomToInterrupt
  <2>5. /\ file' \in [Creates -> [kind : {"nodir", "nofile", "empty", "garbled", "document"},
                                  status : Statuses \cup {"none"}, length : Lengths]]
        /\ \A p \in Creates : p # q => file'[p] = file[p]
        /\ \/ file'[q] = file[q]
           \/ file'[q].kind = "garbled"
           \/ file'[q].length <= MaxMoves + 1
    <3> DEFINE d == Written(file[q], writer[q][a])
    <3>1. file \in [Creates -> FileStates] /\ d \in FileStates
      BY <1>0, <2>4 DEF TypeOK, FileStates
    <3>2. file' = file \/ file' = [file EXCEPT ![q] = d]
      BY <2>1
    <3>3. d.kind = "garbled" \/ d.length <= MaxMoves + 1
      BY <2>4
    <3> HIDE DEF d
    <3>4. file' \in [Creates -> FileStates]
      BY <3>1, <3>2
    <3> QED BY <3>1, <3>2, <3>3, <3>4 DEF FileStates
  <2>6. TypeOK'
    BY <1>0, <2>1, <2>3, <2>5 DEF TypeOK, WriterStates, Pcs
  <2>7. Unregistered' /\ WritersDrive' /\ CandidatesLive'
    BY <2>1, <2>2, <2>3, <2>5 DEF Inv, Unregistered, WritersDrive, CandidatesLive, Up, Live
  <2>8. RoomToInterrupt' /\ KeyOwner'
    BY <2>1, <2>2, <2>3, <2>5 DEF Inv, RoomToInterrupt, KeyOwner, Live
  <2> QED BY <2>6, <2>7, <2>8 DEF Inv
<1> QED BY <1>1, <1>2, <1>3, <1>4, <1>5 DEF WriteStep

\* A crash and the end of a scan keep it too.
LEMMA InvCrash == Inv /\ (Crash \/ ScanEnds) => Inv'
<1>1. ASSUME Inv, Crash PROVE Inv'
  <2>1. TypeOK'
    BY <1>1, KeyedAssumption, BoundsAssumption
       DEF Crash, Inv, TypeOK, NoHandle, Resting, Lengths, Writers
  <2>2. \A q \in Creates : request'[q] \in {"new", "resolving", "candidate", "loser", "told"} =>
            request[q] \in {"new", "told"}
    BY <1>1 DEF Crash
  <2>3. Unregistered' /\ WritersDrive' /\ CandidatesLive'
    BY <1>1, <2>2, KeyedAssumption
       DEF Crash, Inv, Unregistered, WritersDrive, CandidatesLive, Live, Up, NoHandle, Resting
  <2>4. RoomToInterrupt' /\ KeyOwner'
    BY <1>1, BoundsAssumption DEF Crash, Inv, RoomToInterrupt, KeyOwner, Live, NoHandle, Resting
  <2> QED BY <2>1, <2>3, <2>4 DEF Inv
<1>2. ASSUME Inv, ScanEnds PROVE Inv'
  <2>1. /\ server' = [server EXCEPT !.up = TRUE] /\ TypeOK
        /\ UNCHANGED <<crashes, runs, owner, request, handle, writer, purging, file>>
    BY <1>2 DEF ScanEnds, Inv
  <2>2. TypeOK' /\ Up' /\ server'.marking = server.marking
    BY <2>1 DEF TypeOK, Up
  <2>3. Unregistered' /\ WritersDrive' /\ RoomToInterrupt' /\ KeyOwner' /\ CandidatesLive'
    BY <1>2, <2>1, <2>2 DEF Inv, Unregistered, WritersDrive, RoomToInterrupt, KeyOwner,
        CandidatesLive, Live
  <2> QED BY <2>2, <2>3 DEF Inv
<1> QED BY <1>1, <1>2

\* The invariant holds in every reachable state.
THEOREM Invariance == Spec => []Inv
<1>1. Inv /\ [Next]_vars => Inv'
  <2> SUFFICES ASSUME Inv, [Next]_vars PROVE Inv'
    OBVIOUS
  <2>1. CASE UNCHANGED vars
    BY <2>1 DEF vars, Inv, TypeOK, Unregistered, WritersDrive, RoomToInterrupt, KeyOwner,
        CandidatesLive, Lengths, Up, Live
  <2> QED BY <2>1, InvCreate, InvPurge, InvScan, InvWrite, InvCrash DEF Next
<1> QED BY <1>1, InvInit, PTL DEF Spec

\* The state of the registry, the writers and the disk is well formed.
THEOREM TypeCorrect == Spec => []TypeOK
<1>1. Inv => TypeOK
  BY DEF Inv
<1> QED BY <1>1, Invariance, PTL

\* The creations that race with one Idempotency-Key leave at most one run that
\* this process drives, however many race: registration is the arbiter.
THEOREM OneRunForAKey == Spec => []OneRunPerKey
<1>1. Inv => OneRunPerKey
  BY DEF Inv, KeyOwner, OneRunPerKey
<1> QED BY <1>1, Invariance, PTL

\* The loser of such a race leaves nothing on disk that a restart would
\* restore, whatever crashes and whoever writes meanwhile.
THEOREM LosersVanish == Spec => []LosersLeaveNoRecord
<1>1. Inv => LosersLeaveNoRecord
  BY DEF Inv, Unregistered, LosersLeaveNoRecord
<1> QED BY <1>1, Invariance, PTL

\* One idempotency key, one run and one record (registry.rs, register).
THEOREM KeysAlwaysOwnOneRecord == Spec => []KeysOwnOneRecord
<1>1. OneRunPerKey /\ LosersLeaveNoRecord => KeysOwnOneRecord
  BY DEF KeysOwnOneRecord
<1> QED BY <1>1, OneRunForAKey, LosersVanish, PTL

----------------------------------------------------------------------------
(* What is on disk.                                                         *)

\* A deleted run is out of the registry before its files go; a run in it has a
\* directory, and run.json in it once the creating request has opened it, which
\* the answer waits for.
OnDisk ==
    \A q \in Creates :
        /\ purging[q] # "off" => Up /\ q \notin runs
        /\ request[q] = "candidate" => file[q].kind = "nofile"
        /\ request[q] = "spawned" => writer[q]["create"].pc = "off"
        /\ q \in runs /\ Live(q) =>
              /\ file[q].kind # "nodir"
              /\ file[q].kind = "nofile" => writer[q]["create"].pc \in {"moved", "writing"}

\* An end in a snapshot, as one on disk, is the end of the run: nothing leaves it.
SnapshotsAreTrue ==
    \A q \in Creates :
        /\ \A a \in Writers :
              /\ writer[q][a].pc \in {"off", "moved"} => writer[q][a].status = "none"
              /\ Live(q) /\ writer[q][a].status \in Terminal => writer[q][a].status = handle[q].status
        /\ Live(q) /\ file[q].status \in Terminal => file[q].status = handle[q].status

\* A restored run has no writers; it is registered once its record is settled.
RestoredRest ==
    \A q \in Creates :
        /\ handle[q].from = "restored" =>
              /\ \A a \in Writers : writer[q][a].pc = "off"
              /\ q \in runs => /\ handle[q].status \in Terminal
                               /\ file[q] = Shows(handle[q].status, handle[q].length)
        /\ server.marking = q => handle[q].from = "restored" /\ handle[q].status = "interrupted"
        /\ ~Up => /\ \A a \in Writers : writer[q][a].pc = "off"
                  /\ q \in runs => q \notin server.todo

\* What the last two theorems rest on, besides the invariant above.
Records == OnDisk /\ SnapshotsAreTrue /\ RestoredRest

\* Before any creation there is nothing on disk.
LEMMA RecordsInit == Init => Records
BY KeyedAssumption
   DEF Init, Records, OnDisk, SnapshotsAreTrue, RestoredRest, NoHandle, Resting, Without, File,
       Live, Up, Terminal, Writers

\* A creation keeps the records.
LEMMA RecordsCreate ==
    ASSUME Inv, Records, NEW q \in Creates, CreateStep(q)
    PROVE  Records'
<1> USE DEF Inv, TypeOK, Records, Live, Up
<1>1. CASE Lookup(q)
  <2>1. OnDisk'
    BY <1>1 DEF Lookup, OnDisk
  <2>2. SnapshotsAreTrue'
    BY <1>1 DEF Lookup, SnapshotsAreTrue
  <2>3. RestoredRest'
    BY <1>1 DEF Lookup, RestoredRest
  <2> QED BY <2>1, <2>2, <2>3
<1>2. CASE CreateJournal(q)
  <2>1. OnDisk'
    BY <1>2 DEF CreateJournal, Without, File, OnDisk, Unregistered
  <2>2. SnapshotsAreTrue'
    BY <1>2 DEF CreateJournal, Without, File, Terminal, SnapshotsAreTrue, Unregistered
  <2>3. RestoredRest'
    BY <1>2 DEF CreateJournal, RestoredRest, Unregistered
  <2> QED BY <2>1, <2>2, <2>3
<1>3. CASE Register(q)
  <2>1. CASE Taken(q)
    BY <1>3, <2>1 DEF Register, OnDisk, SnapshotsAreTrue, RestoredRest
  <2>2. CASE ~Taken(q)
    <3>1. /\ Up /\ request[q] = "candidate" /\ request' = [request EXCEPT ![q] = "registered"]
          /\ runs' = runs \cup {q}
          /\ writer' = [writer EXCEPT ![q]["create"].pc = "moved"]
          /\ UNCHANGED <<server, crashes, handle, purging, file>>
      BY <1>3, <2>2 DEF Register
    <3>2. /\ writer' \in [Creates -> [Writers -> WriterStates]]
          /\ \A p \in Creates, b \in Writers :
                /\ writer'[p][b].pc = IF p = q /\ b = "create" THEN "moved" ELSE writer[p][b].pc
                /\ writer'[p][b].status = writer[p][b].status
                /\ writer'[p][b].length = writer[p][b].length
      <4>1. "create" \in Writers /\ "moved" \in Pcs
        BY DEF Writers, Pcs
      <4>2. TypeOK
        OBVIOUS
      <4> HIDE DEF TypeOK
      <4> QED BY <3>1, <4>1, <4>2, WriterMoves, ZenonT(30)
    <3>3. "create" \in Writers /\ Live(q)
      BY <3>1 DEF Writers, CandidatesLive
    <3>4. OnDisk'
      BY <3>1, <3>2, <3>3 DEF OnDisk, Unregistered
    <3>5. SnapshotsAreTrue'
      BY <3>1, <3>2, <3>3 DEF SnapshotsAreTrue, Unregistered
    <3>6. RestoredRest'
      BY <3>1, <3>2, <3>3 DEF RestoredRest, Unregistered
    <3> QED BY <3>4, <3>5, <3>6
  <2> QED BY <2>1, <2>2
<1>4. CASE DiscardCandidate(q)
  <2>1. OnDisk'
    BY <1>4 DEF DiscardCandidate, OnDisk, Unregistered
  <2>2. SnapshotsAreTrue'
    BY <1>4 DEF DiscardCandidate, Without, File, Terminal, SnapshotsAreTrue, Unregistered
  <2>3. RestoredRest'
    BY <1>4 DEF DiscardCandidate, RestoredRest, Unregistered
  <2> QED BY <2>1, <2>2, <2>3
<1>5. CASE Spawn(q)
  <2>1. OnDisk'
    BY <1>5 DEF Spawn, OnDisk
  <2>2. SnapshotsAreTrue'
    BY <1>5 DEF Spawn, SnapshotsAreTrue
  <2>3. RestoredRest'
    BY <1>5 DEF Spawn, RestoredRest
  <2> QED BY <2>1, <2>2, <2>3
<1> QED BY <1>1, <1>2, <1>3, <1>4, <1>5 DEF CreateStep

\* So does a deletion.
LEMMA RecordsPurge ==
    ASSUME Inv, Records, NEW q \in Creates, PurgeStep(q)
    PROVE  Records'
<1> USE DEF Inv, TypeOK, Records, Live, Up
<1>1. CASE Purge(q)
  <2>1. OnDisk'
    BY <1>1, KeyedAssumption DEF Purge, OnDisk, Unregistered
  <2>2. SnapshotsAreTrue'
    BY <1>1 DEF Purge, SnapshotsAreTrue
  <2>3. RestoredRest'
    BY <1>1 DEF Purge, RestoredRest
  <2> QED BY <2>1, <2>2, <2>3
<1>2. CASE UnlinkFiles(q)
  <2>1. OnDisk'
    BY <1>2 DEF UnlinkFiles, OnDisk, Writers, Unregistered
  <2>2. SnapshotsAreTrue'
    BY <1>2 DEF UnlinkFiles, Without, File, Terminal, SnapshotsAreTrue
  <2>3. RestoredRest'
    BY <1>2 DEF UnlinkFiles, OnDisk, RestoredRest
  <2> QED BY <2>1, <2>2, <2>3
<1>3. CASE RemoveDirectory(q)
  <2>1. OnDisk'
    BY <1>3 DEF RemoveDirectory, OnDisk, Unregistered
  <2>2. SnapshotsAreTrue'
    BY <1>3 DEF RemoveDirectory, Without, File, Terminal, SnapshotsAreTrue
  <2>3. RestoredRest'
    BY <1>3 DEF RemoveDirectory, OnDisk, RestoredRest
  <2> QED BY <2>1, <2>2, <2>3
<1> QED BY <1>1, <1>2, <1>3 DEF PurgeStep

\* So does the scan.
LEMMA RecordsScan ==
    ASSUME Inv, Records, NEW q \in Creates, ScanStep(q)
    PROVE  Records'
<1> USE DEF Inv, TypeOK, Records, Live, Up
<1>1. CASE ScanSkips(q)
  <2>1. OnDisk'
    BY <1>1 DEF ScanSkips, ScanRest, OnDisk
  <2>2. SnapshotsAreTrue'
    BY <1>1 DEF ScanSkips, ScanRest, SnapshotsAreTrue
  <2>3. RestoredRest'
    BY <1>1 DEF ScanSkips, ScanRest, RestoredRest
  <2> QED BY <2>1, <2>2, <2>3
<1>2. CASE ScanKeeps(q)
  <2>1. OnDisk'
    BY <1>2 DEF ScanKeeps, Scanning, ScanRest, Restore, OnDisk
  <2>2. SnapshotsAreTrue'
    BY <1>2 DEF ScanKeeps, ScanRest, Restore, SnapshotsAreTrue
  <2>3. file[q] = Shows(file[q].status, file[q].length)
    BY <1>2 DEF ScanKeeps, Shows, File
  <2>4. /\ handle' = [handle EXCEPT ![q] = [from |-> "restored", status |-> file[q].status,
                                           length |-> file[q].length]]
        /\ runs' = runs \cup {q} /\ file' = file /\ writer' = writer
        /\ server' = [server EXCEPT !.todo = server.todo \ {q}]
        /\ ~Up /\ server.marking = None /\ file[q].status \in Terminal
    BY <1>2 DEF ScanKeeps, Scanning, ScanRest, Restore
  <2>5. RestoredRest'
    BY <2>3, <2>4, KeyedAssumption DEF RestoredRest
  <2> QED BY <2>1, <2>2, <2>5
<1>3. CASE ScanOpens(q)
  <2>1. OnDisk'
    BY <1>3 DEF ScanOpens, ScanRest, OnDisk
  <2>2. SnapshotsAreTrue'
    BY <1>3 DEF ScanOpens, ScanRest, SnapshotsAreTrue
  <2>3. /\ \A p \in Creates : p # q => handle'[p] = handle[p] /\ file'[p] = file[p]
        /\ handle'[q].from = "restored" /\ handle'[q].status = "interrupted"
        /\ server'.marking = q /\ server'.todo = server.todo /\ server'.up = server.up
        /\ server.marking = None /\ ~Up /\ q \in server.todo
        /\ UNCHANGED <<runs, writer>>
    BY <1>3 DEF ScanOpens, Scanning, ScanRest
  <2>4. RestoredRest'
    BY <2>3, KeyedAssumption DEF RestoredRest
  <2> QED BY <2>1, <2>2, <2>4
<1>4. CASE ScanMarks(q)
  <2>1. OnDisk'
    BY <1>4 DEF ScanMarks, ScanRest, Shows, File, OnDisk, Unregistered
  <2>2. SnapshotsAreTrue'
    BY <1>4 DEF ScanMarks, ScanRest, WritersDrive, SnapshotsAreTrue
  <2>3. RestoredRest'
    BY <1>4, KeyedAssumption DEF ScanMarks, ScanRest, Terminal, RestoredRest
  <2> QED BY <2>1, <2>2, <2>3
<1> QED BY <1>1, <1>2, <1>3, <1>4 DEF ScanStep

\* So does a writer.
LEMMA RecordsWrite ==
    ASSUME Inv, Records, NEW q \in Creates, NEW a \in Writers, WriteStep(q, a)
    PROVE  Records'
<1> USE DEF Inv, TypeOK, Records, Live, Up
<1>1. CASE Transition(q, a)
  <2>1. PICK s \in Asked(a) \ {handle[q].status} :
            /\ Allowed(handle[q].status, s)
            /\ handle' = [handle EXCEPT ![q].status = s, ![q].length = handle[q].length + 1]
    BY <1>1 DEF Transition
  <2>2. /\ Up /\ Live(q) /\ (request[q] = "spawned" \/ q \in runs)
        /\ writer[q][a].pc = "off" /\ a # "create"
        /\ writer' = [writer EXCEPT ![q][a].pc = "moved"]
        /\ UNCHANGED <<server, crashes, runs, owner, request, purging, file>>
    BY <1>1 DEF Transition
  <2>3. /\ writer' \in [Creates -> [Writers -> WriterStates]]
        /\ \A p \in Creates, b \in Writers :
              /\ writer'[p][b].pc = IF p = q /\ b = a THEN "moved" ELSE writer[p][b].pc
              /\ writer'[p][b].status = writer[p][b].status
              /\ writer'[p][b].length = writer[p][b].length
    <3>1. "moved" \in Pcs
      BY DEF Pcs
    <3>2. TypeOK
      OBVIOUS
    <3> HIDE DEF TypeOK
    <3> QED BY <2>2, <3>1, <3>2, WriterMoves, ZenonT(30)
  <2>4. handle[q].status \notin Terminal
    BY <2>1 DEF Allowed, Successors, Terminal
  <2>5. \A p \in Creates : /\ handle'[p].from = handle[p].from
                           /\ p # q => handle'[p] = handle[p]
    BY <2>1
  <2>6. OnDisk'
    BY <2>2, <2>3, <2>5 DEF OnDisk, Unregistered, Writers
  <2>7. SnapshotsAreTrue'
    BY <2>2, <2>3, <2>4, <2>5 DEF SnapshotsAreTrue
  <2>8. RestoredRest'
    BY <2>2, <2>3, <2>5 DEF RestoredRest
  <2> QED BY <2>6, <2>7, <2>8
<1>5. CASE PersistAgain(q, a)
  <2>1. /\ Up /\ Live(q) /\ request[q] = "spawned"
        /\ writer[q][a].pc = "off" /\ a # "create"
        /\ writer' = [writer EXCEPT ![q][a].pc = "moved"]
        /\ UNCHANGED <<server, crashes, runs, owner, request, handle, purging, file>>
    BY <1>5 DEF PersistAgain
  <2>2. /\ writer' \in [Creates -> [Writers -> WriterStates]]
        /\ \A p \in Creates, b \in Writers :
              /\ writer'[p][b].pc = IF p = q /\ b = a THEN "moved" ELSE writer[p][b].pc
              /\ writer'[p][b].status = writer[p][b].status
              /\ writer'[p][b].length = writer[p][b].length
    <3>1. "moved" \in Pcs
      BY DEF Pcs
    <3>2. TypeOK
      OBVIOUS
    <3> HIDE DEF TypeOK
    <3> QED BY <2>1, <3>1, <3>2, WriterMoves, ZenonT(30)
  <2>3. OnDisk'
    BY <2>1, <2>2 DEF OnDisk, Unregistered, Writers
  <2>4. SnapshotsAreTrue'
    BY <2>1, <2>2 DEF SnapshotsAreTrue
  <2>5. RestoredRest'
    BY <2>1, <2>2 DEF RestoredRest
  <2> QED BY <2>3, <2>4, <2>5
<1>2. CASE Snapshot(q, a)
  <2>1. OnDisk'
    BY <1>2 DEF Snapshot, OnDisk
  <2>2. SnapshotsAreTrue'
    BY <1>2 DEF Snapshot, SnapshotsAreTrue
  <2>3. RestoredRest'
    BY <1>2 DEF Snapshot, RestoredRest
  <2> QED BY <2>1, <2>2, <2>3
<1>3. CASE OpenDocument(q, a)
  <2>1. /\ Up /\ writer[q][a].pc = "writing"
        /\ UNCHANGED <<server, crashes, runs, owner, request, handle, purging>>
    BY <1>3 DEF OpenDocument
  <2>2. CASE file[q].kind = "nodir" /\ writer' = [writer EXCEPT ![q][a] = Resting] /\ UNCHANGED file
    <3>1. \A p \in Creates, b \in Writers :
              writer'[p][b] = IF p = q /\ b = a THEN Resting ELSE writer[p][b]
      BY <2>2
    <3>2. Resting.pc = "off" /\ Resting.status = "none"
      BY DEF Resting
    <3>3. OnDisk'
      BY <2>1, <2>2, <3>1, <3>2 DEF OnDisk, Writers
    <3>4. SnapshotsAreTrue'
      BY <2>1, <2>2, <3>2 DEF SnapshotsAreTrue, Terminal
    <3>5. RestoredRest'
      BY <2>1, <2>2, <3>1, <3>2 DEF RestoredRest
    <3> QED BY <3>3, <3>4, <3>5
  <2>3. CASE /\ file[q].kind # "nodir" /\ writer' = [writer EXCEPT ![q][a].pc = "open"]
             /\ file' = [file EXCEPT ![q] = Without("empty")]
    <3>1. /\ writer' \in [Creates -> [Writers -> WriterStates]]
          /\ \A p \in Creates, b \in Writers :
              /\ writer'[p][b].pc = IF p = q /\ b = a THEN "open" ELSE writer[p][b].pc
              /\ writer'[p][b].status = writer[p][b].status
              /\ writer'[p][b].length = writer[p][b].length
      <4>1. "open" \in Pcs /\ TypeOK
        BY DEF Pcs
      <4> HIDE DEF TypeOK
      <4> QED BY <2>3, <4>1, WriterMoves, ZenonT(30)
    <3>2. /\ \A p \in Creates : p # q => file'[p] = file[p]
          /\ file'[q].kind = "empty" /\ file'[q].status = "none"
      BY <2>3 DEF Without, File
    <3> HIDE DEF TypeOK
    <3>0. request[q] # "candidate"
      BY <2>1 DEF Unregistered
    <3> HIDE DEF Inv
    <3>3. OnDisk'
      BY <2>1, <3>0, <3>1, <3>2 DEF OnDisk, Writers
    <3>4. SnapshotsAreTrue'
      <4>1. \A p \in Creates, b \in Writers : writer'[p][b].pc \in {"off", "moved"} =>
                /\ writer[p][b].pc \in {"off", "moved"} /\ writer'[p][b].status = writer[p][b].status
        BY <3>1
      <4>2. \A p \in Creates, b \in Writers : writer'[p][b].status = writer[p][b].status
        BY <3>1
      <4>3. \A p \in Creates : file'[p].status \in Terminal => file'[p] = file[p]
        BY <3>2 DEF Terminal
      <4> QED BY <2>1, <4>1, <4>2, <4>3 DEF SnapshotsAreTrue
    <3>5. RestoredRest'
      BY <2>1, <3>1, <3>2 DEF RestoredRest
    <3> QED BY <3>3, <3>4, <3>5
  <2> QED BY <1>3, <2>2, <2>3 DEF OpenDocument
<1>4. CASE WriteDocument(q, a)
  <2>1. OnDisk'
    BY <1>4 DEF WriteDocument, Written, Shows, Garbled, File, OnDisk, Unregistered
  <2>2. SnapshotsAreTrue'
    BY <1>4 DEF WriteDocument, Resting, Written, Shows, Garbled, File, Terminal, SnapshotsAreTrue
  <2>3. RestoredRest'
    BY <1>4 DEF WriteDocument, RestoredRest
  <2> QED BY <2>1, <2>2, <2>3
<1> QED BY <1>1, <1>2, <1>3, <1>4, <1>5 DEF WriteStep

\* So do a crash, which forgets the writers, and the end of the scan.
LEMMA RecordsCrash == Inv /\ Records /\ (Crash \/ ScanEnds) => Records'
<1> SUFFICES ASSUME Inv, Records, Crash \/ ScanEnds PROVE Records'
  OBVIOUS
<1>1. CASE Crash
  BY <1>1, KeyedAssumption DEF Crash, Records, OnDisk, SnapshotsAreTrue, RestoredRest,
     NoHandle, Resting, Live, Up, Writers, Terminal
<1>2. CASE ScanEnds
  BY <1>2 DEF ScanEnds, Records, OnDisk, SnapshotsAreTrue, RestoredRest, Live
<1> QED BY <1>1, <1>2

\* The records hold in every reachable state.
THEOREM RecordsHold == Spec => []Records
<1>1. Inv /\ Records /\ [Next]_vars => Records'
  <2> SUFFICES ASSUME Inv, Records, [Next]_vars PROVE Records'
    OBVIOUS
  <2>1. CASE UNCHANGED vars
    BY <2>1 DEF vars, Records, OnDisk, SnapshotsAreTrue, RestoredRest, Live, Up
  <2> QED BY <2>1, RecordsCreate, RecordsPurge, RecordsScan, RecordsWrite, RecordsCrash DEF Next
<1> QED BY <1>1, RecordsInit, Invariance, PTL DEF Spec

\* A run whose creation was answered is on disk until it is deleted: the answer
\* waits for the first run.json, and a deletion takes the run out of the registry
\* before its files (api/runs.rs, api/artifacts.rs).
THEOREM AnsweredRunsAreOnDisk == Spec => []AnsweredRunIsOnDisk
<1>1. Records => AnsweredRunIsOnDisk
  BY DEF Records, OnDisk, AnsweredRunIsOnDisk
<1> QED BY <1>1, RecordsHold, PTL

\* An end that run.json shows is the run's, whichever writer came last, and a
\* restored run is settled in memory and on disk (journal.rs, registry.rs).
THEOREM RecordsAreAlwaysTrue == Spec => []RecordsAreTrue
<1>1. Inv /\ Records => RecordsAreTrue
  BY DEF Inv, TypeOK, Records, SnapshotsAreTrue, RestoredRest, RecordsAreTrue, RecordedOutcomeIsTrue,
     RestoredRunIsSettled
<1> QED BY <1>1, RecordsHold, Invariance, PTL
=============================================================================
