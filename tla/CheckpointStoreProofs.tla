------------------------ MODULE CheckpointStoreProofs ------------------------
(***************************************************************************)
(* What is readable at a checkpoint's path after any crash or failed call   *)
(* of any write, proved for every set of payloads and any number of        *)
(* generations and loads; and what the loads that read it meanwhile see.    *)
(*                                                                         *)
(* LatestSurvives is not inductive: it does not say that the backup is only *)
(* removed beside a complete canonical directory, nor that what is renamed  *)
(* into place is whole.  Places says the first for each step of the write,  *)
(* Stages the second, and Answers what the export and an Ok rest on.        *)
(* LoadsAreSound needs, of each load, what is left to read (TodoFits), that *)
(* what it has seen landed (SeenFits) and, while no write disturbs it, that *)
(* it stands at the last generation and has read nothing else (QuietFits).  *)
(***************************************************************************)
EXTENDS CheckpointStore, TLAPS

\* The directory the last landed generation left.
Last == IF latest = 0 THEN Absent ELSE Whole(latest)

\* The writer's part of the type invariant, without the loads.
StoreType ==
    /\ backup \in Directories \cup {Absent}
    /\ writer \in Steps
    /\ gen \in 0 .. Saves
    /\ latest \in 0 .. gen
    /\ writer # "idle" => gen # 0

\* The canonical directory is the last one; without it the backup is.  The
\* publishing rename finds no canonical directory, the steps after it do, and
\* what removes the backup has one.
Places ==
    /\ canonical \in {Absent, Last}
    /\ canonical = Absent => backup = Last
    /\ writer = "publish" => canonical = Absent
    /\ writer = "aside" => canonical = Absent \/ backup = Absent
    /\ writer \in {"drop", "copy", "unlink", "name"} => canonical # Absent /\ latest = gen
    /\ writer \in {"copy", "unlink", "name"} => backup = Absent /\ "adapter" \in Payloads

\* What is staged is of the last write to begin and, up to the rename, in order:
\* the manifest only over whole members, the members only over whole payloads.
Stages ==
    /\ staged \in [Parts -> {0, gen}] \cup {Absent}
    /\ writer \in Staging => staged \in [Parts -> {0, gen}]
    /\ writer \in {"progress", "records", "manifest"} => \A p \in Payloads : staged[p] = gen
    /\ writer \in {"records", "manifest"} => staged["progress"] = gen
    /\ writer = "manifest" => staged["records"] = gen
    /\ writer \in {"clear", "aside", "publish"} => staged = Whole(gen)

\* What the export copies and what an Ok stands for.
Answers ==
    /\ latest \in landed \cup {0}
    /\ {export, copied} \subseteq landed \cup {0}
    /\ writer \in {"unlink", "name"} => copied = gen
    /\ answer = "ok" => /\ writer = "idle"
                        /\ latest = gen
                        /\ canonical = Whole(gen)
                        /\ backup = Absent
                        /\ "adapter" \in Payloads => export = gen

IInv == StoreType /\ Places /\ Stages /\ Answers

\* A directory with files is not the absent one.
LEMMA WholeIsThere == \A g : Whole(g) # Absent /\ (g # 0 => Whole(g) # Empty) /\ Empty # Absent
<1>1. "manifest" \in Parts
  BY DEF Parts
<1>2. \A g : DOMAIN Whole(g) = Parts
  BY DEF Whole
<1>3. DOMAIN Absent = {}
  BY DEF Absent
<1>4. DOMAIN Empty = Parts
  BY DEF Empty
<1>5. ASSUME NEW g, Whole(g) = Empty
      PROVE  g = 0
  <2>1. Whole(g)["manifest"] = g /\ Empty["manifest"] = 0
    BY <1>1 DEF Whole, Empty
  <2>2. QED
    BY <1>5, <2>1
<1>6. QED
  BY <1>1, <1>2, <1>3, <1>4, <1>5

\* Removing one more file leaves a directory or none.
LEMMA RemovedIsDirectory ==
    ASSUME NEW d \in Directories, NEW e \in Removed(d)
    PROVE  e \in Directories \cup {Absent}
BY SavesAssumption DEF Removed, Directories

\* What is left of a directory that was discarded is of the same write.
LEMMA DiscardedIsStaged ==
    ASSUME NEW g, NEW d \in [Parts -> {0, g}], NEW e \in Discarded(d)
    PROVE  e \in [Parts -> {0, g}] \cup {Absent}
BY DEF Discarded

\* Nothing has been written.
THEOREM InitIInv == Init => IInv
<1>1. SUFFICES ASSUME Init PROVE IInv
  OBVIOUS
<1>2. QED
  BY <1>1, SavesAssumption DEF Init, IInv, StoreType, Places, Stages, Answers, Last, Steps, Staging

\* Staging and a failure before the rename leave what is published alone.
LEMMA StageKeepsIInv == IInv /\ Stage => IInv'
<1> SUFFICES ASSUME IInv, Stage PROVE IInv'
  OBVIOUS
<1> USE DEF IInv, Last
<1>1. CASE Begin
  <2>1. StoreType'
    BY <1>1, SavesAssumption DEF Begin, StoreType, Steps, Staging, history
  <2>2. Places' /\ Answers'
    BY <1>1 DEF Begin, Places, Answers, history
  <2>3. Stages'
    BY <1>1 DEF Begin, Stages, Staging, Empty
  <2>4. QED
    BY <2>1, <2>2, <2>3
<1>2. ASSUME NEW p \in Payloads, StagePayload(p)
      PROVE  IInv'
  <2>1. staged \in [Parts -> {0, gen}] /\ p \in Parts /\ writer = "payloads"
    BY <1>2 DEF StagePayload, Stages, Staging, Parts
  <2>2. staged' \in [Parts -> {0, gen}]
    BY <1>2, <2>1 DEF StagePayload
  <2>3. StoreType' /\ Places' /\ Answers'
    BY <1>2 DEF StagePayload, StoreType, Places, Answers, exports, history
  <2>4. Stages'
    BY <1>2, <2>1, <2>2 DEF StagePayload, Stages, Staging
  <2>5. QED
    BY <2>3, <2>4
<1>3. CASE PayloadsStaged
  <2>1. staged \in [Parts -> {0, gen}]
    BY <1>3 DEF PayloadsStaged, Stages, Staging
  <2>2. \A p \in Payloads : staged[p] = gen
    BY <1>3, <2>1 DEF PayloadsStaged, Parts
  <2>3. StoreType' /\ Places' /\ Answers'
    BY <1>3 DEF PayloadsStaged, StoreType, Places, Answers, store, exports, history, Steps, Staging
  <2>4. Stages'
    BY <1>3, <2>1, <2>2 DEF PayloadsStaged, Stages, Staging, store
  <2>5. QED
    BY <2>3, <2>4
<1>4. CASE StageRecords
  <2>1. /\ staged \in [Parts -> {0, gen}] /\ writer \in {"progress", "records", "manifest"}
        /\ writer \in Parts
    BY <1>4 DEF StageRecords, Stages, Staging, Parts
  <2>2. StoreType' /\ Places' /\ Answers'
    BY <1>4 DEF StageRecords, StoreType, Places, Answers, exports, history, Steps, Staging
  <2>3. /\ staged' \in [Parts -> {0, gen}]
        /\ \A p \in Parts : staged'[p] = IF p = writer THEN gen ELSE staged[p]
    BY <1>4, <2>1 DEF StageRecords
  <2>4. \A p \in Payloads : staged[p] = gen
    BY <2>1 DEF Stages
  <2>5. \A p \in Payloads : staged'[p] = gen
    BY <2>3, <2>4 DEF Parts
  <2>6. CASE writer = "progress"
    <3>1. "progress" \in Parts
      BY DEF Parts
    <3>2. QED
      BY <1>4, <2>2, <2>3, <2>5, <2>6, <3>1 DEF StageRecords, Stages, Staging
  <2>7. CASE writer = "records"
    <3>1. {"progress", "records"} \subseteq Parts /\ staged["progress"] = gen
      BY <2>7 DEF Parts, Stages
    <3>2. QED
      BY <1>4, <2>2, <2>3, <2>5, <2>7, <3>1 DEF StageRecords, Stages, Staging
  <2>8. CASE writer = "manifest"
    <3>1. staged["progress"] = gen /\ staged["records"] = gen
      BY <2>8 DEF Stages
    <3>2. \A p \in Parts : staged'[p] = gen
      BY <2>3, <2>5, <2>8, <3>1 DEF Parts
    <3>3. staged' = Whole(gen)
      BY <2>3, <3>2 DEF Whole
    <3>4. QED
      BY <1>4, <2>2, <2>3, <2>8, <3>3 DEF StageRecords, Stages, Staging
  <2>9. QED
    BY <2>1, <2>6, <2>7, <2>8
<1>5. QED
  BY <1>1, <1>2, <1>3, <1>4 DEF Stage

\* The steps of the replacement, each with the place it is taken at.
LEMMA ReplaceKeepsIInv == IInv /\ Replace => IInv'
<1> SUFFICES ASSUME IInv, Replace PROVE IInv'
  OBVIOUS
<1> USE DEF IInv, Last
<1>0. backup # Absent => backup \in Directories
  BY DEF StoreType
<1>1. CASE ClearBackup
  <2>1. backup' \in Directories \cup {Absent}
    BY <1>0, <1>1, RemovedIsDirectory DEF ClearBackup, BackupIsStale
  <2>2. QED
    BY <1>1, <2>1
       DEF ClearBackup, BackupIsStale, StoreType, Places, Stages, Answers, exports, history, Staging
<1>2. CASE Cleared
  BY <1>2
     DEF Cleared, BackupIsStale, StoreType, Places, Stages, Answers, store, exports, history, Steps,
         Staging
<1>3. CASE MoveAside
  <2>1. CASE canonical = Absent
    BY <1>3, <2>1 DEF MoveAside, StoreType, Places, Stages, Answers, exports, history, Steps, Staging
  <2>2. CASE canonical # Absent
    <3>1. latest # 0 /\ canonical = Whole(latest)
      BY <2>2 DEF Places
    <3>2. canonical \in Directories
      BY <3>1, SavesAssumption DEF Whole, Directories, StoreType
    <3>3. StoreType'
      BY <1>3, <2>2, <3>2 DEF MoveAside, StoreType, Steps, Staging, exports, history
    <3>4. Places' /\ Stages' /\ Answers'
      BY <1>3, <2>2, <3>1 DEF MoveAside, Places, Stages, Answers, exports, history, Staging
    <3>5. QED
      BY <3>3, <3>4
  <2>3. QED
    BY <2>1, <2>2
<1>4. CASE Publish
  <2>1. staged = Whole(gen) /\ gen # 0 /\ Whole(gen) # Absent
    BY <1>4, WholeIsThere DEF Publish, Stages, StoreType
  <2>2. StoreType'
    BY <1>4 DEF Publish, StoreType, Steps, Staging
  <2>3. Places' /\ Stages' /\ Answers'
    BY <1>4, <2>1 DEF Publish, Places, Stages, Answers, exports, Staging
  <2>4. QED
    BY <2>2, <2>3
<1>5. CASE DropBackup
  <2>1. backup' \in Directories \cup {Absent}
    BY <1>0, <1>5, RemovedIsDirectory DEF DropBackup
  <2>2. QED
    BY <1>5, <2>1 DEF DropBackup, StoreType, Places, Stages, Answers, exports, history, Staging
<1>6. CASE Dropped
  <2>1. canonical = Whole(gen)
    BY <1>6 DEF Dropped, Places, StoreType
  <2>2. QED
    BY <1>6, <2>1
       DEF Dropped, Return, StoreType, Places, Stages, Answers, store, exports, history, Steps, Staging
<1>7. QED
  BY <1>1, <1>2, <1>3, <1>4, <1>5, <1>6 DEF Replace

\* The export is copied from the directory that has just landed.
LEMMA ExportKeepsIInv == IInv /\ Export => IInv'
<1> SUFFICES ASSUME IInv, Export PROVE IInv'
  OBVIOUS
<1> USE DEF IInv, Last
<1>1. CASE CopyExport
  <2>1. canonical = Whole(gen) /\ latest = gen /\ gen \in landed
    BY <1>1 DEF CopyExport, Places, StoreType, Answers
  <2>2. "adapter" \in Parts /\ canonical["adapter"] = gen
    BY <1>1, <2>1 DEF Whole, Places, CopyExport, Parts
  <2>3. QED
    BY <1>1, <2>1, <2>2
       DEF CopyExport, StoreType, Places, Stages, Answers, store, history, Steps, Staging
<1>2. CASE RemoveExport
  BY <1>2 DEF RemoveExport, StoreType, Places, Stages, Answers, store, history, Steps, Staging
<1>3. CASE NameExport
  <2>1. canonical = Whole(gen)
    BY <1>3 DEF NameExport, Places, StoreType
  <2>2. QED
    BY <1>3, <2>1
       DEF NameExport, Return, StoreType, Places, Stages, Answers, store, history, Steps, Staging
<1>4. QED
  BY <1>1, <1>2, <1>3 DEF Export

\* A failure or a crash takes nothing away but what was staged; the move back
\* restores the previous generation.
LEMMA FaultKeepsIInv == IInv /\ Fault => IInv'
<1> SUFFICES ASSUME IInv, Fault PROVE IInv'
  OBVIOUS
<1> USE DEF IInv, Last
<1>1. CASE StepFails \/ Crash
  BY <1>1
     DEF StepFails, Crash, Return, StoreType, Places, Stages, Answers, store, exports, history, Steps,
         Staging
<1>2. CASE StageFails
  <2>1. staged' \in [Parts -> {0, gen}] \cup {Absent}
    BY <1>2, DiscardedIsStaged DEF StageFails, Stages
  <2>2. QED
    BY <1>2, <2>1
       DEF StageFails, Return, StoreType, Places, Stages, Answers, exports, history, Steps, Staging
<1>3. CASE PublishFails
  <2>1. canonical = Absent /\ backup = Last
    BY <1>3 DEF PublishFails, Places
  <2>2. staged \in [Parts -> {0, gen}]
    BY <1>3 DEF PublishFails, Stages, Whole
  <2>3. staged' \in [Parts -> {0, gen}] \cup {Absent}
    BY <1>3, <2>2, DiscardedIsStaged DEF PublishFails
  <2>4. QED
    BY <1>3, <2>1, <2>3
       DEF PublishFails, Return, StoreType, Places, Stages, Answers, exports, history, Steps, Staging
<1>4. QED
  BY <1>1, <1>2, <1>3 DEF Fault

\* Loads read only.
LEMMA LoadKeepsIInv == ASSUME NEW r \in Readers, IInv, Load(r) PROVE IInv'
<1>1. UNCHANGED <<store, exports, history, writer, gen, answer>>
  BY DEF Load, StartLoad, LookCanonical, LookBackup, ReadPart, FailLoad
<1>2. QED
  BY <1>1 DEF IInv, StoreType, Places, Stages, Answers, Last, store, exports, history

\* The inductive invariant, through every step of the writer, fault and load.
THEOREM IInvHolds == Spec => []IInv
<1>1. IInv /\ [Next]_vars => IInv'
  <2>1. IInv /\ UNCHANGED vars => IInv'
    BY DEF vars, IInv, StoreType, Places, Stages, Answers, Last
  <2>2. QED
    BY <2>1, StageKeepsIInv, ReplaceKeepsIInv, ExportKeepsIInv, FaultKeepsIInv, LoadKeepsIInv DEF Next
<1>2. QED
  BY <1>1, InitIInv, PTL DEF Spec

\* Whatever died or failed in Checkpoint::write, readable_state_dir resolves to
\* the complete last generation that landed.
THEOREM LatestAlwaysSurvives == Spec => []LatestSurvives
<1>1. IInv => LatestSurvives
  BY WholeIsThere DEF IInv, StoreType, Places, Last, LatestSurvives, Readable
<1>2. QED
  BY <1>1, IInvHolds, PTL

\* An Ok of Checkpoint::write means the generation is readable and exported, and
\* every export is of a generation that landed.
THEOREM SavesArePublished == Spec => []SavedIsPublished
<1>1. IInv => SavedIsPublished
  BY DEF IInv, Answers, SavedIsPublished
<1>2. QED
  BY <1>1, IInvHolds, PTL

------------------------------------------------------------------------------
(* The loads.                                                                *)

\* What is left of a backup that is being removed landed once.
StoreFits ==
    /\ landed \subseteq Generations
    /\ \A p \in Parts : backup # Absent => backup[p] \in landed \cup {0}
    /\ answer \in {"none", "ok", "err"}

LoadsType == loads \in [Readers -> Loads]

\* What a load under way still reads: the manifest only first, a fingerprint
\* only of a bundle.
TodoFits(l) ==
    /\ \A i \in DOMAIN l.todo : /\ l.todo[i] = "manifest" => i = 1
                                /\ l.todo[i] = "fingerprint" => "bundle" \in Payloads
    /\ l.at \in {"look", "second", "read"} => l.todo # <<>>
    /\ l.at = "loaded" => l.todo = <<>>

ToRead(l, p) == \E i \in DOMAIN l.todo : l.todo[i] = p

\* A load nothing disturbed has read the last generation, up to what it has
\* still to read, and stands at a directory that holds it whole.
QuietFits(l) == l.quiet =>
    /\ l.at \in {"look", "second", "read"} => l.since = latest
    /\ l.at = "second" => canonical = Absent
    /\ l.at = "read" => /\ (IF l.place = "canonical" THEN canonical ELSE backup) = Last
                        /\ l.place = "backup" => canonical = Absent
    /\ l.since = 0 => l.at # "loaded"
    /\ l.since # 0 => /\ l.at # "failed"
                      /\ l.at # "idle" => \A p \in Parts : l.seen[p] = l.since \/ ToRead(l, p)

SeenFits(l) == \A p \in Parts : l.seen[p] \in landed \cup {0}

LoadFits(r) == TodoFits(loads[r]) /\ QuietFits(loads[r]) /\ SeenFits(loads[r])

LoadsFit == LoadsType /\ \A r \in Readers : LoadFits(r)

LInv == StoreFits /\ LoadsFit

------------------------------------------------------------------------------
(* Operators on loads.                                                       *)

\* One sequence after another.
LEMMA Joined ==
    ASSUME NEW S, NEW s \in Seq(S), NEW t \in Seq(S)
    PROVE  /\ s \o t \in Seq(S) /\ Len(s \o t) = Len(s) + Len(t)
           /\ \A i \in 1 .. Len(s) + Len(t) :
                 (s \o t)[i] = IF i <= Len(s) THEN s[i] ELSE t[i - Len(s)]
OBVIOUS

\* load_checkpoint reads every declared part, the manifest first.
LEMMA OrderFits ==
    /\ Order \in Seq(Parts \cup {"fingerprint"}) /\ Order # <<>>
    /\ \A i \in DOMAIN Order : /\ Order[i] = "manifest" => i = 1
                               /\ Order[i] = "fingerprint" => "bundle" \in Payloads
    /\ \A p \in Parts : \E i \in DOMAIN Order : Order[i] = p
<1> DEFINE A == IF "adapter" \in Payloads THEN <<"adapter">> ELSE <<>>
           B == IF "bundle" \in Payloads THEN <<"fingerprint", "bundle">> ELSE <<>>
           O == IF "optimizer" \in Payloads THEN <<"optimizer">> ELSE <<>>
           M == <<"manifest", "progress", "records">>
<1>1. Order = M \o A \o B \o O
  BY DEF Order
<1>p. {"manifest", "progress", "records", "fingerprint"} \subseteq Parts \cup {"fingerprint"} /\ Payloads \subseteq Parts
  BY DEF Parts
<1>2. A \in Seq(Parts \cup {"fingerprint"}) /\ (\A i \in DOMAIN A : A[i] = "adapter")
      /\ ("adapter" \in Payloads => A[1] = "adapter" /\ Len(A) = 1)
  <2>1. CASE "adapter" \in Payloads
    BY <1>p, <2>1
  <2>2. CASE "adapter" \notin Payloads
    BY <2>2
  <2> QED BY <2>1, <2>2
<1>3. B \in Seq(Parts \cup {"fingerprint"})
      /\ (\A i \in DOMAIN B : B[i] \in {"fingerprint", "bundle"} /\ "bundle" \in Payloads)
      /\ ("bundle" \in Payloads => B[2] = "bundle" /\ Len(B) = 2)
  <2>1. CASE "bundle" \in Payloads
    BY <1>p, <2>1
  <2>2. CASE "bundle" \notin Payloads
    BY <2>2
  <2> QED BY <2>1, <2>2
<1>4. O \in Seq(Parts \cup {"fingerprint"}) /\ (\A i \in DOMAIN O : O[i] = "optimizer")
      /\ ("optimizer" \in Payloads => O[1] = "optimizer" /\ Len(O) = 1)
  <2>1. CASE "optimizer" \in Payloads
    BY <1>p, <2>1
  <2>2. CASE "optimizer" \notin Payloads
    BY <2>2
  <2> QED BY <2>1, <2>2
<1>5. /\ M \in Seq(Parts \cup {"fingerprint"}) /\ Len(M) = 3
      /\ M[1] = "manifest" /\ M[2] = "progress" /\ M[3] = "records"
  <2>1. {"manifest", "progress", "records"} \subseteq Parts \cup {"fingerprint"}
    BY <1>p
  <2> QED BY <2>1
<1> HIDE DEF A, B, O, M
<1>6. M \o A \in Seq(Parts \cup {"fingerprint"}) /\ Len(M \o A) = 3 + Len(A)
      /\ \A i \in 1 .. 3 + Len(A) : (M \o A)[i] = IF i <= 3 THEN M[i] ELSE A[i - 3]
  <2>1. M \o A \in Seq(Parts \cup {"fingerprint"}) /\ Len(M \o A) = Len(M) + Len(A)
        /\ \A i \in 1 .. Len(M) + Len(A) : (M \o A)[i] = IF i <= Len(M) THEN M[i] ELSE A[i - Len(M)]
    BY <1>2, <1>5, Joined, Zenon
  <2>2. Len(M) = 3
    BY <1>5
  <2> QED BY <2>1, <2>2
<1> DEFINE MA == M \o A
<1>7. MA \o B \in Seq(Parts \cup {"fingerprint"}) /\ Len(MA \o B) = Len(MA) + Len(B)
      /\ \A i \in 1 .. Len(MA) + Len(B) : (MA \o B)[i] = IF i <= Len(MA) THEN MA[i] ELSE B[i - Len(MA)]
  BY <1>3, <1>6, Joined
<1> DEFINE MAB == MA \o B
<1>8. MAB \o O \in Seq(Parts \cup {"fingerprint"}) /\ Len(MAB \o O) = Len(MAB) + Len(O)
      /\ \A i \in 1 .. Len(MAB) + Len(O) : (MAB \o O)[i] = IF i <= Len(MAB) THEN MAB[i] ELSE O[i - Len(MAB)]
  BY <1>4, <1>7, Joined
<1>9. Order = MAB \o O
  BY <1>1
<1> HIDE DEF MA, MAB
<1>10. \A i \in DOMAIN Order :
          \/ i = 1 /\ Order[i] = "manifest"
          \/ i = 2 /\ Order[i] = "progress"
          \/ i = 3 /\ Order[i] = "records"
          \/ Order[i] = "adapter"
          \/ Order[i] \in {"fingerprint", "bundle"} /\ "bundle" \in Payloads
          \/ Order[i] = "optimizer"
  <2> SUFFICES ASSUME NEW i \in DOMAIN Order PROVE
          \/ i = 1 /\ Order[i] = "manifest"
          \/ i = 2 /\ Order[i] = "progress"
          \/ i = 3 /\ Order[i] = "records"
          \/ Order[i] = "adapter"
          \/ Order[i] \in {"fingerprint", "bundle"} /\ "bundle" \in Payloads
          \/ Order[i] = "optimizer"
    OBVIOUS
  <2>1. i \in 1 .. Len(MAB) + Len(O) /\ Order[i] = IF i <= Len(MAB) THEN MAB[i] ELSE O[i - Len(MAB)]
    BY <1>8, <1>9
  <2>2. CASE i > Len(MAB)
    <3>1. i - Len(MAB) \in DOMAIN O
      BY <1>4, <1>7, <2>1, <2>2 DEF MAB
    <3> QED BY <1>4, <1>7, <2>1, <2>2, <3>1 DEF MAB
  <2>3. CASE i <= Len(MAB) /\ i > Len(MA)
    <3>1. i - Len(MA) \in DOMAIN B /\ Order[i] = B[i - Len(MA)]
      BY <1>3, <1>6, <1>7, <2>1, <2>3 DEF MA, MAB
    <3> QED BY <1>3, <3>1
  <2>4. CASE i <= Len(MA)
    <3>1. Order[i] = IF i <= 3 THEN M[i] ELSE A[i - 3]
      BY <1>2, <1>3, <1>6, <1>7, <2>1, <2>4 DEF MA, MAB
    <3>2. i \in 1 .. 3 + Len(A) /\ Len(A) \in Nat
      BY <1>2, <1>6, <2>1, <2>4 DEF MA
    <3>3. CASE i <= 3
      BY <1>5, <3>1, <3>2, <3>3
    <3>4. CASE i > 3
      <4>1. i - 3 \in DOMAIN A
        BY <1>2, <3>2, <3>4
      <4>2. A[i - 3] = "adapter"
        BY <1>2, <4>1
      <4>3. Order[i] = A[i - 3]
        BY <3>1, <3>2, <3>4
      <4> QED BY <4>2, <4>3
    <3> QED BY <3>2, <3>3, <3>4
  <2>5. i \in Nat /\ Len(MA) \in Nat /\ Len(MAB) \in Nat
    BY <1>6, <1>7, <2>1 DEF MA, MAB
  <2> QED BY <2>2, <2>3, <2>4, <2>5
<1>11. /\ 1 \in DOMAIN Order /\ Order[1] = "manifest"
       /\ 2 \in DOMAIN Order /\ Order[2] = "progress"
       /\ 3 \in DOMAIN Order /\ Order[3] = "records"
  BY <1>2, <1>3, <1>4, <1>5, <1>6, <1>7, <1>8, <1>9 DEF MA, MAB
<1>12. "adapter" \in Payloads => \E i \in DOMAIN Order : Order[i] = "adapter"
  <2> SUFFICES ASSUME "adapter" \in Payloads PROVE 4 \in DOMAIN Order /\ Order[4] = "adapter"
    OBVIOUS
  <2>1. Len(A) = 1 /\ A[1] = "adapter"
    BY <1>2
  <2>2. Len(MA) = 4 /\ MA[4] = "adapter"
    BY <1>6, <2>1 DEF MA
  <2> QED BY <1>3, <1>4, <1>6, <1>7, <1>8, <1>9, <2>2 DEF MA, MAB
<1>13. "bundle" \in Payloads => \E i \in DOMAIN Order : Order[i] = "bundle"
  <2> SUFFICES ASSUME "bundle" \in Payloads
               PROVE  Len(MA) + 2 \in DOMAIN Order /\ Order[Len(MA) + 2] = "bundle"
    OBVIOUS
  <2>1. Len(B) = 2 /\ B[2] = "bundle"
    BY <1>3
  <2>2. Len(MA) \in Nat /\ Len(MAB) = Len(MA) + 2 /\ MAB[Len(MA) + 2] = "bundle"
    BY <1>6, <1>7, <2>1 DEF MA, MAB
  <2> QED BY <1>4, <1>7, <1>8, <1>9, <2>2 DEF MAB
<1>14. "optimizer" \in Payloads => \E i \in DOMAIN Order : Order[i] = "optimizer"
  <2> SUFFICES ASSUME "optimizer" \in Payloads
               PROVE  Len(MAB) + 1 \in DOMAIN Order /\ Order[Len(MAB) + 1] = "optimizer"
    OBVIOUS
  <2>1. Len(O) = 1 /\ O[1] = "optimizer"
    BY <1>4
  <2> QED BY <1>7, <1>8, <1>9, <2>1 DEF MAB
<1>15. Order \in Seq(Parts \cup {"fingerprint"}) /\ Order # <<>>
  BY <1>8, <1>9, <1>11 DEF MAB
<1>16. \A i \in DOMAIN Order : /\ Order[i] = "manifest" => i = 1
                               /\ Order[i] = "fingerprint" => "bundle" \in Payloads
  BY <1>10
<1>17. \A p \in Parts : \E i \in DOMAIN Order : Order[i] = p
  BY <1>11, <1>12, <1>13, <1>14, PayloadsAssumption DEF Parts
<1> QED BY <1>15, <1>16, <1>17

\* Reading one more part leaves the others to be read.
LEMMA RestFits ==
    ASSUME NEW S, NEW s \in Seq(S), s # <<>>
    PROVE  /\ Head(s) \in S /\ Head(s) = s[1] /\ 1 \in DOMAIN s
           /\ Tail(s) \in Seq(S)
           /\ \A i \in DOMAIN Tail(s) : i + 1 \in DOMAIN s /\ Tail(s)[i] = s[i + 1]
           /\ \A i \in DOMAIN s : i # 1 => i - 1 \in DOMAIN Tail(s) /\ Tail(s)[i - 1] = s[i]
           /\ Tail(s) # <<>> => Head(Tail(s)) \in S
OBVIOUS

------------------------------------------------------------------------------
(* Every step keeps them.                                                    *)

\* At the start every load has yet to begin.
LEMMA InitLInv == Init => LInv
<1> SUFFICES ASSUME Init PROVE LInv
  OBVIOUS
<1>1. StoreFits
  BY DEF Init, StoreFits, Staging
<1>2. LoadsType
  BY SavesAssumption DEF Init, LoadsType, Loads, Directories, Empty
<1>3. \A r \in Readers : LoadFits(r)
  BY DEF Init, LoadFits, TodoFits, QuietFits, SeenFits, Empty
<1> QED BY <1>1, <1>2, <1>3 DEF LInv, LoadsFit

\* A directory with files is there, and removing a file changes no other.
LEMMA DirectoryIsThere == \A d \in Directories : d # Absent
BY DEF Directories, Absent, Parts

\* Each part a removal has not reached yet is as it was.
LEMMA RemovedIsPart ==
    ASSUME NEW d \in Directories, NEW e \in Removed(d), e # Absent
    PROVE  \A p \in Parts : e[p] \in {d[p], 0}
BY DEF Removed, Directories

\* The writer's steps keep its directories' types.
LEMMA StoreStep == ASSUME IInv, StoreFits, [Next]_vars PROVE StoreFits' /\ landed \subseteq landed'
<1> USE DEF StoreFits
<1>1. CASE Stage
  BY <1>1 DEF Stage, Begin, StagePayload, PayloadsStaged, StageRecords, store, history
<1>2. CASE Replace
  <2>1. CASE ClearBackup
    BY <2>1, RemovedIsPart DEF ClearBackup, BackupIsStale, IInv, StoreType, history
  <2>2. CASE Cleared
    BY <2>2 DEF Cleared, store, history
  <2>3. CASE MoveAside
    <3>1. canonical # Absent => \A p \in Parts : canonical[p] \in landed \cup {0}
      BY DEF IInv, Places, Answers, Last, Whole
    <3> QED BY <2>3, <3>1 DEF MoveAside, history
  <2>4. CASE Publish
    <3>1. gen \in Generations
      BY <2>4 DEF Publish, IInv, StoreType, Generations
    <3> QED BY <2>4, <3>1 DEF Publish
  <2>5. CASE DropBackup
    BY <2>5, RemovedIsPart DEF DropBackup, IInv, StoreType, history
  <2>6. CASE Dropped
    BY <2>6 DEF Dropped, Return, store, history
  <2> QED BY <1>2, <2>1, <2>2, <2>3, <2>4, <2>5, <2>6 DEF Replace
<1>3. CASE Export
  BY <1>3 DEF Export, CopyExport, RemoveExport, NameExport, Return, store, history
<1>4. CASE Fault
  BY <1>4 DEF Fault, StageFails, StepFails, Crash, PublishFails, Return, store, history
<1>5. CASE \E r \in Readers : Load(r)
  BY <1>5 DEF Load, StartLoad, LookCanonical, LookBackup, ReadPart, FailLoad, store, history
<1>6. CASE UNCHANGED vars
  BY <1>6 DEF vars
<1> QED BY <1>1, <1>2, <1>3, <1>4, <1>5, <1>6 DEF Next

\* A step of the writer leaves a load where it is, or moves the directory at
\* the path, which the load then remembers.
LEMMA WriterStep ==
    ASSUME IInv, Stage \/ Replace \/ Export \/ Fault
    PROVE  \/ loads' = Disturbed
           \/ /\ loads' = loads /\ canonical' = canonical /\ latest' = latest
              /\ backup' # backup => canonical # Absent
<1>1. CASE Stage
  BY <1>1 DEF Stage, Begin, StagePayload, PayloadsStaged, StageRecords, store, history
<1>2. CASE Replace
  BY <1>2 DEF Replace, ClearBackup, Cleared, MoveAside, Publish, DropBackup, Dropped, BackupIsStale,
     IInv, Places, store, history
<1>3. CASE Export
  BY <1>3 DEF Export, CopyExport, RemoveExport, NameExport, store, history
<1>4. CASE Fault
  BY <1>4 DEF Fault, StageFails, StepFails, Crash, PublishFails, store, history
<1> QED BY <1>1, <1>2, <1>3, <1>4

\* A step of the writer moves no load; it disturbs those it pulls files from under.
LEMMA WriterKeepsLoads ==
    ASSUME IInv, LInv, landed \subseteq landed', Stage \/ Replace \/ Export \/ Fault
    PROVE  LoadsFit'
<1> USE DEF LInv, LoadsFit
<1>1. CASE loads' = Disturbed
  <2>1. \A r \in Readers : loads'[r] = IF Active(r) THEN [loads[r] EXCEPT !.quiet = FALSE] ELSE loads[r]
    BY <1>1 DEF Disturbed
  <2>2. LoadsType'
    BY <1>1 DEF Disturbed, LoadsType, Loads
  <2> SUFFICES ASSUME NEW r \in Readers PROVE LoadFits(r)'
    BY <2>2
  <2>3. loads[r] \in Loads
    BY DEF LoadsType
  <2>4. CASE Active(r)
    <3>1. loads'[r] = [loads[r] EXCEPT !.quiet = FALSE]
      BY <2>1, <2>4
    <3> QED BY <2>3, <3>1 DEF Loads, LoadFits, TodoFits, QuietFits, SeenFits
  <2>5. CASE ~ Active(r)
    <3>1. loads'[r] = loads[r]
      BY <2>1, <2>5
    <3> QED BY <2>5, <3>1 DEF LoadFits, TodoFits, QuietFits, SeenFits, Active, ToRead
  <2> QED BY <2>4, <2>5
<1>2. CASE /\ loads' = loads /\ canonical' = canonical /\ latest' = latest
           /\ backup' # backup => canonical # Absent
  <2>1. LoadsType'
    BY <1>2 DEF LoadsType
  <2> SUFFICES ASSUME NEW r \in Readers PROVE LoadFits(r)'
    BY <2>1
  <2>2. Last' = Last
    BY <1>2 DEF Last
  <2>3. TodoFits(loads[r])' /\ SeenFits(loads[r])'
    BY <1>2 DEF LoadFits, TodoFits, SeenFits
  <2>4. QuietFits(loads[r])'
    <3>1. loads[r].quiet /\ loads[r].at = "read" =>
              (IF loads[r].place = "canonical" THEN canonical' ELSE backup') = Last
      BY <1>2 DEF LoadFits, QuietFits, LoadsType, Loads
    <3>2. \A p \in Parts : ToRead(loads[r], p)' <=> ToRead(loads[r], p)
      BY <1>2 DEF ToRead
    <3> QED BY <1>2, <2>2, <3>1, <3>2 DEF LoadFits, QuietFits
  <2> QED BY <2>3, <2>4 DEF LoadFits
<1> QED BY <1>1, <1>2, WriterStep

\* A load's step replaces its own record.
LEMMA LoadReplaces ==
    ASSUME LoadsType, NEW r \in Readers, NEW l, l \in Loads, loads' = [loads EXCEPT ![r] = l],
           LoadsFit, UNCHANGED <<store, history>>, TodoFits(l), QuietFits(l), SeenFits(l)
    PROVE  LoadsFit'
<1>1. LoadsType' /\ loads'[r] = l /\ \A q \in Readers : q # r => loads'[q] = loads[q]
  BY DEF LoadsType
<1> SUFFICES ASSUME NEW q \in Readers PROVE LoadFits(q)'
  BY <1>1 DEF LoadsFit
<1>2. \A m : (TodoFits(m) => TodoFits(m)') /\ (QuietFits(m) => QuietFits(m)') /\ (SeenFits(m) => SeenFits(m)')
  BY DEF TodoFits, QuietFits, SeenFits, ToRead, Last, store, history
<1> QED BY <1>1, <1>2 DEF LoadsFit, LoadFits


\* What a found part is: in a directory that holds it, of a generation that landed.
LEMMA FoundLanded ==
    ASSUME IInv, StoreFits, NEW r \in Readers, NEW p \in Parts, p # "fingerprint", Found(r, p)
    PROVE  Directory(r)[p] \in landed \cup {0}
<1>1. \A q \in Parts : /\ canonical # Absent => canonical[q] \in landed \cup {0}
                       /\ backup # Absent => backup[q] \in landed \cup {0}
  BY DEF IInv, Places, Answers, Last, Whole, StoreFits
<1>2. Holds(Directory(r), p)
  BY DEF Found
<1>3. Directory(r) # Absent
  BY <1>2 DEF Holds, Absent
<1> QED BY <1>1, <1>3 DEF Directory

\* What has landed was written.
LEMMA LandedWritten == ASSUME StoreFits, NEW g, g \in landed \cup {0} PROVE g \in 0 .. Saves
<1>1. CASE g = 0
  BY <1>1, SavesAssumption
<1>2. CASE g \in landed
  <2>1. g \in 1 .. Saves
    BY <1>2 DEF StoreFits, Generations
  <2> QED BY <2>1, SavesAssumption
<1> QED BY <1>1, <1>2

\* A load that nothing disturbed finds everything at the last generation.
LEMMA QuietFinds ==
    ASSUME IInv, LInv, NEW r \in Readers, loads[r].at = "read", loads[r].quiet
    PROVE  /\ loads[r].since = latest
           /\ latest = 0 => ~ Found(r, Head(loads[r].todo))
           /\ latest # 0 => /\ Found(r, Head(loads[r].todo))
                            /\ Directory(r) = Whole(latest)
<1> DEFINE p == Head(loads[r].todo)
<1>1. /\ loads[r] \in Loads /\ TodoFits(loads[r]) /\ QuietFits(loads[r])
      /\ loads[r].since = latest /\ Directory(r) = Last
  BY DEF LInv, LoadsFit, LoadsType, LoadFits, QuietFits, Directory
<1>2. /\ loads[r].todo \in Seq(Parts \cup {"fingerprint"}) /\ loads[r].todo # <<>>
  BY <1>1 DEF Loads, TodoFits
<1>3. p \in Parts \cup {"fingerprint"} /\ p = loads[r].todo[1] /\ 1 \in DOMAIN loads[r].todo
  BY <1>2, RestFits
<1> HIDE DEF p
<1>4. CASE latest = 0
  <2>1. Directory(r) = Absent /\ \A q : ~ Holds(Directory(r), q)
    BY <1>1, <1>4 DEF Last, Holds, Absent
  <2>2. ~ Found(r, p)
    BY <2>1 DEF Found
  <2> QED BY <1>1, <1>4, <2>2 DEF p
<1>5. CASE latest # 0
  <2>1. Directory(r) = Whole(latest) /\ \A q \in Parts : Holds(Directory(r), q)
    BY <1>1, <1>5 DEF Last, Holds, Whole
  <2>2. CASE p = "fingerprint"
    <3>1. "bundle" \in Payloads /\ "manifest" \in Parts /\ "bundle" \in Parts
      BY <1>1, <1>3, <2>2 DEF TodoFits, Parts
    <3>2. ~ ToRead(loads[r], "manifest")
      BY <1>1, <1>3, <2>2 DEF TodoFits, ToRead
    <3>3. loads[r].seen["manifest"] = latest
      BY <1>1, <1>5, <3>1, <3>2 DEF QuietFits
    <3>4. Directory(r)["bundle"] = latest
      BY <2>1, <3>1 DEF Whole
    <3> QED BY <1>1, <1>5, <2>1, <2>2, <3>1, <3>3, <3>4 DEF Found, p
  <2>3. CASE p # "fingerprint"
    <3>1. p \in Parts /\ Payloads \cup {"progress", "records"} \subseteq Parts
      BY <1>3, <2>3 DEF Parts
    <3>2. Found(r, p)
      BY <2>1, <2>3, <3>1 DEF Found
    <3> QED BY <1>1, <1>5, <2>1, <3>2 DEF p
  <2> QED BY <2>2, <2>3
<1> QED BY <1>4, <1>5

\* A load's own step: where it looks, and what it has then seen.
LEMMA LoadKeepsLoads == ASSUME IInv, LInv, NEW r \in Readers, Load(r) PROVE LoadsFit'
<1>0. /\ UNCHANGED <<store, history>> /\ LoadsType /\ LoadsFit /\ loads[r] \in Loads
      /\ TodoFits(loads[r]) /\ QuietFits(loads[r]) /\ SeenFits(loads[r])
  BY DEF LInv, LoadsFit, LoadsType, LoadFits, Load, StartLoad, LookCanonical, LookBackup, ReadPart,
     FailLoad
<1>1. CASE StartLoad(r)
  <2> DEFINE l == [at |-> "look", place |-> "canonical", todo |-> Order, seen |-> Empty,
                   quiet |-> TRUE, since |-> latest]
  <2>1. loads' = [loads EXCEPT ![r] = l]
    BY <1>1 DEF StartLoad
  <2>2. l \in Loads
    BY OrderFits, SavesAssumption DEF Loads, Directories, Empty, IInv, StoreType
  <2>3. TodoFits(l) /\ SeenFits(l)
    BY OrderFits DEF TodoFits, SeenFits, Empty
  <2>4. QuietFits(l)
    BY OrderFits DEF QuietFits, ToRead
  <2> QED BY <1>0, <2>1, <2>2, <2>3, <2>4, LoadReplaces
<1>2. CASE LookCanonical(r)
  <2> DEFINE l == [loads[r] EXCEPT !.place = "canonical",
                                   !.at = IF canonical # Absent THEN "read" ELSE "second"]
  <2>1. loads' = [loads EXCEPT ![r] = l] /\ loads[r].at = "look"
    BY <1>0, <1>2 DEF LookCanonical, LoadsType
  <2>2. /\ l \in Loads /\ l.todo = loads[r].todo /\ l.seen = loads[r].seen /\ l.quiet = loads[r].quiet
        /\ l.since = loads[r].since /\ l.place = "canonical"
        /\ l.at = IF canonical # Absent THEN "read" ELSE "second"
    BY <1>0 DEF Loads
  <2> HIDE DEF l
  <2>3. TodoFits(l) /\ SeenFits(l)
    BY <1>0, <2>1, <2>2 DEF TodoFits, SeenFits
  <2>4. QuietFits(l)
    BY <1>0, <2>1, <2>2 DEF QuietFits, ToRead, IInv, Places
  <2> QED BY <1>0, <2>1, <2>2, <2>3, <2>4, LoadReplaces
<1>3. CASE LookBackup(r)
  <2> DEFINE l == [loads[r] EXCEPT !.place = IF backup # Absent THEN "backup" ELSE "canonical",
                                   !.at = "read"]
  <2>1. loads' = [loads EXCEPT ![r] = l] /\ loads[r].at = "second"
    BY <1>0, <1>3 DEF LookBackup, LoadsType
  <2>2. /\ l \in Loads /\ l.todo = loads[r].todo /\ l.seen = loads[r].seen /\ l.quiet = loads[r].quiet
        /\ l.since = loads[r].since /\ l.at = "read"
        /\ l.place = IF backup # Absent THEN "backup" ELSE "canonical"
    BY <1>0 DEF Loads
  <2> HIDE DEF l
  <2>3. TodoFits(l) /\ SeenFits(l)
    BY <1>0, <2>1, <2>2 DEF TodoFits, SeenFits
  <2>4. QuietFits(l)
    BY <1>0, <2>1, <2>2 DEF QuietFits, ToRead, IInv, Places
  <2> QED BY <1>0, <2>1, <2>2, <2>3, <2>4, LoadReplaces
<1>4. CASE ReadPart(r)
  <2> DEFINE p == Head(loads[r].todo)
             rest == Tail(loads[r].todo)
             seen == IF p \in Parts THEN [loads[r].seen EXCEPT ![p] = Directory(r)[p]] ELSE loads[r].seen
             at == IF rest = <<>> THEN "loaded" ELSE IF Head(rest) \in SamePlace THEN "read" ELSE "look"
             l == [loads[r] EXCEPT !.seen = seen, !.todo = rest, !.at = at]
  <2>1. loads' = [loads EXCEPT ![r] = l] /\ loads[r].at = "read" /\ Found(r, p)
    BY <1>0, <1>4 DEF ReadPart, LoadsType
  <2>2. loads[r].todo \in Seq(Parts \cup {"fingerprint"}) /\ loads[r].todo # <<>>
    BY <1>0, <2>1 DEF Loads, TodoFits
  <2>3. /\ p \in Parts \cup {"fingerprint"} /\ p = loads[r].todo[1] /\ 1 \in DOMAIN loads[r].todo
        /\ rest \in Seq(Parts \cup {"fingerprint"})
        /\ \A i \in DOMAIN rest : i + 1 \in DOMAIN loads[r].todo /\ rest[i] = loads[r].todo[i + 1]
        /\ \A i \in DOMAIN loads[r].todo :
              i # 1 => i - 1 \in DOMAIN rest /\ rest[i - 1] = loads[r].todo[i]
    BY <2>2, RestFits
  <2>4. "fingerprint" \notin Parts
    BY PayloadsAssumption DEF Parts
  <2>5. loads[r].seen \in Directories
    BY <1>0 DEF Loads
  <2>6. /\ seen \in Directories
        /\ \A q \in Parts : seen[q] = IF q = p THEN Directory(r)[p] ELSE loads[r].seen[q]
        /\ \A q \in Parts : seen[q] \in landed \cup {0}
    <3>1. CASE p \in Parts
      <4>1. Directory(r)[p] \in landed \cup {0}
        BY <2>1, <2>4, <3>1, FoundLanded DEF LInv
      <4>2. Directory(r)[p] \in 0 .. Saves
        BY <4>1, LandedWritten DEF LInv
      <4> QED BY <1>0, <2>5, <3>1, <4>1, <4>2 DEF Directories, SeenFits
    <3>2. CASE p \notin Parts
      BY <1>0, <2>5, <3>2 DEF SeenFits
    <3> QED BY <3>1, <3>2
  <2> HIDE DEF seen, rest, p
  <2>7. at \in {"loaded", "read", "look"} /\ (at = "loaded" <=> rest = <<>>)
    OBVIOUS
  <2> HIDE DEF at
  <2>8. /\ l \in Loads /\ l.todo = rest /\ l.seen = seen /\ l.quiet = loads[r].quiet
        /\ l.since = loads[r].since /\ l.place = loads[r].place /\ l.at = at
    BY <1>0, <2>3, <2>6, <2>7 DEF Loads
  <2> HIDE DEF l
  <2>9. TodoFits(l)
    <3>1. \A i \in DOMAIN rest : rest[i] # "manifest"
      BY <1>0, <2>3 DEF TodoFits
    <3>2. \A i \in DOMAIN rest : rest[i] = "fingerprint" => "bundle" \in Payloads
      BY <1>0, <2>3 DEF TodoFits
    <3> QED BY <2>7, <2>8, <3>1, <3>2 DEF TodoFits
  <2>10. SeenFits(l)
    BY <2>6, <2>8 DEF SeenFits
  <2>11. QuietFits(l)
    <3>1. CASE ~ loads[r].quiet
      BY <2>8, <3>1 DEF QuietFits
    <3>2. CASE loads[r].quiet
      <4>1. loads[r].since = latest /\ latest # 0 /\ Directory(r) = Whole(latest)
        BY <2>1, <3>2, QuietFinds DEF p
      <4>2. \A q \in Parts : q = p => seen[q] = latest
        BY <2>6, <4>1 DEF Whole
      <4>3. \A q \in Parts : q # p /\ ToRead(loads[r], q) => ToRead(l, q)
        BY <2>3, <2>8 DEF ToRead
      <4>4. \A q \in Parts : seen[q] = latest \/ ToRead(l, q)
        BY <1>0, <2>1, <2>6, <3>2, <4>1, <4>2, <4>3 DEF QuietFits
      <4>5. /\ (IF l.place = "canonical" THEN canonical ELSE backup) = Last
            /\ l.place = "backup" => canonical = Absent
        BY <1>0, <2>1, <2>8, <3>2 DEF QuietFits
      <4> QED BY <2>7, <2>8, <4>1, <4>4, <4>5 DEF QuietFits
    <3> QED BY <3>1, <3>2
  <2> QED BY <1>0, <2>1, <2>8, <2>9, <2>10, <2>11, LoadReplaces
<1>5. CASE FailLoad(r)
  <2> DEFINE l == [loads[r] EXCEPT !.at = "failed"]
  <2>1. /\ loads' = [loads EXCEPT ![r] = l] /\ loads[r].at = "read"
        /\ ~ Found(r, Head(loads[r].todo))
    BY <1>0, <1>5 DEF FailLoad, LoadsType
  <2>2. /\ l \in Loads /\ l.todo = loads[r].todo /\ l.seen = loads[r].seen /\ l.quiet = loads[r].quiet
        /\ l.since = loads[r].since /\ l.at = "failed"
    BY <1>0 DEF Loads
  <2> HIDE DEF l
  <2>3. TodoFits(l) /\ SeenFits(l)
    BY <1>0, <2>2 DEF TodoFits, SeenFits
  <2>4. l.quiet => l.since = 0
    BY <2>1, <2>2, QuietFinds
  <2>5. QuietFits(l)
    BY <2>2, <2>4 DEF QuietFits
  <2> QED BY <1>0, <2>1, <2>2, <2>3, <2>5, LoadReplaces
<1> QED BY <1>1, <1>2, <1>3, <1>4, <1>5 DEF Load

\* What a load has read and has still to read, through every step of both.
THEOREM LInvHolds == Spec => []LInv
<1>1. IInv /\ LInv /\ [Next]_vars => LInv'
  <2> SUFFICES ASSUME IInv, LInv, [Next]_vars PROVE LInv'
    OBVIOUS
  <2>1. StoreFits' /\ landed \subseteq landed'
    BY StoreStep DEF LInv
  <2>2. CASE Stage \/ Replace \/ Export \/ Fault
    BY <2>1, <2>2, WriterKeepsLoads DEF LInv
  <2>3. CASE \E r \in Readers : Load(r)
    BY <2>1, <2>3, LoadKeepsLoads DEF LInv
  <2>4. CASE UNCHANGED vars
    BY <2>1, <2>4
       DEF vars, LInv, LoadsFit, LoadsType, LoadFits, TodoFits, QuietFits, SeenFits, ToRead, Last
  <2> QED BY <2>2, <2>3, <2>4 DEF Next
<1> QED BY <1>1, InitLInv, IInvHolds, PTL DEF Spec

\* The directories, the writer's place and every load's record keep their types,
\* and what the renames of Checkpoint::write publish was staged by that write,
\* with every payload its manifest declares.
THEOREM TypeCorrect == Spec => []TypeOK
<1>1. IInv /\ LInv => TypeOK
  <2> SUFFICES ASSUME IInv, LInv PROVE TypeOK
    OBVIOUS
  <2>1. {canonical, backup} \subseteq Directories \cup {Absent}
    BY SavesAssumption DEF IInv, StoreType, Places, Last, Whole, Directories
  <2>2. {export, copied, gen, latest} \subseteq 0 .. Saves
    <3>1. {export, copied} \subseteq 0 .. Saves
      BY LandedWritten DEF IInv, LInv, Answers
    <3>2. gen \in 0 .. Saves /\ latest \in 0 .. Saves
      BY SavesAssumption DEF IInv, StoreType
    <3> QED BY <3>1, <3>2
  <2> QED BY <2>1, <2>2 DEF IInv, LInv, StoreType, Stages, StoreFits, LoadsFit, LoadsType, TypeOK
<1> QED BY <1>1, IInvHolds, LInvHolds, PTL

\* A load that no rename overlaps succeeds with the generation that had landed
\* when it began, whole; and no load reads a file of a write that did not land
\* (readable_state_dir, Trainer::load_checkpoint).
THEOREM LoadsAreAlwaysSound == Spec => []LoadsAreSound
<1>1. IInv /\ LInv => LoadsAreSound
  <2> SUFFICES ASSUME LInv, NEW r \in Readers
               PROVE  /\ loads[r].quiet /\ loads[r].since # 0 => loads[r].at # "failed"
                      /\ loads[r].quiet /\ loads[r].at = "loaded" =>
                             loads[r].seen = Whole(loads[r].since)
                      /\ \A p \in Parts : loads[r].seen[p] \in landed \cup {0}
    BY DEF LoadsAreSound
  <2>1. loads[r] \in Loads /\ TodoFits(loads[r]) /\ QuietFits(loads[r]) /\ SeenFits(loads[r])
    BY DEF LInv, LoadsFit, LoadsType, LoadFits
  <2>2. ASSUME loads[r].quiet, loads[r].at = "loaded" PROVE loads[r].seen = Whole(loads[r].since)
    <3>1. loads[r].since # 0
      BY <2>1, <2>2 DEF QuietFits
    <3>2. \A p \in Parts : ~ ToRead(loads[r], p)
      BY <2>1, <2>2 DEF TodoFits, ToRead
    <3>3. \A p \in Parts : loads[r].seen[p] = loads[r].since
      BY <2>1, <2>2, <3>1, <3>2 DEF QuietFits
    <3>4. loads[r].seen \in Directories
      BY <2>1 DEF Loads
    <3> QED BY <3>3, <3>4 DEF Directories, Whole
  <2>3. loads[r].quiet /\ loads[r].since # 0 => loads[r].at # "failed"
    BY <2>1 DEF QuietFits
  <2> QED BY <2>1, <2>2, <2>3 DEF SeenFits
<1> QED BY <1>1, IInvHolds, LInvHolds, PTL

==============================================================================
