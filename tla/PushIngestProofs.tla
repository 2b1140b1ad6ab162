-------------------------- MODULE PushIngestProofs --------------------------
(***************************************************************************)
(* Proofs about Staging and about PushIngest, which implements it and      *)
(* leaves a consistent S3 behind, for every set of pushes and blobs and    *)
(* every number of faults.                                                 *)
(***************************************************************************)
EXTENDS PushIngest, FiniteSetTheorems, TLAPS

-----------------------------------------------------------------------------
(* The staged copies and their guards.                                     *)

\* The live guards of one hash, whose number the pending table holds.
GuardsOf(h) == {p \in guards : HashOf[p] = h}

IInv == StagingTypeOK /\ StagingInv

\* The guards of a hash are finitely many, and the table's entry for a hash
\* with a live guard is not zero.
LEMMA GuardsFinite ==
  ASSUME IInv
  PROVE  /\ \A h \in Hash : IsFiniteSet(GuardsOf(h))
         /\ \A p \in guards : HashOf[p] \in Hash /\ pending[HashOf[p]] > 0
<1>1. \A h \in Hash : IsFiniteSet(GuardsOf(h))
  BY PushAssumption, FS_Subset, Zenon DEF IInv, StagingTypeOK, GuardsOf
<1>2. ASSUME NEW p \in guards
      PROVE  HashOf[p] \in Hash /\ pending[HashOf[p]] > 0
  <2>1. HashOf[p] \in Hash
    BY HashOfAssumption, Zenon DEF IInv, StagingTypeOK
  <2>2. pending[HashOf[p]] = Cardinality(GuardsOf(HashOf[p]))
    BY <2>1, Zenon DEF IInv, StagingInv, PendingCountsGuards, GuardsOf
  <2>3. p \in GuardsOf(HashOf[p])
    BY Zenon DEF GuardsOf
  <2>4. Cardinality(GuardsOf(HashOf[p])) # 0
    BY <1>1, <2>1, <2>3, FS_EmptySet, Zenon
  <2>. QED
    BY <2>1, <2>2, <2>4 DEF IInv, StagingTypeOK
<1>. QED
  BY <1>1, <1>2, Zenon

\* So the second read of keep_set sees every push that holds a guard.
LEMMA PendingHashesAreGuarded ==
  ASSUME IInv
  PROVE  \A p \in guards : HashOf[p] \in PendingHashes
BY GuardsFinite, Zenon DEF PendingHashes

\* Every operation keeps the types.
LEMMA TypeStep ==
  ASSUME IInv, [StagingNext]_stagingVars
  PROVE  StagingTypeOK'
<1>. USE HashOfAssumption, MaxFaultsAssumption
     DEF StagingTypeOK, Content, GcPhase
<1>. StagingTypeOK
  BY Zenon DEF IInv
<1>1. ASSUME NEW p \in Push, Track(p) PROVE StagingTypeOK'
  BY <1>1 DEF Track, collectorVars
<1>2. ASSUME NEW p \in Push, Release(p) PROVE StagingTypeOK'
  <2>1. p \in guards /\ HashOf[p] \in Hash /\ pending[HashOf[p]] > 0
    BY <1>2, GuardsFinite, Zenon DEF Release, Drop
  <2>2. pending' \in [Hash -> Nat]
    BY <1>2, <2>1 DEF Release, Drop
  <2>. QED
    BY <1>2, <2>2, Zenon DEF Release, Drop, collectorVars
<1>3. ASSUME NEW p \in Push, ImportWrite(p) PROVE StagingTypeOK'
  BY <1>3 DEF ImportWrite
<1>4. ASSUME NEW p \in Push, ImportEnd(p) PROVE StagingTypeOK'
  BY <1>4, Zenon DEF ImportEnd, collectorVars
<1>5. ASSUME NEW p \in Push, Overrun(p) PROVE StagingTypeOK'
  BY <1>5, Zenon DEF Overrun, collectorVars
<1>6. CASE Collector
  BY <1>6 DEF Collector, GcBegin, GcList, GcListFails, GcProtect, GcStart,
       GcDelete, GcFinish, GcDie, EndRun, PendingHashes, collectorVars
<1>7. CASE Watcher
  BY <1>7 DEF Watcher, SilenceNoticed, SlowRunTakenForSilence, Drained,
       DrainLimit, collectorVars
<1>8. CASE Restart
  BY <1>8, Zenon DEF Restart, Reboot, EndRun
<1>9. CASE Crash
  BY <1>9 DEF Crash, Reboot, EndRun
<1>10. CASE UNCHANGED stagingVars
  BY <1>10, Zenon DEF stagingVars
<1>. QED
  BY <1>1, <1>2, <1>3, <1>4, <1>5, <1>6, <1>7, <1>8, <1>9, <1>10, Zenon DEF StagingNext

\* Only track, drop and the end of the process touch the guards or the table;
\* all other steps leave both alone.
LEMMA OtherStepsKeepTable ==
  ASSUME [StagingNext]_stagingVars,
         ~ \E p \in Push : Track(p) \/ Release(p),
         ~ (Restart \/ Crash)
  PROVE  guards' = guards /\ pending' = pending
BY Zenon DEF StagingNext, stagingVars, ImportWrite, ImportEnd, Overrun, Collector,
       GcBegin, GcList, GcListFails, GcProtect, GcStart, GcDelete, GcFinish,
       GcDie, Watcher, SilenceNoticed, SlowRunTakenForSilence, Drained,
       DrainLimit

\* The table goes on counting the guards.
LEMMA CountStep ==
  ASSUME IInv, [StagingNext]_stagingVars
  PROVE  PendingCountsGuards'
<1>. SUFFICES ASSUME NEW h \in Hash
              PROVE  pending'[h] = Cardinality(GuardsOf(h)')
  BY Zenon DEF PendingCountsGuards, GuardsOf
<1>0. /\ IsFiniteSet(GuardsOf(h))
      /\ pending[h] = Cardinality(GuardsOf(h))
      /\ pending \in [Hash -> Nat]
      /\ guards \subseteq Push
  BY GuardsFinite, Zenon DEF IInv, StagingTypeOK, StagingInv, PendingCountsGuards, GuardsOf
<1>1. ASSUME NEW p \in Push, Track(p)
      PROVE  pending'[h] = Cardinality(GuardsOf(h)')
  <2>1. p \notin guards
    BY <1>1, Zenon DEF Track, IInv, StagingInv, GuardsAreTracked
  <2>2. CASE HashOf[p] = h
    <3>1. GuardsOf(h)' = GuardsOf(h) \cup {p} /\ p \notin GuardsOf(h)
      BY <1>1, <2>1, <2>2, Zenon DEF Track, GuardsOf
    <3>2. Cardinality(GuardsOf(h)') = Cardinality(GuardsOf(h)) + 1
      BY <1>0, <3>1, FS_AddElement, Zenon
    <3>. QED
      BY <1>0, <1>1, <2>2, <3>2, Zenon DEF Track
  <2>3. CASE HashOf[p] # h
    <3>1. GuardsOf(h)' = GuardsOf(h)
      BY <1>1, <2>3, Zenon DEF Track, GuardsOf
    <3>. QED
      BY <1>0, <1>1, <2>3, <3>1, Zenon DEF Track
  <2>. QED
    BY <2>2, <2>3, Zenon
<1>2. ASSUME NEW p \in Push, Release(p)
      PROVE  pending'[h] = Cardinality(GuardsOf(h)')
  <2>1. p \in guards
    BY <1>2, Zenon DEF Release, Drop
  <2>2. CASE HashOf[p] = h
    <3>1. GuardsOf(h)' = GuardsOf(h) \ {p} /\ p \in GuardsOf(h)
      BY <1>2, <2>1, <2>2, Zenon DEF Release, Drop, GuardsOf
    <3>2. Cardinality(GuardsOf(h)') = Cardinality(GuardsOf(h)) - 1
      BY <1>0, <3>1, FS_RemoveElement, Zenon
    <3>. QED
      BY <1>0, <1>2, <2>2, <3>2, Zenon DEF Release, Drop
  <2>3. CASE HashOf[p] # h
    <3>1. GuardsOf(h)' = GuardsOf(h)
      BY <1>2, <2>3 DEF Release, Drop, GuardsOf
    <3>. QED
      BY <1>0, <1>2, <2>3, <3>1, Zenon DEF Release, Drop
  <2>. QED
    BY <2>2, <2>3, Zenon
<1>3. CASE Restart \/ Crash
  <2>1. GuardsOf(h)' = {} /\ pending'[h] = 0
    BY <1>3, Zenon DEF Restart, Crash, Reboot, GuardsOf
  <2>. QED
    BY <2>1, FS_EmptySet, Zenon
<1>4. CASE guards' = guards /\ pending' = pending
  BY <1>0, <1>4, Zenon DEF GuardsOf
<1>. QED
  BY <1>1, <1>2, <1>3, <1>4, OtherStepsKeepTable, Zenon

\* The live set of a run goes on covering the pushes that were pending at its
\* last read: a later push is marked by the phase it was tracked in.
LEMMA KeepStep ==
  ASSUME IInv, [StagingNext]_stagingVars
  PROVE  KeepCoversPending'
<1>. USE DEF KeepCoversPending
<1>. StagingTypeOK /\ KeepCoversPending
  BY Zenon DEF IInv, StagingInv
<1>1. ASSUME NEW p \in Push, Track(p) PROVE KeepCoversPending'
  BY <1>1, Zenon DEF Track, StagingTypeOK, collectorVars
<1>2. ASSUME NEW p \in Push, Release(p) PROVE KeepCoversPending'
  BY <1>2, Zenon DEF Release, Drop, collectorVars
<1>3. ASSUME NEW p \in Push, ImportWrite(p) PROVE KeepCoversPending'
  BY <1>3, Zenon DEF ImportWrite
<1>4. ASSUME NEW p \in Push, ImportEnd(p) \/ Overrun(p) PROVE KeepCoversPending'
  BY <1>4, Zenon DEF ImportEnd, Overrun, collectorVars
<1>5. CASE GcProtect
  BY <1>5, PendingHashesAreGuarded, Zenon DEF GcProtect, EndRun
<1>6. CASE GcStart
  BY <1>6, Zenon DEF GcStart
<1>7. ASSUME NEW h \in Hash, GcDelete(h) PROVE KeepCoversPending'
  BY <1>7, Zenon DEF GcDelete, collectorVars
<1>8. CASE GcBegin \/ GcList
  BY <1>8, Zenon DEF GcBegin, GcList
<1>9. CASE GcListFails \/ GcFinish \/ GcDie
  BY <1>9, Zenon DEF GcListFails, GcFinish, GcDie, EndRun
<1>10. CASE Watcher
  BY <1>10, Zenon DEF Watcher, SilenceNoticed, SlowRunTakenForSilence, Drained,
       DrainLimit, collectorVars
<1>11. CASE Restart \/ Crash
  BY <1>11, Zenon DEF Restart, Crash, Reboot, EndRun
<1>12. CASE UNCHANGED stagingVars
  BY <1>12, Zenon DEF stagingVars
<1>. QED
  BY <1>1, <1>2, <1>3, <1>4, <1>5, <1>6, <1>7, <1>8, <1>9, <1>10, <1>11, <1>12, Zenon
  DEF StagingNext, Collector

\* An import is approved only with its guard, and the guard outlives it.
LEMMA ImportsStep ==
  ASSUME IInv, [StagingNext]_stagingVars
  PROVE  ImportsArePending' /\ GuardsAreTracked'
<1>. USE DEF ImportsArePending, GuardsAreTracked
<1>. StagingTypeOK /\ ImportsArePending /\ GuardsAreTracked
  BY Zenon DEF IInv, StagingInv
<1>1. ASSUME NEW p \in Push, Track(p)
      PROVE  ImportsArePending' /\ GuardsAreTracked'
  BY <1>1, Zenon DEF Track, StagingTypeOK
<1>2. ASSUME NEW p \in Push, Release(p)
      PROVE  ImportsArePending' /\ GuardsAreTracked'
  BY <1>2, Zenon DEF Release, Drop
<1>3. ASSUME NEW p \in Push, ImportWrite(p) \/ ImportEnd(p) \/ Overrun(p)
      PROVE  ImportsArePending' /\ GuardsAreTracked'
  BY <1>3, Zenon DEF ImportWrite, ImportEnd, Overrun, StagingTypeOK
<1>4. CASE Collector
  BY <1>4, Zenon DEF Collector, GcBegin, GcList, GcListFails, GcProtect, GcStart,
       GcDelete, GcFinish, GcDie
<1>5. CASE Watcher
  BY <1>5, Zenon DEF Watcher, SilenceNoticed, SlowRunTakenForSilence, Drained, DrainLimit
<1>6. CASE Restart \/ Crash
  BY <1>6, Zenon DEF Restart, Crash, Reboot
<1>7. CASE UNCHANGED stagingVars
  BY <1>7, Zenon DEF stagingVars
<1>. QED
  BY <1>1, <1>2, <1>3, <1>4, <1>5, <1>6, <1>7, Zenon DEF StagingNext

\* The inductive invariant of the staging table holds at first.
LEMMA InvInit == StagingInit => IInv
<1>. SUFFICES ASSUME StagingInit PROVE IInv
  BY Zenon
<1>1. StagingTypeOK
  BY MaxFaultsAssumption DEF StagingInit, StagingTypeOK, Content, GcPhase
<1>2. ASSUME NEW h \in Hash
      PROVE  pending[h] = Cardinality({p \in guards : HashOf[p] = h})
  <2>1. {p \in guards : HashOf[p] = h} = {} /\ pending[h] = 0
    BY Zenon DEF StagingInit
  <2>. QED
    BY <2>1, FS_EmptySet, Zenon
<1>. QED
  BY <1>1, <1>2, Zenon DEF IInv, StagingInit, StagingInv, PendingCountsGuards,
     KeepCoversPending, ImportsArePending, GuardsAreTracked

\* Every step of staging keeps it.
LEMMA InvStep == IInv /\ [StagingNext]_stagingVars => IInv'
BY TypeStep, CountStep, KeepStep, ImportsStep, Zenon DEF IInv, StagingInv

\* staging.rs: the table, the collector's live set and the imports stay
\* consistent, and every variable keeps its type.
THEOREM StagingInvariant == StagingSpec => [](StagingTypeOK /\ StagingInv)
<1>. QED
  BY InvInit, InvStep, PTL DEF StagingSpec, IInv

\* Only GcDelete removes a blob from the store.
LEMMA CollectsIsGcDelete ==
  ASSUME IInv, [StagingNext]_stagingVars, NEW h \in Hash, Collects(h)
  PROVE  gc = "running" /\ h \in Doomed
<1>. USE DEF Collects
<1>. StagingTypeOK
  BY Zenon DEF IInv
<1>1. CASE store' = store
  BY <1>1, Zenon
<1>2. ASSUME NEW p \in Push, ImportWrite(p) PROVE FALSE
  BY <1>2, Zenon DEF ImportWrite, StagingTypeOK
<1>3. ASSUME NEW g \in Hash, GcDelete(g) PROVE gc = "running" /\ h \in Doomed
  <2>1. h = g
    BY <1>3, Zenon DEF GcDelete, StagingTypeOK
  <2>. QED
    BY <1>3, <2>1, Zenon DEF GcDelete
<1>. QED
  BY <1>1, <1>2, <1>3, Zenon
  DEF StagingNext, stagingVars, Track, Release, Drop, ImportEnd, Overrun,
      Collector, GcBegin, GcList, GcListFails, GcProtect, GcStart, GcFinish,
      GcDie, Watcher, SilenceNoticed, SlowRunTakenForSilence, Drained,
      DrainLimit, Restart, Crash, Reboot

\* staging.rs:9-17: the collector deletes a pending push's data only when the
\* push was accepted after the run's last read of the pending table.
THEOREM CollectorSafe == StagingSpec => CollectorSparesPending
<1>1. IInv /\ [StagingNext]_stagingVars =>
        [\A h \in Hash : Collects(h) =>
            /\ h \notin written
            /\ \A p \in guards : HashOf[p] = h => since[p] # "before"]_stagingVars
  BY CollectsIsGcDelete, Zenon DEF Doomed, IInv, StagingInv, KeepCoversPending
<1>. QED
  BY <1>1, InvInit, InvStep, PTL DEF StagingSpec, CollectorSparesPending

\* node.rs:415-418: the collector deletes nothing under a running import,
\* unless the push came after the run's last read or its import outlived
\* TRANSFER_END_WAIT.
THEOREM ImportsSafe == StagingSpec => CollectorSparesImports
<1>1. IInv /\ [StagingNext]_stagingVars =>
        [\A p \in Push :
            (import[p] = "running" /\ Collects(HashOf[p]))
               => since[p] # "before" \/ p \in overran]_stagingVars
  BY CollectsIsGcDelete, HashOfAssumption, Zenon
  DEF Doomed, IInv, StagingInv, KeepCoversPending, ImportsArePending
<1>. QED
  BY <1>1, InvInit, InvStep, PTL DEF StagingSpec, CollectorSparesImports

-----------------------------------------------------------------------------
(* The ingest of a push.                                                   *)

IIngest == TypeOK /\ IngestInv

\* The definitions a step of a task expands to.
USE DEF ingestVars, Goto, HasPermit, Uploading, Ended

\* A task's step is a step of staging, or leaves it alone.
LEMMA TaskStepIsStaging ==
  ASSUME IIngest, NEW p \in Push, TaskStep(p)
  PROVE  \/ Track(p) \/ Release(p) \/ Overrun(p)
         \/ UNCHANGED stagingVars
<1>1. pc[p] \in {"observe", "permit"} \cup HasPermit => import[p] = "ended" \/ p \in overran
  BY Zenon DEF IIngest, IngestInv, TransferIsOver
<1>2. CASE Accept(p)
  BY <1>2, Zenon DEF Accept
<1>3. CASE EndWaitTimesOut(p)
  BY <1>3, Zenon DEF EndWaitTimesOut
<1>4. CASE ClosedOversize(p)
  BY <1>4, Zenon DEF ClosedOversize, Release
<1>5. CASE ObserveGivesUp(p) \/ ExportRefuses(p) \/ ExportFails(p)
             \/ ValidateRefuses(p) \/ ValidateFails(p) \/ PutManifest(p)
  BY <1>1, <1>5, Zenon DEF ObserveGivesUp, ExportRefuses, ExportFails, ValidateRefuses,
       ValidateFails, PutManifest, Return, Release
<1>6. CASE UploadCallFails(p)
  BY <1>1, <1>6, Zenon DEF UploadCallFails, UploadError, Return, Release
<1>7. CASE Refuse(p) \/ TransferEnds(p) \/ OversizeNoticed(p) \/ Stalled(p)
             \/ ClosedStalled(p) \/ ObservedComplete(p) \/ AcquirePermit(p)
             \/ Export(p) \/ Validate(p) \/ PutOutboard(p) \/ HeadBlob(p)
             \/ PutBlobFile(p) \/ RecordOwner(p)
  BY <1>7, Zenon DEF Refuse, TransferEnds, OversizeNoticed, Stalled, ClosedStalled,
       ObservedComplete, AcquirePermit, Export, Validate, PutOutboard, HeadBlob,
       PutBlobFile, RecordOwner
<1>. QED
  BY <1>2, <1>3, <1>4, <1>5, <1>6, <1>7, Zenon DEF TaskStep

\* Every step of the node is a step of staging.
LEMMA NextIsStaging ==
  ASSUME IIngest, [Next]_vars
  PROVE  [StagingNext]_stagingVars
<1>1. ASSUME NEW p \in Push, TaskStep(p)
      PROVE  [StagingNext]_stagingVars
  BY <1>1, TaskStepIsStaging, Zenon DEF StagingNext
<1>2. ASSUME NEW p \in Push, Receive(p) \/ ImportStep(p) \/ RemoveScratch(p)
      PROVE  [StagingNext]_stagingVars
  BY <1>2, Zenon DEF Receive, ImportStep, RemoveScratch, StagingNext
<1>3. CASE CollectorStep \/ WatcherStep \/ ProcessRestart \/ ProcessCrash
  BY <1>3, Zenon DEF CollectorStep, WatcherStep, ProcessRestart, ProcessCrash, StagingNext
<1>4. CASE UNCHANGED vars
  BY <1>4, Zenon DEF vars
<1>. QED
  BY <1>1, <1>2, <1>3, <1>4, Zenon DEF Next

\* Tasks whose ingest holds a permit.
Holders == {p \in Push : pc[p] \in HasPermit}

\* The steps that return a permit, with the return of ingest_stored.
Returns(p) == pc[p] \in HasPermit /\ \E l \in Ended \cup {"owner"} : Return(p, l)

\* A task takes a permit, returns it, or does neither.
LEMMA PermitStep ==
  ASSUME TypeOK, NEW p \in Push, TaskStep(p)
  PROVE  \/ AcquirePermit(p)
         \/ Returns(p)
         \/ permits' = permits /\ Holders' = Holders
<1>. USE DEF TypeOK, PC
<1>1. CASE ExportRefuses(p) \/ ExportFails(p)
             \/ ValidateRefuses(p) \/ ValidateFails(p) \/ PutManifest(p)
  BY <1>1, Zenon DEF ExportRefuses, ExportFails, ValidateRefuses,
       ValidateFails, PutManifest, Returns
<1>2. CASE UploadCallFails(p)
  <2>1. CASE tries[p] < UPLOAD_RETRIES
    BY <1>2, <2>1, Zenon DEF UploadCallFails, UploadError, Holders
  <2>2. CASE ~ (tries[p] < UPLOAD_RETRIES)
    BY <1>2, <2>2, Zenon DEF UploadCallFails, UploadError, Returns
  <2>. QED
    BY <2>1, <2>2, Zenon
<1>3. CASE Refuse(p) \/ Accept(p) \/ TransferEnds(p) \/ OversizeNoticed(p)
             \/ Stalled(p) \/ EndWaitTimesOut(p)
  BY <1>3, Zenon DEF Refuse, Accept, TransferEnds, OversizeNoticed, Stalled,
       EndWaitTimesOut, Holders
<1>4. CASE ClosedOversize(p) \/ ClosedStalled(p) \/ ObservedComplete(p)
             \/ ObserveGivesUp(p)
  BY <1>4, Zenon DEF ClosedOversize, ClosedStalled, ObservedComplete, ObserveGivesUp,
       Holders
<1>5. CASE Export(p) \/ Validate(p) \/ PutOutboard(p) \/ HeadBlob(p)
             \/ PutBlobFile(p) \/ RecordOwner(p)
  BY <1>5, Zenon DEF Export, Validate, PutOutboard, HeadBlob, PutBlobFile, RecordOwner,
       Holders
<1>. QED
  BY <1>1, <1>2, <1>3, <1>4, <1>5, Zenon DEF TaskStep

\* Free permits and tasks holding one always add up.
LEMMA PermitsStep ==
  ASSUME TypeOK, PermitsBalance, [Next]_vars
  PROVE  PermitsBalance' /\ permits' \in 0..MaxConcurrentIngests
<1>0. /\ IsFiniteSet(Holders)
      /\ Cardinality(Holders) \in Nat
      /\ permits \in Nat
      /\ permits + Cardinality(Holders) = MaxConcurrentIngests
      /\ MaxConcurrentIngests \in Nat
  <2>1. IsFiniteSet(Holders)
    BY PushAssumption, FS_Subset, Zenon DEF Holders
  <2>. QED
    BY <2>1, FS_CardinalityType, PermitAssumption DEF PermitsBalance, Holders, TypeOK
<1>. SUFFICES /\ permits' \in Nat
              /\ Cardinality(Holders') \in Nat
              /\ permits' + Cardinality(Holders') = MaxConcurrentIngests
  BY <1>0 DEF PermitsBalance, Holders
<1>1. ASSUME NEW p \in Push, AcquirePermit(p)
      PROVE  /\ permits' \in Nat
             /\ Cardinality(Holders') \in Nat
             /\ permits' + Cardinality(Holders') = MaxConcurrentIngests
  <2>1. Holders' = Holders \cup {p} /\ p \notin Holders
    BY <1>1, Zenon DEF AcquirePermit, Holders, TypeOK
  <2>2. Cardinality(Holders') = Cardinality(Holders) + 1
    BY <1>0, <2>1, FS_AddElement, Zenon
  <2>. QED
    BY <1>0, <1>1, <2>2 DEF AcquirePermit
<1>2. ASSUME NEW p \in Push, Returns(p)
      PROVE  /\ permits' \in Nat
             /\ Cardinality(Holders') \in Nat
             /\ permits' + Cardinality(Holders') = MaxConcurrentIngests
  <2>1. Holders' = Holders \ {p} /\ p \in Holders
    BY <1>2, Zenon DEF Returns, Return, Holders, TypeOK
  <2>2. Cardinality(Holders') = Cardinality(Holders) - 1 /\ Cardinality(Holders) # 0
    BY <1>0, <2>1, FS_RemoveElement, FS_EmptySet, Zenon
  <2>. QED
    BY <1>0, <1>2, <2>2 DEF Returns, Return
<1>3. CASE permits' = permits /\ Holders' = Holders
  BY <1>0, <1>3, Zenon
<1>4. CASE TasksEnd
  <2>1. Holders' = {}
    BY <1>4, Zenon DEF TasksEnd, Holders, TypeOK, PC
  <2>. QED
    BY <1>0, <1>4, <2>1, FS_EmptySet DEF TasksEnd
<1>5. ASSUME NEW p \in Push, Receive(p) \/ ImportStep(p) \/ RemoveScratch(p)
      PROVE  permits' = permits /\ Holders' = Holders
  BY <1>5, Zenon DEF Receive, ImportStep, RemoveScratch, Holders, TypeOK
<1>6. CASE CollectorStep \/ WatcherStep \/ UNCHANGED vars
  BY <1>3, <1>6, Zenon DEF CollectorStep, WatcherStep, vars, Holders
<1>. QED
  BY <1>1, <1>2, <1>3, <1>4, <1>5, <1>6, PermitStep, Zenon
  DEF Next, ProcessRestart, ProcessCrash

\* The task's own variables keep their types; staging's do by StagingProofs.
LEMMA IngestTypeStep ==
  ASSUME TypeOK, [Next]_vars
  PROVE  /\ pc' \in [Push -> PC]
         /\ tries' \in [Push -> 0..UPLOAD_RETRIES]
         /\ scratch' \subseteq Push
         /\ s3' \in [Kind -> SUBSET Hash]
<1>. USE HashOfAssumption DEF TypeOK, PC, Kind, UPLOAD_RETRIES, Put
<1>. DEFINE Typed == /\ pc \in [Push -> PC]
                    /\ tries \in [Push -> 0..UPLOAD_RETRIES]
                    /\ scratch \subseteq Push
                    /\ s3 \in [Kind -> SUBSET Hash]
<1>1. ASSUME NEW p \in Push,
             Refuse(p) \/ Accept(p) \/ TransferEnds(p) \/ OversizeNoticed(p)
               \/ Stalled(p) \/ EndWaitTimesOut(p) \/ ClosedOversize(p)
               \/ ClosedStalled(p) \/ ObservedComplete(p) \/ ObserveGivesUp(p)
               \/ AcquirePermit(p)
      PROVE  Typed'
  BY <1>1, Zenon DEF Refuse, Accept, TransferEnds, OversizeNoticed, Stalled,
       EndWaitTimesOut, ClosedOversize, ClosedStalled, ObservedComplete,
       ObserveGivesUp, AcquirePermit
<1>2. ASSUME NEW p \in Push,
             Export(p) \/ ExportRefuses(p) \/ ExportFails(p) \/ Validate(p)
               \/ ValidateRefuses(p) \/ ValidateFails(p)
      PROVE  Typed'
  BY <1>2 DEF Export, ExportRefuses, ExportFails, Validate, ValidateRefuses,
       ValidateFails, Return
<1>3. ASSUME NEW p \in Push,
             PutOutboard(p) \/ HeadBlob(p) \/ PutBlobFile(p) \/ PutManifest(p)
               \/ RecordOwner(p)
      PROVE  Typed'
  BY <1>3 DEF PutOutboard, HeadBlob, PutBlobFile, PutManifest, RecordOwner, Return
<1>4. ASSUME NEW p \in Push, UploadCallFails(p) PROVE Typed'
  BY <1>4 DEF UploadCallFails, UploadError, Return
<1>5. ASSUME NEW p \in Push, Receive(p) \/ ImportStep(p) \/ RemoveScratch(p)
      PROVE  Typed'
  BY <1>5, Zenon DEF Receive, ImportStep, RemoveScratch
<1>6. CASE CollectorStep \/ WatcherStep \/ UNCHANGED vars
  BY <1>6, Zenon DEF CollectorStep, WatcherStep, vars
<1>7. CASE ProcessRestart \/ ProcessCrash
  BY <1>7 DEF ProcessRestart, ProcessCrash, TasksEnd
<1>. QED
  BY <1>1, <1>2, <1>3, <1>4, <1>5, <1>6, <1>7, Zenon DEF Next, TaskStep

\* A task's guard follows its program counter.
LEMMA GuardStep ==
  ASSUME TypeOK, IngestInv, [Next]_vars
  PROVE  TaskHoldsGuard'
<1>. USE DEF TaskHoldsGuard, Pending, PC
<1>. TypeOK /\ TaskHoldsGuard /\ guards \subseteq Push
  BY Zenon DEF IngestInv, TypeOK, StagingTypeOK
<1>1. ASSUME NEW p \in Push, Accept(p) PROVE TaskHoldsGuard'
  BY <1>1, Zenon DEF Accept, Track, TypeOK
<1>2. ASSUME NEW p \in Push, ClosedOversize(p) \/ ObserveGivesUp(p)
      PROVE  TaskHoldsGuard'
  BY <1>2, Zenon DEF ClosedOversize, ObserveGivesUp, Drop, TypeOK
<1>3. ASSUME NEW p \in Push, Returns(p) PROVE TaskHoldsGuard'
  BY <1>3, Zenon DEF Returns, Return, Drop, TypeOK
<1>4. ASSUME NEW p \in Push,
             ExportRefuses(p) \/ ExportFails(p) \/ ValidateRefuses(p)
               \/ ValidateFails(p) \/ PutManifest(p)
      PROVE  Returns(p)
  BY <1>4, Zenon DEF ExportRefuses, ExportFails, ValidateRefuses, ValidateFails,
       PutManifest, Returns
<1>5. ASSUME NEW p \in Push, UploadCallFails(p) PROVE TaskHoldsGuard'
  <2>1. CASE tries[p] < UPLOAD_RETRIES
    BY <1>5, <2>1, Zenon DEF UploadCallFails, UploadError, TypeOK, stagingVars
  <2>2. CASE ~ (tries[p] < UPLOAD_RETRIES)
    BY <1>3, <1>5, <2>2, Zenon DEF UploadCallFails, UploadError, Returns
  <2>. QED
    BY <2>1, <2>2, Zenon
<1>6. ASSUME NEW p \in Push,
             Receive(p) \/ Refuse(p) \/ TransferEnds(p) \/ OversizeNoticed(p)
               \/ Stalled(p) \/ ClosedStalled(p) \/ ObservedComplete(p)
               \/ AcquirePermit(p)
      PROVE  TaskHoldsGuard'
  BY <1>6, Zenon DEF Receive, Refuse, TransferEnds, OversizeNoticed, Stalled,
       ClosedStalled, ObservedComplete, AcquirePermit, stagingVars, TypeOK
<1>7. ASSUME NEW p \in Push,
             Export(p) \/ Validate(p) \/ PutOutboard(p) \/ HeadBlob(p)
               \/ PutBlobFile(p) \/ RecordOwner(p) \/ RemoveScratch(p)
      PROVE  TaskHoldsGuard'
  BY <1>7, Zenon DEF Export, Validate, PutOutboard, HeadBlob, PutBlobFile, RecordOwner,
       RemoveScratch, stagingVars, TypeOK
<1>8. ASSUME NEW p \in Push, EndWaitTimesOut(p) \/ ImportStep(p)
      PROVE  TaskHoldsGuard'
  BY <1>8, Zenon DEF EndWaitTimesOut, Overrun, ImportStep, ImportWrite, ImportEnd
<1>9. CASE CollectorStep
  BY <1>9, Zenon DEF CollectorStep, Collector, GcBegin, GcList, GcListFails, GcProtect,
       GcStart, GcDelete, GcFinish, GcDie
<1>10. CASE WatcherStep
  BY <1>10, Zenon DEF WatcherStep, Watcher, SilenceNoticed, SlowRunTakenForSilence,
       Drained, DrainLimit
<1>11. CASE ProcessRestart \/ ProcessCrash
  BY <1>11, Zenon DEF ProcessRestart, ProcessCrash, TasksEnd, Restart, Crash, Reboot, TypeOK
<1>12. CASE UNCHANGED vars
  BY <1>12, Zenon DEF vars, stagingVars
<1>. QED
  BY <1>1, <1>2, <1>3, <1>4, <1>5, <1>6, <1>7, <1>8, <1>9, <1>10, <1>11, <1>12, Zenon
  DEF Next, TaskStep

\* A task goes past the wait only when its import has ended or overrun, and
\* neither is undone while the process lives.
LEMMA TransferStep ==
  ASSUME TypeOK, IngestInv, [Next]_vars
  PROVE  TransferIsOver'
<1>. USE DEF TransferIsOver, PC
<1>. TypeOK /\ TransferIsOver
  BY Zenon DEF IngestInv
<1>1. ASSUME NEW p \in Push, Accept(p) PROVE TransferIsOver'
  BY <1>1, Zenon DEF Accept, Track, TypeOK, StagingTypeOK
<1>2. ASSUME NEW p \in Push, EndWaitTimesOut(p) \/ ImportStep(p)
      PROVE  TransferIsOver'
  BY <1>2, Zenon DEF EndWaitTimesOut, Overrun, ImportStep, ImportWrite, ImportEnd,
       TypeOK, StagingTypeOK
<1>3. ASSUME NEW p \in Push, import' = import, overran' = overran,
             \/ pc' = pc
             \/ pc[p] \in {"observe", "permit"} \cup HasPermit
                  /\ \E l \in PC : Goto(p, l)
             \/ \E l \in PC \ ({"observe", "permit"} \cup HasPermit) : Goto(p, l)
      PROVE  TransferIsOver'
  BY <1>3, Zenon DEF TypeOK
<1>4. ASSUME NEW p \in Push, TransferEnds(p) \/ ClosedStalled(p)
      PROVE  TransferIsOver'
  BY <1>4, Zenon DEF TransferEnds, ClosedStalled, stagingVars, TypeOK
<1>5. ASSUME NEW p \in Push,
             Receive(p) \/ Refuse(p) \/ OversizeNoticed(p) \/ Stalled(p)
               \/ RecordOwner(p) \/ RemoveScratch(p)
      PROVE  TransferIsOver'
  BY <1>3, <1>5, Zenon DEF Receive, Refuse, OversizeNoticed, Stalled, RecordOwner,
       RemoveScratch, stagingVars
<1>6. ASSUME NEW p \in Push, ClosedOversize(p) \/ ObserveGivesUp(p)
      PROVE  TransferIsOver'
  BY <1>3, <1>6, Zenon DEF ClosedOversize, ObserveGivesUp, Drop
<1>7. ASSUME NEW p \in Push,
             ObservedComplete(p) \/ AcquirePermit(p) \/ Export(p) \/ Validate(p)
               \/ PutOutboard(p) \/ HeadBlob(p) \/ PutBlobFile(p)
      PROVE  TransferIsOver'
  BY <1>3, <1>7, Zenon DEF ObservedComplete, AcquirePermit, Export, Validate,
       PutOutboard, HeadBlob, PutBlobFile, stagingVars
<1>8. ASSUME NEW p \in Push,
             ExportRefuses(p) \/ ExportFails(p) \/ ValidateRefuses(p)
               \/ ValidateFails(p) \/ PutManifest(p)
      PROVE  TransferIsOver'
  BY <1>3, <1>8, Zenon DEF ExportRefuses, ExportFails, ValidateRefuses, ValidateFails,
       PutManifest, Return, Drop
<1>9. ASSUME NEW p \in Push, UploadCallFails(p) PROVE TransferIsOver'
  BY <1>3, <1>9, Zenon DEF UploadCallFails, UploadError, Return, Drop, stagingVars
<1>10. CASE CollectorStep
  BY <1>10, Zenon DEF CollectorStep, Collector, GcBegin, GcList, GcListFails, GcProtect,
       GcStart, GcDelete, GcFinish, GcDie
<1>11. CASE WatcherStep
  BY <1>11, Zenon DEF WatcherStep, Watcher, SilenceNoticed, SlowRunTakenForSilence,
       Drained, DrainLimit
<1>12. CASE ProcessRestart \/ ProcessCrash
  BY <1>12, Zenon DEF ProcessRestart, ProcessCrash, TasksEnd, TypeOK
<1>13. CASE UNCHANGED vars
  BY <1>13, Zenon DEF vars, stagingVars
<1>. QED
  BY <1>1, <1>2, <1>4, <1>5, <1>6, <1>7, <1>8, <1>9, <1>10, <1>11, <1>12, <1>13, Zenon
  DEF Next, TaskStep

\* What the bucket holds of each blob.
S3Inv == BlobHasOutboard /\ OnlyAcceptedStored /\ RecordsNameStoredBlobs

\* The upload's order is kept and what is stored only grows.
LEMMA UploadStep ==
  ASSUME TypeOK, UploadProgress, S3Inv, [Next]_vars
  PROVE  UploadProgress' /\ S3Inv'
<1>. USE DEF UploadProgress, S3Inv, BlobHasOutboard, OnlyAcceptedStored,
             RecordsNameStoredBlobs, PC, Kind, Put
<1>. s3 \in [Kind -> SUBSET Hash] /\ pc \in [Push -> PC]
  BY Zenon DEF TypeOK
<1>1. ASSUME NEW p \in Push, s3' = s3,
             \/ pc' = pc
             \/ \E l \in {"gate", "transfer", "closeOversize", "closeStalled",
                         "observe", "permit", "export"} \cup Ended : Goto(p, l)
      PROVE  UploadProgress' /\ S3Inv'
  BY <1>1, Zenon
<1>2. ASSUME NEW p \in Push,
             Receive(p) \/ Refuse(p) \/ Accept(p) \/ TransferEnds(p)
               \/ OversizeNoticed(p) \/ Stalled(p) \/ EndWaitTimesOut(p)
               \/ ClosedOversize(p) \/ ClosedStalled(p) \/ ObservedComplete(p)
               \/ ObserveGivesUp(p) \/ AcquirePermit(p) \/ ExportRefuses(p)
               \/ ExportFails(p) \/ ValidateRefuses(p) \/ ValidateFails(p)
               \/ RemoveScratch(p) \/ ImportStep(p)
      PROVE  UploadProgress' /\ S3Inv'
  BY <1>1, <1>2, Zenon DEF Receive, Refuse, Accept, TransferEnds, OversizeNoticed,
       Stalled, EndWaitTimesOut, ClosedOversize, ClosedStalled, ObservedComplete,
       ObserveGivesUp, AcquirePermit, ExportRefuses, ExportFails,
       ValidateRefuses, ValidateFails, RemoveScratch, ImportStep, Return
<1>3. ASSUME NEW p \in Push, Export(p) PROVE UploadProgress' /\ S3Inv'
  BY <1>3, Zenon DEF Export
<1>4. ASSUME NEW p \in Push, Validate(p) PROVE UploadProgress' /\ S3Inv'
  BY <1>4, Zenon DEF Validate
<1>5. ASSUME NEW p \in Push, PutOutboard(p) PROVE UploadProgress' /\ S3Inv'
  BY <1>5, Zenon DEF PutOutboard
<1>6. ASSUME NEW p \in Push, HeadBlob(p) PROVE UploadProgress' /\ S3Inv'
  BY <1>6, Zenon DEF HeadBlob
<1>7. ASSUME NEW p \in Push, PutBlobFile(p) PROVE UploadProgress' /\ S3Inv'
  BY <1>7 DEF PutBlobFile
<1>8. ASSUME NEW p \in Push, PutManifest(p) PROVE UploadProgress' /\ S3Inv'
  BY <1>8 DEF PutManifest, Return
<1>9. ASSUME NEW p \in Push, RecordOwner(p) PROVE UploadProgress' /\ S3Inv'
  BY <1>9 DEF RecordOwner
<1>10. ASSUME NEW p \in Push, UploadCallFails(p) PROVE UploadProgress' /\ S3Inv'
  <2>1. Goto(p, "outboard") \/ Goto(p, "unuploaded")
    BY <1>10, Zenon DEF UploadCallFails, UploadError, Return
  <2>2. CASE s3' = s3
    BY <1>10, <2>1, <2>2 DEF UploadCallFails
  <2>3. CASE pc[p] = "outboard" /\ Put(p, "outboard")
    BY <2>1, <2>3
  <2>4. CASE pc[p] = "blob" /\ Put(p, "blob")
    BY <2>1, <2>4
  <2>. QED
    BY <1>10, <2>2, <2>3, <2>4, Zenon DEF UploadCallFails
<1>11. CASE CollectorStep \/ WatcherStep \/ UNCHANGED vars
  BY <1>11, Zenon DEF CollectorStep, WatcherStep, vars
<1>12. CASE ProcessRestart \/ ProcessCrash
  BY <1>12, Zenon DEF ProcessRestart, ProcessCrash, TasksEnd
<1>. QED
  BY <1>2, <1>3, <1>4, <1>5, <1>6, <1>7, <1>8, <1>9, <1>10, <1>11, <1>12, Zenon
  DEF Next, TaskStep

\* The inductive invariant of the composition.
Inv == TypeOK /\ StagingInv /\ IngestInv /\ PermitsBalance /\ S3Inv

\* The invariant of the composition holds before the first push.
LEMMA IngestInit == Init => Inv
<1>. SUFFICES ASSUME Init PROVE Inv
  BY Zenon
<1>1. StagingTypeOK /\ StagingInv
  BY InvInit, Zenon DEF Init, IInv
<1>2. TypeOK
  BY <1>1, PermitAssumption DEF Init, TypeOK, PC, Kind, UPLOAD_RETRIES
<1>3. IngestInv
  BY Zenon DEF Init, StagingInit, IngestInv, TaskHoldsGuard, TransferIsOver,
     UploadProgress, Pending
<1>4. PermitsBalance
  <2>1. Holders = {}
    BY Zenon DEF Init, Holders
  <2>. QED
    BY <2>1, FS_EmptySet, PermitAssumption DEF PermitsBalance, Holders, Init
<1>5. S3Inv
  BY Zenon DEF Init, S3Inv, BlobHasOutboard, OnlyAcceptedStored,
     RecordsNameStoredBlobs, Kind
<1>. QED
  BY <1>1, <1>2, <1>3, <1>4, <1>5, Zenon DEF Inv

\* Every step of the ingest keeps it, and is a step of staging or a stutter.
LEMMA IngestStep ==
  ASSUME Inv, [Next]_vars
  PROVE  Inv' /\ [StagingNext]_stagingVars
<1>. TypeOK /\ StagingInv /\ IngestInv /\ PermitsBalance /\ S3Inv
  BY Zenon DEF Inv
<1>1. [StagingNext]_stagingVars
  BY NextIsStaging, Zenon DEF IIngest
<1>2. StagingTypeOK' /\ StagingInv'
  BY <1>1, InvStep, Zenon DEF IInv, TypeOK
<1>3. PermitsBalance' /\ permits' \in 0..MaxConcurrentIngests
  BY PermitsStep, Zenon
<1>4. TypeOK'
  BY <1>2, <1>3, IngestTypeStep, Zenon DEF TypeOK
<1>5. IngestInv' /\ S3Inv'
  BY GuardStep, TransferStep, UploadStep, Zenon DEF IngestInv
<1>. QED
  BY <1>1, <1>2, <1>3, <1>4, <1>5, Zenon DEF Inv

\* The push tasks, the collector and the watcher keep their types, and a task
\* holds at every point what the rest of it relies on.
THEOREM IngestInvariant == Spec => [](TypeOK /\ IngestInv)
<1>1. Inv => TypeOK /\ IngestInv
  BY Zenon DEF Inv
<1>. QED
  BY <1>1, IngestInit, IngestStep, PTL DEF Spec

\* node.rs implements what staging asks of it, so all that is proved of
\* Staging holds of the node: in particular a guard outlives its import.
THEOREM NodeImplementsStaging == Spec => ImplementsStaging
<1>1. Init => StagingInit
  BY Zenon DEF Init
<1>. QED
  BY <1>1, IngestInit, IngestStep, PTL DEF Spec, ImplementsStaging, StagingSpec

\* ingest.rs:170-171: a blob in S3 has its outboard, whatever fails or crashes.
THEOREM OutboardFirst == Spec => []BlobHasOutboard
<1>1. Inv => BlobHasOutboard
  BY Zenon DEF Inv, S3Inv
<1>. QED
  BY <1>1, IngestInit, IngestStep, PTL DEF Spec

\* validate_from_store: only accepted bytes reach the bucket.
THEOREM ValidationFirst == Spec => []OnlyAcceptedStored
<1>1. Inv => OnlyAcceptedStored
  BY Zenon DEF Inv, S3Inv
<1>. QED
  BY <1>1, IngestInit, IngestStep, PTL DEF Spec

\* ingest.rs:196-209, node.rs:295-300: manifests and publisher records name
\* stored blobs.
THEOREM BlobBeforeRecords == Spec => []RecordsNameStoredBlobs
<1>1. Inv => RecordsNameStoredBlobs
  BY Zenon DEF Inv, S3Inv
<1>. QED
  BY <1>1, IngestInit, IngestStep, PTL DEF Spec

\* node.rs:506-510: no permit is leaked or returned twice.
THEOREM PermitsConserved == Spec => []PermitsBalance
<1>1. Inv => PermitsBalance
  BY Zenon DEF Inv
<1>. QED
  BY <1>1, IngestInit, IngestStep, PTL DEF Spec

\* Staging's guarantee holds of the whole node: the collector deletes a
\* pending push's data only when the push came after the run's last read.
THEOREM NodeCollectorSafe == Spec => CollectorSparesPending
BY NodeImplementsStaging, CollectorSafe, PTL DEF ImplementsStaging

=============================================================================
