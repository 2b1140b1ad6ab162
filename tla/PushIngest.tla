----------------------------- MODULE PushIngest -----------------------------
(***************************************************************************)
(* A push from its request to S3 (src/src/node.rs, src/src/ingest.rs),     *)
(* composed with the staging it goes through.                              *)
(*                                                                         *)
(* Each push runs in a task of its own: the gate, Staging::track, the wait *)
(* for the transfer, a poll of the store, a permit, the export to a        *)
(* scratch file, validation, and an upload of three objects, outboard,     *)
(* blob and manifest, retried as a whole.  Any call of S3 may fail, and a  *)
(* write that failed may or may not have been applied.                     *)
(***************************************************************************)
EXTENDS Staging

CONSTANTS Oversize,               \* blobs larger than max_blob_bytes
          ValidTdf,               \* blobs validate_archive accepts
          MaxConcurrentIngests    \* [validation] max_concurrent_ingests

ASSUME BlobAssumption == Oversize \subseteq Hash /\ ValidTdf \subseteq Hash
ASSUME PermitAssumption == MaxConcurrentIngests \in Nat \ {0}

VARIABLES
    pc,         \* where each push's task is
    tries,      \* upload retries used (UPLOAD_RETRIES)
    permits,    \* free ingest permits
    scratch,    \* pushes whose scratch file is on disk
    s3          \* the objects in the bucket, by kind

ingestVars == <<pc, tries, permits, scratch, s3>>
vars == <<stagingVars, ingestVars>>

UPLOAD_RETRIES == 2

Kind == {"outboard", "blob", "manifest", "publisher"}

Uploading == {"outboard", "head", "blob", "manifest"}
HasPermit == {"export", "validate"} \cup Uploading
\* "over": refused at the gate, oversize, incomplete, refused by validation, or
\* cut off by the end of the process.
Ended == {"over", "failed", "unuploaded", "ingested"}
PC == {"none", "gate", "transfer", "closeOversize", "closeStalled", "observe",
       "permit", "owner"} \cup HasPermit \cup Ended

\* Where a task holds its PendingPush guard.
Pending == {"transfer", "closeOversize", "closeStalled", "observe", "permit"}
              \cup HasPermit

TypeOK ==
    /\ StagingTypeOK
    /\ pc \in [Push -> PC]
    /\ tries \in [Push -> 0..UPLOAD_RETRIES]
    /\ permits \in 0..MaxConcurrentIngests
    /\ scratch \subseteq Push
    /\ s3 \in [Kind -> SUBSET Hash]

Init ==
    /\ StagingInit
    /\ pc = [p \in Push |-> "none"]
    /\ tries = [p \in Push |-> 0]
    /\ permits = MaxConcurrentIngests
    /\ scratch = {}
    /\ s3 = [k \in Kind |-> {}]

Goto(p, l) == pc' = [pc EXCEPT ![p] = l]

-----------------------------------------------------------------------------
(* run_ingest_loop.                                                        *)

\* A push request arrives; a task is spawned to answer it.
Receive(p) ==
    /\ pc[p] = "none"
    /\ Goto(p, "gate")
    /\ UNCHANGED <<stagingVars, tries, permits, scratch, s3>>

\* authorize_push refused, or the push was of a hash sequence.
Refuse(p) ==
    /\ pc[p] = "gate"
    /\ Goto(p, "over")
    /\ UNCHANGED <<stagingVars, tries, permits, scratch, s3>>

Accept(p) ==
    /\ pc[p] = "gate"
    /\ Track(p)
    /\ Goto(p, "transfer")
    /\ UNCHANGED <<tries, permits, scratch, s3>>

-----------------------------------------------------------------------------
(* wait_and_ingest.                                                        *)

TransferEnds(p) ==
    /\ pc[p] = "transfer"
    /\ import[p] = "ended"
    /\ Goto(p, "observe")
    /\ UNCHANGED <<stagingVars, tries, permits, scratch, s3>>

\* watch_push: the store knows the declared size with the first chunks.
OversizeNoticed(p) ==
    /\ pc[p] = "transfer"
    /\ HashOf[p] \in Oversize
    /\ store[HashOf[p]] # "absent"
    /\ Goto(p, "closeOversize")
    /\ UNCHANGED <<stagingVars, tries, permits, scratch, s3>>

Stalled(p) ==
    /\ pc[p] = "transfer"
    /\ import[p] = "running"
    /\ Goto(p, "closeStalled")
    /\ UNCHANGED <<stagingVars, tries, permits, scratch, s3>>

\* The closed connection's import outlives TRANSFER_END_WAIT.
EndWaitTimesOut(p) ==
    /\ pc[p] \in {"closeOversize", "closeStalled"}
    /\ p \notin overran
    /\ Overrun(p)
    /\ UNCHANGED ingestVars

ClosedOversize(p) ==
    /\ pc[p] = "closeOversize"
    /\ import[p] = "ended" \/ p \in overran
    /\ Drop(p)
    /\ Goto(p, "over")
    /\ UNCHANGED <<tries, permits, scratch, s3>>

\* Mutated form of ClosedStalled: the push goes on as soon as it is closed.
ClosedStalledAtOnce(p) ==
    /\ pc[p] = "closeStalled"
    /\ Goto(p, "observe")
    /\ UNCHANGED <<stagingVars, tries, permits, scratch, s3>>

ClosedStalled(p) ==
    /\ pc[p] = "closeStalled"
    /\ import[p] = "ended" \/ p \in overran
    /\ Goto(p, "observe")
    /\ UNCHANGED <<stagingVars, tries, permits, scratch, s3>>

-----------------------------------------------------------------------------
(* ingest_stored.                                                          *)

ObservedComplete(p) ==
    /\ pc[p] = "observe"
    /\ store[HashOf[p]] = "complete"
    /\ Goto(p, "permit")
    /\ UNCHANGED <<stagingVars, tries, permits, scratch, s3>>

\* Ten looks found the blob incomplete, or a look failed.
ObserveGivesUp(p) ==
    /\ pc[p] = "observe"
    /\ Drop(p)
    /\ Goto(p, "over")
    /\ UNCHANGED <<tries, permits, scratch, s3>>

\* Mutated form of Return: the permit is forgotten.
ReturnKeepsPermit(p, l) ==
    /\ Drop(p)
    /\ tries' = [tries EXCEPT ![p] = 0]
    /\ Goto(p, l)
    /\ UNCHANGED permits

AcquirePermit(p) ==
    /\ pc[p] = "permit"
    /\ permits > 0
    /\ permits' = permits - 1
    /\ Goto(p, "export")
    /\ UNCHANGED <<stagingVars, tries, scratch, s3>>

\* ingest_stored returns: the scratch file, the permit and the guard drop.
\* The file's removal is a task of its own (RemoveScratch).
Return(p, l) ==
    /\ Drop(p)
    /\ permits' = permits + 1
    /\ tries' = [tries EXCEPT ![p] = 0]
    /\ Goto(p, l)

\* Mutated form of Export: the size is not checked.
ExportAnySize(p) ==
    /\ pc[p] = "export"
    /\ store[HashOf[p]] = "complete"
    /\ scratch' = scratch \cup {p}
    /\ Goto(p, "validate")
    /\ UNCHANGED <<stagingVars, tries, permits, s3>>

\* validate_from_store up to the export.
Export(p) ==
    /\ pc[p] = "export"
    /\ HashOf[p] \notin Oversize
    /\ store[HashOf[p]] = "complete"
    /\ scratch' = scratch \cup {p}
    /\ Goto(p, "validate")
    /\ UNCHANGED <<stagingVars, tries, permits, s3>>

ExportRefuses(p) ==
    /\ pc[p] = "export"
    /\ HashOf[p] \in Oversize \/ store[HashOf[p]] # "complete"
    /\ Return(p, "over")
    /\ UNCHANGED <<scratch, s3>>

\* The export fails; what it wrote is in the scratch file.
ExportFails(p) ==
    /\ pc[p] = "export"
    /\ HashOf[p] \notin Oversize
    /\ scratch' = scratch \cup {p}
    /\ Return(p, "failed")
    /\ UNCHANGED s3

\* Mutated form of Validate: an empty outboard is not uploaded.
ValidateSkipsOutboard(p) ==
    /\ pc[p] = "validate"
    /\ HashOf[p] \in ValidTdf
    /\ Goto(p, "head")
    /\ UNCHANGED <<stagingVars, tries, permits, scratch, s3>>

\* Mutated form of Validate: the archive's refusal is not returned.
ValidateAnything(p) ==
    /\ pc[p] = "validate"
    /\ Goto(p, "outboard")
    /\ UNCHANGED <<stagingVars, tries, permits, scratch, s3>>

\* validate_archive accepts the scratch copy, and its outboard's root is the
\* hash.
Validate(p) ==
    /\ pc[p] = "validate"
    /\ HashOf[p] \in ValidTdf
    /\ Goto(p, "outboard")
    /\ UNCHANGED <<stagingVars, tries, permits, scratch, s3>>

ValidateRefuses(p) ==
    /\ pc[p] = "validate"
    /\ HashOf[p] \notin ValidTdf
    /\ Return(p, "over")
    /\ UNCHANGED <<scratch, s3>>

\* A task failed, or the outboard of the copy does not match.
ValidateFails(p) ==
    /\ pc[p] = "validate"
    /\ Return(p, "failed")
    /\ UNCHANGED <<scratch, s3>>

-----------------------------------------------------------------------------
(* upload, in ingest_stored's retry loop.                                  *)

Put(p, kind) == s3' = [s3 EXCEPT ![kind] = @ \cup {HashOf[p]}]

\* Mutated form of UploadError: the last failure returns true.
UploadErrorReturnsTrue(p) ==
    IF tries[p] < UPLOAD_RETRIES
      THEN /\ tries' = [tries EXCEPT ![p] = @ + 1]
           /\ Goto(p, "outboard")
           /\ UNCHANGED <<stagingVars, permits>>
      ELSE Return(p, "owner")

\* An S3 call of the upload failed: retry the upload, or give the push up.
UploadError(p) ==
    IF tries[p] < UPLOAD_RETRIES
      THEN /\ tries' = [tries EXCEPT ![p] = @ + 1]
           /\ Goto(p, "outboard")
           /\ UNCHANGED <<stagingVars, permits>>
      ELSE Return(p, "unuploaded")

PutOutboard(p) ==
    /\ pc[p] = "outboard"
    /\ Put(p, "outboard")
    /\ Goto(p, "head")
    /\ UNCHANGED <<stagingVars, tries, permits, scratch>>

\* blob_size: a blob already in S3 is not uploaded again.
HeadBlob(p) ==
    /\ pc[p] = "head"
    /\ Goto(p, IF HashOf[p] \in s3["blob"] THEN "manifest" ELSE "blob")
    /\ UNCHANGED <<stagingVars, tries, permits, scratch, s3>>

PutBlobFile(p) ==
    /\ pc[p] = "blob"
    /\ Put(p, "blob")
    /\ Goto(p, "manifest")
    /\ UNCHANGED <<stagingVars, tries, permits, scratch>>

\* A call of the upload fails; a failed write may have been applied.
UploadCallFails(p) ==
    /\ pc[p] \in {"outboard", "head", "blob"}
    /\ UploadError(p)
    /\ \/ UNCHANGED s3
       \/ pc[p] \in {"outboard", "blob"} /\ Put(p, pc[p])
    /\ UNCHANGED scratch

\* The manifest is best effort: the upload succeeds either way.
PutManifest(p) ==
    /\ pc[p] = "manifest"
    /\ Put(p, "manifest") \/ UNCHANGED s3
    /\ Return(p, "owner")
    /\ UNCHANGED scratch

\* record_owner, best effort, once the guard is dropped; without a gate there
\* is no owner to record.
RecordOwner(p) ==
    /\ pc[p] = "owner"
    /\ Put(p, "publisher") \/ UNCHANGED s3
    /\ Goto(p, "ingested")
    /\ UNCHANGED <<stagingVars, tries, permits, scratch>>

\* ScratchFile::drop spawns the removal.
RemoveScratch(p) ==
    /\ p \in scratch
    /\ pc[p] \notin HasPermit
    /\ scratch' = scratch \ {p}
    /\ UNCHANGED <<stagingVars, pc, tries, permits, s3>>

-----------------------------------------------------------------------------
\* The process ends: its tasks are gone; prepare_scratch_dir empties the
\* scratch directory when it starts again.
TasksEnd ==
    /\ pc' = [p \in Push |-> IF pc[p] \in Ended \cup {"none"} THEN pc[p] ELSE "over"]
    /\ permits' = MaxConcurrentIngests
    /\ scratch' = {}
    /\ tries' = [p \in Push |-> 0]
    /\ UNCHANGED s3

ProcessRestart == Restart /\ TasksEnd
ProcessCrash == Crash /\ TasksEnd

\* The steps a push's task takes by itself.
TaskStep(p) ==
    \/ Refuse(p)
    \/ Accept(p)
    \/ TransferEnds(p)
    \/ OversizeNoticed(p)
    \/ Stalled(p)
    \/ EndWaitTimesOut(p)
    \/ ClosedOversize(p)
    \/ ClosedStalled(p)
    \/ ObservedComplete(p)
    \/ ObserveGivesUp(p)
    \/ AcquirePermit(p)
    \/ Export(p)
    \/ ExportRefuses(p)
    \/ ExportFails(p)
    \/ Validate(p)
    \/ ValidateRefuses(p)
    \/ ValidateFails(p)
    \/ PutOutboard(p)
    \/ HeadBlob(p)
    \/ PutBlobFile(p)
    \/ UploadCallFails(p)
    \/ PutManifest(p)
    \/ RecordOwner(p)

ImportStep(p) == (ImportWrite(p) \/ ImportEnd(p)) /\ UNCHANGED ingestVars
CollectorStep == Collector /\ UNCHANGED ingestVars
WatcherStep == Watcher /\ UNCHANGED ingestVars

Next ==
    \/ \E p \in Push : Receive(p) \/ TaskStep(p) \/ ImportStep(p) \/ RemoveScratch(p)
    \/ CollectorStep
    \/ WatcherStep
    \/ ProcessRestart
    \/ ProcessCrash

Spec == Init /\ [][Next]_vars

\* Tasks keep running: every S3 call returns, timers fire (so a transfer that
\* does not end is closed as stalled), and tokio's semaphore is first come,
\* first served.  The import of a closed connection ends.  The collector's
\* loop and the watcher keep running, and listing the store does not fail
\* for ever.  Nothing is assumed of a peer.
Fairness ==
    /\ \A p \in Push : /\ WF_vars(TaskStep(p))
                       /\ SF_vars(AcquirePermit(p))
                       /\ WF_vars(RemoveScratch(p))
                       /\ WF_vars(pc[p] # "transfer" /\ ImportEnd(p)
                                    /\ UNCHANGED ingestVars)
    /\ WF_vars(CollectorStep)
    /\ SF_vars(GcList /\ UNCHANGED ingestVars)
    /\ WF_vars(WatcherStep)
    /\ WF_vars(ProcessRestart)

FairSpec == Spec /\ Fairness

-----------------------------------------------------------------------------
(* What ingest promises.                                                   *)

\* ingest.rs:170-171: the outboard is written first on every attempt, so a
\* blob in S3 has its outboard whatever fails, crashes or is retried.
BlobHasOutboard == s3["blob"] \subseteq s3["outboard"]

\* validate_from_store: nothing reaches the bucket under a hash whose bytes
\* were not accepted, by whichever path a push got to the upload.
OnlyAcceptedStored ==
    \A k \in Kind : s3[k] \subseteq ValidTdf \ Oversize

\* node.rs:295-300 and ingest.rs:196-209: a manifest or a publisher record
\* names a blob that is in S3, so a later catalog check never trusts one that
\* is not.
RecordsNameStoredBlobs ==
    s3["manifest"] \cup s3["publisher"] \subseteq s3["blob"]

\* node.rs:508, RAII of the permit: every path out of ingest_stored gives its
\* permit back once, so ingests neither exceed max_concurrent_ingests nor
\* starve for a leaked permit.
PermitsBalance ==
    permits + Cardinality({p \in Push : pc[p] \in HasPermit}) = MaxConcurrentIngests

\* node.rs:380-553: a task holds its guard exactly from track to the return of
\* ingest_stored, so no error path leaves a hash pending for good.
TaskHoldsGuard == guards = {p \in Push : pc[p] \in Pending}

\* Past the wait for its transfer, a push's import has ended or overrun.
TransferIsOver ==
    \A p \in Push : pc[p] \in {"observe", "permit"} \cup HasPermit =>
        import[p] = "ended" \/ p \in overran

\* How far a task got says what validation and S3 have answered.
UploadProgress ==
    \A p \in Push :
        /\ pc[p] \in {"validate", "owner"} \cup Uploading => HashOf[p] \notin Oversize
        /\ pc[p] \in {"owner"} \cup Uploading => HashOf[p] \in ValidTdf
        /\ pc[p] \in {"head", "blob", "manifest", "owner"} =>
              HashOf[p] \in s3["outboard"]
        /\ pc[p] \in {"manifest", "owner"} => HashOf[p] \in s3["blob"]

\* node.rs:380-553 and ingest.rs:84-213: at every point of its task, a push
\* holds what the rest of the task relies on, though other pushes of the same
\* blob write the same objects and the process may end between any two steps.
IngestInv == TaskHoldsGuard /\ TransferIsOver /\ UploadProgress

\* The node drives staging as Staging specifies it: in particular it drops a
\* guard only once the import has ended or has overrun its wait.
ImplementsStaging == StagingSpec

\* node.rs:387-465: a push the node accepted always ends, whatever its peer
\* does: a stalled or oversize transfer is closed, and the wait is bounded.
AcceptedPushEnds ==
    \A p \in Push : pc[p] = "transfer" ~> pc[p] \in Ended

\* staging.rs:9-23: a staged copy no push needs is deleted in the end, even
\* when the collector dies, because the watcher restarts the node.
StagedCopyCollected ==
    \A h \in Hash :
        (store[h] # "absent" /\ pending[h] = 0)
            ~> (store[h] = "absent" \/ pending[h] > 0)

=============================================================================
