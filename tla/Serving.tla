------------------------------ MODULE Serving ------------------------------
(***************************************************************************)
(* Fetches served from S3: BlobsHandler::serve (src/src/node.rs) and       *)
(* S3Server (src/src/s3_serve.rs) with what it remembers: hashes known to  *)
(* be servable, hashes whose object does not match them, and the outboards *)
(* it computes in the background for objects that lack one.                *)
(*                                                                         *)
(* A fetcher asks for the same hashes until it is content to stop, so a    *)
(* fetch f is a loop.  A stored object or outboard is abstracted to        *)
(* whether it is there and matches the hash: "short" is an outboard of the *)
(* wrong size, "bad" one of the right size with the wrong content.         *)
(***************************************************************************)
EXTENDS Integers, FiniteSets, Sequences

CONSTANTS Hash, Fetch,
          Want,           \* the hashes each fetch asks for, in order
          Small,          \* hashes of objects so small that they need no outboard
          Storable,       \* bound: the <<kind, hash>> that are ever stored
          Objects,        \* bound: what an object may be at first
          Outboards,      \* bound: what an outboard may be at first
          Withheld,       \* bound: hashes moderated before the node started
          Serves,         \* SERVES
          Backfills,      \* BACKFILLS
          SizesCapacity,  \* SIZES_CAPACITY
          BadCapacity,    \* BAD_CAPACITY
          MaxEdits,       \* bound: changes made to S3 and to the moderation view
          MaxFaults       \* bound: failed calls and restarts

Kind == {"blob", "document"}
Object == {"none", "good", "bad"}
Outboard == {"none", "good", "bad", "short"}

ASSUME WantAssumption == Want \in [Fetch -> {w \in Seq(Hash) : Len(w) > 0}]
ASSUME StorableAssumption == /\ Small \subseteq Hash /\ Withheld \subseteq Hash
                             /\ Storable \subseteq Kind \X Hash
                             /\ Objects \subseteq Object
                             /\ Outboards \subseteq Outboard
ASSUME LimitAssumption == {Serves, Backfills, SizesCapacity, BadCapacity}
                          \subseteq Nat \ {0}
ASSUME BoundAssumption == MaxEdits \in Nat /\ MaxFaults \in Nat

VARIABLES
    data,         \* S3 blobs/<hash> and catalog-documents/<hash>, per kind
    outboard,     \* S3 outboards/<hash> and catalog-outboards/<hash>
    blocked,      \* hashes the moderation view blocks
    hidden,       \* documents of owners whose catalog it hides
    servable,     \* S3Server.servable: the kind a hash is served as
    corrupt,      \* S3Server.corrupt
    job,          \* S3Server.backfilling: where the computation of h is
    jobKind,      \* and of which object
    failed,       \* S3Server.backfill_failed
    cooling,      \* those of failed within BACKFILL_COOLDOWN
    pc,           \* where each fetch is
    got,          \* the kinds found so far for its hashes (servables)
    sent,         \* how many of its hashes were sent
    answer,       \* how its last attempt ended
    edits, faults,
    steady,       \* history: per attempt, hashes well stored and free throughout
    barred,       \* history: per attempt, hashes blocked throughout
    veiled,       \* history: per attempt, hashes hidden throughout
    spoiled,      \* history: hashes found corrupt since the node started
    marked        \* history: per attempt, those at its start

bucket == <<data, outboard>>
view == <<blocked, hidden>>
jobs == <<job, jobKind, failed, cooling>>
perFetch == <<pc, got, sent, answer>>
attempt == <<steady, barred, veiled, marked>>
history == <<attempt, spoiled>>
vars == <<bucket, view, servable, corrupt, jobs, perFetch, edits, faults, history>>

\* Blobs from before outboards were stored have none; others may have been
\* damaged in the bucket.  The empty outboard of a small one is never read.
Init ==
    /\ data \in [Kind -> [Hash -> Objects \cup {"none"}]]
    /\ outboard \in [Kind -> [Hash -> Outboards \cup {"none"}]]
    /\ \A k \in Kind, h \in Hash : <<k, h>> \notin Storable =>
          data[k][h] = "none" /\ outboard[k][h] = "none"
    /\ \A k \in Kind, h \in Small : outboard[k][h] = "none"
    /\ blocked \in SUBSET Withheld /\ hidden \in SUBSET Withheld
    /\ servable = [h \in Hash |-> "none"] /\ corrupt = {}
    /\ job = [h \in Hash |-> "none"] /\ jobKind = [h \in Hash |-> "blob"]
    /\ failed = {} /\ cooling = {}
    /\ pc = [f \in Fetch |-> "idle"]
    /\ got = [f \in Fetch |-> <<>>] /\ sent = [f \in Fetch |-> 0]
    /\ answer = [f \in Fetch |-> "none"]
    /\ edits = 0 /\ faults = 0
    /\ steady = [f \in Fetch |-> {}] /\ barred = [f \in Fetch |-> {}]
    /\ veiled = [f \in Fetch |-> {}] /\ marked = [f \in Fetch |-> {}]
    /\ spoiled = {}

Wanted(f) == {Want[f][i] : i \in DOMAIN Want[f]}
Absent(h) == \A k \in Kind : data[k][h] = "none"
\* h is stored, and right wherever it is stored.
Good(h) == ~Absent(h) /\ \A k \in Kind : data[k][h] # "bad"
\* Nor is an outboard of it damaged.
Sound(h) == Good(h) /\ \A k \in Kind : outboard[k][h] # "bad"
Without(sets, h) == [f \in Fetch |-> sets[f] \ {h}]

-----------------------------------------------------------------------------
(* The bucket and the moderation view change under the node.               *)

Edit == edits < MaxEdits /\ edits' = edits + 1
EditLeaves == <<servable, corrupt, jobs, perFetch, faults, marked, spoiled>>

\* An operator deletes an object.
Delete(k, h) ==
    /\ data[k][h] # "none" /\ Edit
    /\ data' = [data EXCEPT ![k][h] = "none"]
    /\ steady' = Without(steady, h)
    /\ UNCHANGED <<outboard, view, EditLeaves, barred, veiled>>

DeleteOutboard(k, h) ==
    /\ outboard[k][h] # "none" /\ Edit
    /\ outboard' = [outboard EXCEPT ![k][h] = "none"]
    /\ UNCHANGED <<data, view, EditLeaves, steady, barred, veiled>>

\* Ingest stores a blob after its outboard; a catalog publish stores the
\* document first.
StoreOutboard(k, h) ==
    /\ <<k, h>> \in Storable /\ outboard[k][h] = "none" /\ Edit
    /\ outboard' = [outboard EXCEPT ![k][h] = "good"]
    /\ UNCHANGED <<data, view, EditLeaves, steady, barred, veiled>>

Store(k, h) ==
    /\ <<k, h>> \in Storable /\ data[k][h] = "none" /\ Edit
    /\ k = "blob" /\ h \notin Small => outboard[k][h] = "good"
    /\ data' = [data EXCEPT ![k][h] = "good"]
    /\ UNCHANGED <<outboard, view, EditLeaves, steady, barred, veiled>>

Block(h) ==
    /\ h \notin blocked /\ Edit
    /\ blocked' = blocked \cup {h}
    /\ steady' = Without(steady, h)
    /\ UNCHANGED <<bucket, hidden, EditLeaves, barred, veiled>>

Unblock(h) ==
    /\ h \in blocked /\ Edit
    /\ blocked' = blocked \ {h}
    /\ barred' = Without(barred, h)
    /\ UNCHANGED <<bucket, hidden, EditLeaves, steady, veiled>>

Hide(h) ==
    /\ h \notin hidden /\ Edit
    /\ hidden' = hidden \cup {h}
    /\ steady' = Without(steady, h)
    /\ UNCHANGED <<bucket, blocked, EditLeaves, barred, veiled>>

Unhide(h) ==
    /\ h \in hidden /\ Edit
    /\ hidden' = hidden \ {h}
    /\ veiled' = Without(veiled, h)
    /\ UNCHANGED <<bucket, blocked, EditLeaves, steady, barred>>

Environment == \E h \in Hash :
    \/ Block(h) \/ Unblock(h) \/ Hide(h) \/ Unhide(h)
    \/ \E k \in Kind : \/ Delete(k, h) \/ DeleteOutboard(k, h)
                       \/ StoreOutboard(k, h) \/ Store(k, h)

-----------------------------------------------------------------------------
(* What the node remembers.                                                *)

\* mark_corrupt: h is refused until the node restarts.
MarkCorrupt(h) ==
    /\ corrupt' = (IF Cardinality(corrupt) >= BadCapacity THEN {} ELSE corrupt) \cup {h}
    /\ servable' = [servable EXCEPT ![h] = "none"]
    /\ spoiled' = spoiled \cup {h}

Forget(h) == servable' = [servable EXCEPT ![h] = "none"]

Known == {h \in Hash : servable[h] # "none"}

Remember(h, k) ==
    servable' = [g \in Hash |-> IF g = h THEN k
                                ELSE IF Cardinality(Known) >= SizesCapacity THEN "none"
                                ELSE servable[g]]

Backfilling == {h \in Hash : job[h] # "none"}
\* Start computing h's outboard, unless it failed lately, runs already, or
\* BACKFILLS run.
Backfill(h, k) ==
    IF h \in cooling \/ Cardinality(Backfilling) >= Backfills \/ h \in Backfilling
    THEN UNCHANGED jobs
    ELSE /\ job' = [job EXCEPT ![h] = "computing"]
         /\ jobKind' = [jobKind EXCEPT ![h] = k]
         /\ UNCHANGED <<failed, cooling>>

\* The object is read to its end and hashed.
ComputeOutboard(h) ==
    /\ job[h] = "computing"
    /\ \/ /\ data[jobKind[h]][h] = "good"
          /\ job' = [job EXCEPT ![h] = "storing"]
          /\ UNCHANGED <<servable, corrupt, spoiled>>
       \/ /\ data[jobKind[h]][h] = "bad"
          /\ job' = [job EXCEPT ![h] = "none"]
          /\ MarkCorrupt(h)
    /\ UNCHANGED <<bucket, view, jobKind, failed, cooling, perFetch, edits, faults,
                   attempt>>

PutOutboard(h) ==
    /\ job[h] = "storing"
    /\ job' = [job EXCEPT ![h] = "none"]
    /\ outboard' = [outboard EXCEPT ![jobKind[h]][h] = "good"]
    /\ UNCHANGED <<data, view, servable, corrupt, jobKind, failed, cooling, perFetch,
                   edits, faults, history>>

\* At the capacity, failures past their cooldown are dropped.
Failed(h) ==
    /\ failed' = (IF Cardinality(failed) >= BadCapacity THEN cooling ELSE failed) \cup {h}
    /\ cooling' = cooling \cup {h}

\* The object is gone, or a call to S3 fails.
BackfillFails(h) ==
    /\ h \in Backfilling
    /\ \/ job[h] = "computing" /\ data[jobKind[h]][h] = "none" /\ UNCHANGED faults
       \/ faults < MaxFaults /\ faults' = faults + 1
    /\ job' = [job EXCEPT ![h] = "none"]
    /\ Failed(h)
    /\ UNCHANGED <<bucket, view, servable, corrupt, jobKind, perFetch, edits, history>>

\* BACKFILL_COOLDOWN has passed.
CooldownEnds(h) ==
    /\ h \in cooling
    /\ cooling' = cooling \ {h}
    /\ UNCHANGED <<bucket, view, servable, corrupt, job, jobKind, failed, perFetch,
                   edits, faults, history>>

-----------------------------------------------------------------------------
(* A fetch: every hash is checked before the first byte is sent.           *)

Begin(f) ==
    /\ pc' = [pc EXCEPT ![f] = "check"]
    /\ answer' = [answer EXCEPT ![f] = "none"]
    /\ steady' = [steady EXCEPT ![f] = {h \in Wanted(f) : Sound(h)}
                                          \ (blocked \cup hidden \cup corrupt)]
    /\ barred' = [barred EXCEPT ![f] = blocked]
    /\ veiled' = [veiled EXCEPT ![f] = hidden]
    /\ marked' = [marked EXCEPT ![f] = spoiled]
    /\ UNCHANGED <<got, sent>>

\* The stream is finished, or reset with an error code.
Answer(f, how) ==
    /\ pc' = [pc EXCEPT ![f] = "idle"]
    /\ answer' = [answer EXCEPT ![f] = how]
    /\ got' = [got EXCEPT ![f] = <<>>] /\ sent' = [sent EXCEPT ![f] = 0]
    /\ steady' = [steady EXCEPT ![f] = {}] /\ barred' = [barred EXCEPT ![f] = {}]
    /\ veiled' = [veiled EXCEPT ![f] = {}] /\ marked' = [marked EXCEPT ![f] = {}]

FetchLeaves == <<bucket, view, edits>>

\* A get takes a serve permit or is told to try again.
Request(f) ==
    /\ pc[f] = "idle"
    /\ IF Cardinality({g \in Fetch : pc[g] # "idle"}) >= Serves
       THEN Answer(f, "limit")
       ELSE Begin(f)
    /\ UNCHANGED <<FetchLeaves, servable, corrupt, jobs, faults, spoiled>>

Checked(f) == Want[f][Len(got[f]) + 1]

\* Mutated form: hidden catalogs are not looked at.
FoundHidden(f, k) ==
    /\ got' = [got EXCEPT ![f] = Append(@, k)]
    /\ pc' = [pc EXCEPT ![f] = IF Len(got[f]) + 1 = Len(Want[f]) THEN "send" ELSE "check"]
    /\ UNCHANGED <<sent, answer, attempt>>

\* Hash h is servable as kind k: a hidden catalog is refused all the same.
Found(f, k) ==
    \/ k = "document" /\ Checked(f) \in hidden /\ Answer(f, "permission")
    \/ /\ ~(k = "document" /\ Checked(f) \in hidden)
       /\ got' = [got EXCEPT ![f] = Append(@, k)]
       /\ pc' = [pc EXCEPT ![f] = IF Len(got[f]) + 1 = Len(Want[f]) THEN "send" ELSE "check"]
       /\ UNCHANGED <<sent, answer, attempt>>

Await(f, call) == pc' = [pc EXCEPT ![f] = call] /\ UNCHANGED <<got, sent, answer, attempt>>

\* Mutated form: what is remembered as servable is not looked up as corrupt.
CheckServableFirst(f) ==
    /\ pc[f] = "check"
    /\ LET h == Checked(f)
       IN  IF h \in blocked THEN Answer(f, "permission")
           ELSE IF servable[h] # "none" THEN Found(f, servable[h])
           ELSE IF h \in corrupt THEN Answer(f, "permission")
           ELSE Await(f, "blob")
    /\ UNCHANGED <<FetchLeaves, servable, corrupt, jobs, faults, spoiled>>

\* Up to the first call of S3.
Check(f) ==
    /\ pc[f] = "check"
    /\ LET h == Checked(f)
       IN  IF h \in blocked \/ h \in corrupt THEN Answer(f, "permission")
           ELSE IF servable[h] # "none" THEN Found(f, servable[h])
           ELSE Await(f, "blob")
    /\ UNCHANGED <<FetchLeaves, servable, corrupt, jobs, faults, spoiled>>

\* The object of kind k is there: its outboard is next, if it needs one.
Present(f, k) ==
    IF Checked(f) \in Small THEN Remember(Checked(f), k) /\ Found(f, k)
    ELSE /\ Await(f, IF k = "blob" THEN "blobOutboard" ELSE "documentOutboard")
         /\ UNCHANGED servable

HeadBlob(f) ==
    /\ pc[f] = "blob"
    /\ IF data["blob"][Checked(f)] # "none" THEN Present(f, "blob")
       ELSE Await(f, "document") /\ UNCHANGED servable
    /\ UNCHANGED <<FetchLeaves, corrupt, jobs, faults, spoiled>>

HeadDocument(f) ==
    /\ pc[f] = "document"
    /\ IF data["document"][Checked(f)] # "none" THEN Present(f, "document")
       ELSE Answer(f, "permission") /\ UNCHANGED servable
    /\ UNCHANGED <<FetchLeaves, corrupt, jobs, faults, spoiled>>

\* Mutated form: an outboard of the wrong size is not computed again.
HeadOutboardMissing(f) ==
    /\ pc[f] \in {"blobOutboard", "documentOutboard"}
    /\ LET h == Checked(f)
           k == IF pc[f] = "blobOutboard" THEN "blob" ELSE "document"
       IN  IF outboard[k][h] \in {"good", "bad"}
           THEN Remember(h, k) /\ Found(f, k) /\ UNCHANGED jobs
           ELSE /\ IF outboard[k][h] = "none" THEN Backfill(h, k) ELSE UNCHANGED jobs
                /\ Answer(f, "limit") /\ UNCHANGED servable
    /\ UNCHANGED <<FetchLeaves, corrupt, faults, spoiled>>

\* An outboard of the wrong size counts as none.
HeadOutboard(f) ==
    /\ pc[f] \in {"blobOutboard", "documentOutboard"}
    /\ LET h == Checked(f)
           k == IF pc[f] = "blobOutboard" THEN "blob" ELSE "document"
       IN  IF outboard[k][h] \in {"good", "bad"}
           THEN Remember(h, k) /\ Found(f, k) /\ UNCHANGED jobs
           ELSE Backfill(h, k) /\ Answer(f, "limit") /\ UNCHANGED servable
    /\ UNCHANGED <<FetchLeaves, corrupt, faults, spoiled>>

\* Mutated form: a failed HEAD counts as "not there".
HeadFailsGone(f) ==
    /\ pc[f] \in {"blob", "document", "blobOutboard", "documentOutboard"}
    /\ faults < MaxFaults /\ faults' = faults + 1
    /\ Answer(f, "permission")
    /\ UNCHANGED <<FetchLeaves, servable, corrupt, jobs, spoiled>>

\* A HEAD fails or takes S3_HEAD_TIMEOUT.
HeadFails(f) ==
    /\ pc[f] \in {"blob", "document", "blobOutboard", "documentOutboard"}
    /\ faults < MaxFaults /\ faults' = faults + 1
    /\ Answer(f, "limit")
    /\ UNCHANGED <<FetchLeaves, servable, corrupt, jobs, spoiled>>

Sending(f) == Want[f][sent[f] + 1]
SentAs(f) == got[f][sent[f] + 1]
\* Both objects can be read to the end.
Readable(k, h) == data[k][h] # "none" /\ (h \in Small \/ outboard[k][h] \in {"good", "bad"})

\* Every chunk group asked for matches the hash; a range may miss the damage.
Send(f) ==
    /\ pc[f] = "send" /\ Readable(SentAs(f), Sending(f))
    /\ IF sent[f] + 1 = Len(Want[f]) THEN Answer(f, "served")
       ELSE /\ sent' = [sent EXCEPT ![f] = @ + 1]
            /\ UNCHANGED <<pc, got, answer, attempt>>
    /\ UNCHANGED <<FetchLeaves, servable, corrupt, jobs, faults, spoiled>>

\* The object, or its outboard, does not match the hash.
SendMismatch(f) ==
    /\ pc[f] = "send" /\ Readable(SentAs(f), Sending(f))
    /\ \/ data[SentAs(f)][Sending(f)] = "bad"
       \/ Sending(f) \notin Small /\ outboard[SentAs(f)][Sending(f)] = "bad"
    /\ MarkCorrupt(Sending(f))
    /\ Answer(f, "limit")
    /\ UNCHANGED <<FetchLeaves, jobs, faults>>

\* A GET fails, or the fetcher stops reading: ask S3 again next time.
SendFails(f) ==
    /\ pc[f] = "send"
    /\ \/ ~Readable(SentAs(f), Sending(f)) /\ UNCHANGED faults
       \/ faults < MaxFaults /\ faults' = faults + 1
    /\ Forget(Sending(f))
    /\ Answer(f, "limit")
    /\ UNCHANGED <<FetchLeaves, corrupt, jobs, spoiled>>

\* The node restarts: what it remembers and what it was doing is lost.
Restart ==
    /\ faults < MaxFaults /\ faults' = faults + 1
    /\ servable' = [h \in Hash |-> "none"] /\ corrupt' = {} /\ spoiled' = {}
    /\ job' = [h \in Hash |-> "none"] /\ failed' = {} /\ cooling' = {}
    /\ pc' = [f \in Fetch |-> "idle"] /\ answer' = [f \in Fetch |-> "none"]
    /\ got' = [f \in Fetch |-> <<>>] /\ sent' = [f \in Fetch |-> 0]
    /\ steady' = [f \in Fetch |-> {}] /\ barred' = [f \in Fetch |-> {}]
    /\ veiled' = [f \in Fetch |-> {}] /\ marked' = [f \in Fetch |-> {}]
    /\ UNCHANGED <<FetchLeaves, jobKind>>

FetchStep(f) == \/ Request(f) \/ Check(f) \/ HeadBlob(f) \/ HeadDocument(f)
                \/ HeadOutboard(f) \/ Send(f) \/ SendMismatch(f)
                \/ SendFails(f)

JobStep(h) == \/ ComputeOutboard(h) \/ PutOutboard(h) \/ BackfillFails(h)
              \/ CooldownEnds(h)

Next == \/ Environment
        \/ \E f \in Fetch : FetchStep(f) \/ HeadFails(f)
        \/ \E h \in Hash : JobStep(h)
        \/ Restart

Spec == Init /\ [][Next]_vars

\* Fetchers ask again, S3 answers in the end, and spawned tasks run.
FairSpec == /\ Spec
            /\ \A f \in Fetch : WF_vars(FetchStep(f))
            /\ \A h \in Hash : WF_vars(JobStep(h))

-----------------------------------------------------------------------------
(* Properties.                                                             *)

Ended(f, how) == pc[f] # "idle" /\ pc'[f] = "idle" /\ answer'[f] = how

\* A refusal that is final (ERR_PERMISSION) is deserved: an attempt whose
\* hashes are all stored well and neither blocked nor hidden throughout is
\* never told that they are gone, whatever else is found, forgotten or
\* computed meanwhile.  Stored well includes an outboard that is not damaged:
\* one of the right size that does not match is refused like its object.
FinalIsDeserved ==
    [][\A f \in Fetch : Ended(f, "permission") => steady[f] # Wanted(f)]_vars

\* What was blocked or hidden before a fetch began and stayed so is not
\* served to it, from S3 or from what the node remembers.
WithheldIsNotServed ==
    [][\A f \in Fetch : Ended(f, "served") =>
          \A i \in DOMAIN Want[f] :
             /\ Want[f][i] \notin barred[f]
             /\ got[f][i] = "document" => Want[f][i] \notin veiled[f]]_vars

\* A hash whose object was found not to match it is refused until the node
\* restarts: no later fetch is served it, also when a check that began before
\* remembers it as servable afterwards.
CorruptIsRefused ==
    [][\A f \in Fetch : Ended(f, "served") => marked[f] \cap Wanted(f) = {}]_vars

\* A fetch of objects that stay stored, right and free is served in the end,
\* though their outboards are missing or of the wrong size, the computation
\* fails at times, and the node restarts.
EventuallyServed ==
    \A f \in Fetch :
       <>[](\A h \in Wanted(f) : Good(h) /\ h \notin blocked \cup hidden \cup corrupt)
          => <>(answer[f] = "served")

=============================================================================
