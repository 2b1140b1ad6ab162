--------------------------- MODULE CatalogPublish ---------------------------
(***************************************************************************)
(* Publishing and reading a creator's catalog                              *)
(* (src/src/catalogs_v2_api.rs over src/src/store/s3.rs).                  *)
(*                                                                         *)
(* `PUT /v2/catalogs/{sub}` checks a signed bundle and what it names, then *)
(* stores document, outboard, index record and pointer, in that order; the *)
(* pointer only if it is still the one the request read.                   *)
(* `GET /v2/catalogs/{sub}` serves the pointer.  Requests run concurrently *)
(* and every S3 call is a step of its own.                                 *)
(*                                                                         *)
(* One creator's catalog is modelled: requests of different creators share *)
(* no object.  A bundle is its pointer's `seq` and `catalogHash`.  S3's    *)
(* ETag of a pointer is taken for the bundle itself.                       *)
(***************************************************************************)
EXTENDS Integers, FiniteSets

CONSTANTS Request,    \* the PUT requests of a behaviour
          Reader,     \* clients, each with at most one GET under way
          Envelope,   \* hashes of documents check_envelope accepts
          Legacy,     \* hashes of documents from before envelopes
          NoDoc,      \* no document
          Payload,    \* hashes of recordings
          MaxSeq,     \* the largest `seq` (2^53 - 1 in the code)
          Blockable,  \* bound: the hashes an operator may block
          Conditions, \* the precondition headers clients send
          CacheCapacity  \* ATTRIBUTE_CACHE_CAPACITY

ASSUME DocAssumption == /\ Envelope \cap Legacy = {}
                        /\ NoDoc \notin Envelope \cup Legacy \cup Payload
ASSUME BlockableAssumption == Blockable \subseteq Envelope \cup Payload
ASSUME SeqAssumption == MaxSeq \in Nat \ {0}

Doc == Envelope \cup Legacy
SeqNo == 1..MaxSeq

(* An entity tag of If-Match or If-None-Match; a header is the set of its  *)
(* tags, and an absent header the empty set.                               *)
AnyTag == <<"any", 0>>
Unreadable == <<"unreadable", 0>>
Tag == {AnyTag, Unreadable} \cup ({"strong", "weak"} \X SeqNo)

ASSUME ConditionsAssumption ==
    Conditions \subseteq [ifMatch : SUBSET Tag, ifNoneMatch : SUBSET Tag]

Bundle == [seq : SeqNo, doc : Doc]
NoPointer == [seq |-> 0, doc |-> NoDoc]
NoRecord == {NoDoc}

VARIABLES
    pointer,    \* S3 catalog-pointers/<sub>
    documents,  \* S3 catalog-documents/
    outboards,  \* S3 catalog-outboards/
    index,      \* S3 catalog-indexes/: the payloads listed, or NoRecord
    blobs,      \* S3 blobs/
    manifests,  \* S3 manifests/
    blocked,    \* the node's view of blocked hashes
    lifted,     \* history: hashes whose block was lifted
    known,      \* V2State.attributes: documents whose attribute is cached
    pc,         \* where each PUT is
    req,        \* what it asks
    read,       \* the pointer it read
    late,       \* a failed S3 write of it that may still take effect
    rpc,        \* where each GET is
    got,        \* the pointer it read
    barred,     \* history: documents blocked since before the GET began
    floor,      \* history: the highest `seq` answered before the GET began
    top         \* history: the highest `seq` answered

bucket == <<pointer, documents, outboards, index>>
recordings == <<blobs, manifests>>
moderation == <<blocked, lifted>>
putVars == <<pc, req, read, late>>
getVars == <<known, rpc, got, barred, floor>>
vars == <<bucket, recordings, moderation, putVars, getVars, top>>

Writing == {"document", "outboard", "index", "pointer"}
Ended == {"written", "published", "refused", "conflict", "failed"}

TypeOK ==
    /\ pointer \in Bundle \cup {NoPointer}
    /\ documents \subseteq Doc
    /\ outboards \subseteq Doc
    /\ index \in [Doc -> (SUBSET Payload) \cup {NoRecord}]
    /\ blobs \subseteq Payload
    /\ manifests \subseteq Payload
    /\ blocked \subseteq Doc \cup Payload
    /\ lifted \subseteq Doc \cup Payload
    /\ known \subseteq Envelope
    /\ pc \in [Request -> {"new", "sizes", "manifests", "read", "live"}
                             \cup Writing \cup Ended]
    /\ req \in [Request -> [seq : SeqNo, doc : Envelope,
                            entries : SUBSET Payload, cond : Conditions]]
    /\ read \in [Request -> Bundle \cup {NoPointer}]
    /\ late \in [Request -> Writing \cup {"none"}]
    /\ rpc \in [Reader -> {"idle", "read", "index", "decide"}]
    /\ got \in [Reader -> Bundle \cup {NoPointer}]
    /\ barred \in [Reader -> SUBSET (Doc \cup Payload)]
    /\ floor \in [Reader -> 0..MaxSeq]
    /\ top \in 0..MaxSeq

\* A pointer from before envelopes may be stored, with its document.  What a
\* request asks is fixed before it is sent.
Init ==
    /\ \/ pointer = NoPointer
       \/ pointer \in [seq : SeqNo, doc : Legacy]
    /\ documents = {pointer.doc} \ {NoDoc}
    /\ outboards = documents
    /\ index = [d \in Doc |-> NoRecord]
    /\ blobs = {} /\ manifests = {}
    /\ blocked = {} /\ lifted = {}
    /\ known = {}
    /\ pc = [r \in Request |-> "new"]
    /\ req \in [Request -> [seq : SeqNo, doc : Envelope,
                            entries : SUBSET Payload, cond : Conditions]]
    /\ read = [r \in Request |-> NoPointer]
    /\ late = [r \in Request |-> "none"]
    /\ rpc = [c \in Reader |-> "idle"]
    /\ got = [c \in Reader |-> NoPointer]
    /\ barred = [c \in Reader |-> {}]
    /\ floor = [c \in Reader |-> 0]
    /\ top = 0

Higher(n) == IF n > top THEN n ELSE top

\* Whether `GET` serves the pointer, as far as the index is concerned.
Live(p) == p.doc \in Doc /\ index[p.doc] # NoRecord

ServedSeq(p) == IF Live(p) /\ p.doc \notin blocked THEN p.seq ELSE 0

\* Mutated form of PreconditionsHold: If-Match compared weakly.
PreconditionsHoldWeakly(cond, served) ==
    /\ \/ cond.ifMatch = {}
       \/ /\ Unreadable \notin cond.ifMatch
          /\ served # 0
          /\ cond.ifMatch \cap {AnyTag, <<"strong", served>>,
                                        <<"weak", served>>} # {}
    /\ \/ cond.ifNoneMatch = {}
       \/ /\ Unreadable \notin cond.ifNoneMatch
          /\ \/ served = 0
             \/ cond.ifNoneMatch \cap {AnyTag, <<"strong", served>>,
                                               <<"weak", served>>} = {}

\* preconditions_hold; `served` is 0 when no pointer is served.
PreconditionsHold(cond, served) ==
    /\ \/ cond.ifMatch = {}
       \/ /\ Unreadable \notin cond.ifMatch
          /\ served # 0
          /\ cond.ifMatch \cap {AnyTag, <<"strong", served>>} # {}
    /\ \/ cond.ifNoneMatch = {}
       \/ /\ Unreadable \notin cond.ifNoneMatch
          /\ \/ served = 0
             \/ cond.ifNoneMatch \cap {AnyTag, <<"strong", served>>,
                                               <<"weak", served>>} = {}

-----------------------------------------------------------------------------
(* PUT /v2/catalogs/{sub}: the checks.                                     *)

To(r, place) == pc' = [pc EXCEPT ![r] = place]

\* The request's token, bundle, envelope and index passed (steps 1 to 5), and
\* nothing it names is blocked.
Admit(r) ==
    /\ pc[r] = "new"
    /\ req[r].doc \notin blocked
    /\ req[r].entries \cap blocked = {}
    /\ To(r, "sizes")
    /\ UNCHANGED <<bucket, recordings, moderation, req, read, late, getVars,
                   top>>

\* check_payloads: every listed recording is in S3,
CheckSizes(r) ==
    /\ pc[r] = "sizes"
    /\ req[r].entries \subseteq blobs
    /\ To(r, "manifests")
    /\ UNCHANGED <<bucket, recordings, moderation, req, read, late, getVars,
                   top>>

\* and so is its manifest; the passkey credential is still the subject's.
CheckManifests(r) ==
    /\ pc[r] = "manifests"
    /\ req[r].entries \subseteq manifests
    /\ To(r, "read")
    /\ UNCHANGED <<bucket, recordings, moderation, req, read, late, getVars,
                   top>>

ReadPointer(r) ==
    /\ pc[r] = "read"
    /\ read' = [read EXCEPT ![r] = pointer]
    /\ To(r, "live")
    /\ UNCHANGED <<bucket, recordings, moderation, req, late, getVars, top>>

\* Mutated form of CheckBase: a blocked pointer's seq need not be exceeded.
CheckBaseServed(r) ==
    /\ pc[r] = "live"
    /\ PreconditionsHold(req[r].cond, ServedSeq(read[r]))
    /\ ServedSeq(read[r]) < req[r].seq
    /\ To(r, "document")
    /\ UNCHANGED <<bucket, recordings, moderation, req, read, late, getVars,
                   top>>

\* The index record of the pointer read tells whether it is live; then the
\* preconditions and the seq are checked.
CheckBase(r) ==
    /\ pc[r] = "live"
    /\ PreconditionsHold(req[r].cond, ServedSeq(read[r]))
    /\ Live(read[r]) => read[r].seq < req[r].seq
    /\ To(r, "document")
    /\ UNCHANGED <<bucket, recordings, moderation, req, read, late, getVars,
                   top>>

\* A check fails, or a service it asks does.
Refuse(r) ==
    /\ pc[r] \in {"new", "sizes", "manifests", "read", "live"}
    /\ To(r, "refused")
    /\ UNCHANGED <<bucket, recordings, moderation, req, read, late, getVars,
                   top>>

-----------------------------------------------------------------------------
(* PUT: the writes.                                                        *)

StoreDocument(r) ==
    /\ documents' = documents \cup {req[r].doc}
    /\ UNCHANGED <<outboards, index, pointer>>

StoreOutboard(r) ==
    /\ outboards' = outboards \cup {req[r].doc}
    /\ UNCHANGED <<documents, index, pointer>>

StoreIndex(r) ==
    /\ index' = [index EXCEPT ![req[r].doc] = req[r].entries]
    /\ UNCHANGED <<documents, outboards, pointer>>

\* Mutated form of StorePointer: an unconditional write.
StorePointerAlways(r) ==
    /\ pointer' = [seq |-> req[r].seq, doc |-> req[r].doc]
    /\ UNCHANGED <<documents, outboards, index>>

\* The conditional write of put_catalog_pointer, where its condition holds.
StorePointer(r) ==
    /\ pointer = read[r]
    /\ pointer' = [seq |-> req[r].seq, doc |-> req[r].doc]
    /\ UNCHANGED <<documents, outboards, index>>

PutDocument(r) ==
    /\ pc[r] = "document"
    /\ StoreDocument(r)
    /\ To(r, "outboard")
    /\ UNCHANGED <<recordings, moderation, req, read, late, getVars, top>>

\* Mutated form of PutOutboard: the index record is left for after the
\* pointer.
PutOutboardThenPointer(r) ==
    /\ pc[r] = "outboard"
    /\ StoreOutboard(r)
    /\ To(r, "pointer")
    /\ UNCHANGED <<recordings, moderation, req, read, late, getVars, top>>

PutOutboard(r) ==
    /\ pc[r] = "outboard"
    /\ StoreOutboard(r)
    /\ To(r, "index")
    /\ UNCHANGED <<recordings, moderation, req, read, late, getVars, top>>

PutIndex(r) ==
    /\ pc[r] = "index"
    /\ StoreIndex(r)
    /\ To(r, "pointer")
    /\ UNCHANGED <<recordings, moderation, req, read, late, getVars, top>>

PutPointer(r) ==
    /\ pc[r] = "pointer"
    /\ StorePointer(r)
    /\ To(r, "written")
    /\ UNCHANGED <<recordings, moderation, req, read, late, getVars, top>>

\* 200.
PutAnswer(r) ==
    /\ pc[r] = "written"
    /\ To(r, "published")
    /\ top' = Higher(req[r].seq)
    /\ UNCHANGED <<bucket, recordings, moderation, req, read, late, getVars>>

\* S3 answers 412, or 409 while another conditional write is in progress.
PutPointerConflict(r) ==
    /\ pc[r] = "pointer"
    /\ To(r, "conflict")
    /\ UNCHANGED <<bucket, recordings, moderation, req, read, late, getVars,
                   top>>

\* The AWS SDK repeats a request whose answer was lost; the first one took
\* effect, so the second fails the condition and S3 answers 412.
PutPointerRepeated(r) ==
    /\ pc[r] = "pointer"
    /\ StorePointer(r)
    /\ To(r, "conflict")
    /\ UNCHANGED <<recordings, moderation, req, read, late, getVars, top>>

\* The write fails (502), and S3 may still carry it out.
PutFails(r) ==
    /\ pc[r] \in Writing
    /\ To(r, "failed")
    /\ late' = [late EXCEPT ![r] = pc[r]]
    /\ UNCHANGED <<bucket, recordings, moderation, req, read, getVars, top>>

LateWrite(r) ==
    /\ \/ late[r] = "document" /\ StoreDocument(r)
       \/ late[r] = "outboard" /\ StoreOutboard(r)
       \/ late[r] = "index" /\ StoreIndex(r)
       \/ late[r] = "pointer" /\ StorePointer(r)
    /\ late' = [late EXCEPT ![r] = "none"]
    /\ UNCHANGED <<recordings, moderation, pc, req, read, getVars, top>>

-----------------------------------------------------------------------------
(* GET /v2/catalogs/{sub}.                                                 *)

\* The reader's token is good and the creator is not hidden.
GetBegin(c) ==
    /\ rpc[c] = "idle"
    /\ rpc' = [rpc EXCEPT ![c] = "read"]
    /\ barred' = [barred EXCEPT ![c] = blocked]
    /\ floor' = [floor EXCEPT ![c] = top]
    /\ UNCHANGED <<bucket, recordings, moderation, putVars, known, got, top>>

\* The GET ends; what it read is dropped.
GetEnd(c) ==
    /\ rpc' = [rpc EXCEPT ![c] = "idle"]
    /\ got' = [got EXCEPT ![c] = NoPointer]
    /\ barred' = [barred EXCEPT ![c] = {}]
    /\ floor' = [floor EXCEPT ![c] = 0]

\* Mutated form of GetRead: only the publish checks blocks.
GetReadUnblocked(c) ==
    /\ rpc[c] = "read"
    /\ pointer # NoPointer
    /\ got' = [got EXCEPT ![c] = pointer]
    /\ rpc' = [rpc EXCEPT ![c] = IF pointer.doc \in known THEN "decide"
                                                          ELSE "index"]
    /\ UNCHANGED <<bucket, recordings, moderation, putVars, known, barred,
                   floor, top>>

\* The pointer is read and is not blocked; a cached attribute saves reading
\* the index record.
GetRead(c) ==
    /\ rpc[c] = "read"
    /\ pointer # NoPointer
    /\ pointer.doc \notin blocked
    /\ got' = [got EXCEPT ![c] = pointer]
    /\ rpc' = [rpc EXCEPT ![c] = IF pointer.doc \in known THEN "decide"
                                                          ELSE "index"]
    /\ UNCHANGED <<bucket, recordings, moderation, putVars, known, barred,
                   floor, top>>

\* catalog_attribute: the index record is read and its attribute cached; a
\* full cache is cleared first.
GetAttribute(c) ==
    /\ rpc[c] = "index"
    /\ index[got[c].doc] # NoRecord
    /\ known' = IF Cardinality(known) >= CacheCapacity
                  THEN {got[c].doc} ELSE known \cup {got[c].doc}
    /\ rpc' = [rpc EXCEPT ![c] = "decide"]
    /\ UNCHANGED <<bucket, recordings, moderation, putVars, got, barred,
                   floor, top>>

\* The decision service permits, or the reader is an operator: 200.
GetAnswer(c) ==
    /\ rpc[c] = "decide"
    /\ GetEnd(c)
    /\ top' = Higher(got[c].seq)
    /\ UNCHANGED <<bucket, recordings, moderation, putVars, known>>

\* 403, 404 or 502.
GetRefused(c) ==
    /\ rpc[c] # "idle"
    /\ GetEnd(c)
    /\ UNCHANGED <<bucket, recordings, moderation, putVars, known, top>>

-----------------------------------------------------------------------------
(* What happens around the requests.                                       *)

\* Ingest stores a recording, and then its manifest.
IngestBlob(p) ==
    /\ p \notin blobs
    /\ blobs' = blobs \cup {p}
    /\ UNCHANGED <<bucket, manifests, moderation, putVars, getVars, top>>

IngestManifest(p) ==
    /\ p \in blobs \ manifests
    /\ manifests' = manifests \cup {p}
    /\ UNCHANGED <<bucket, blobs, moderation, putVars, getVars, top>>

\* An operator blocks a hash, or the view learns of the block.
Block(h) ==
    /\ h \notin blocked
    /\ blocked' = blocked \cup {h}
    /\ UNCHANGED <<bucket, recordings, lifted, putVars, getVars, top>>

LiftBlock(h) ==
    /\ h \in blocked
    /\ blocked' = blocked \ {h}
    /\ lifted' = lifted \cup {h}
    /\ barred' = [c \in Reader |-> barred[c] \ {h}]
    /\ UNCHANGED <<bucket, recordings, putVars, known, rpc, got, floor, top>>

Put(r) == \/ Admit(r) \/ CheckSizes(r) \/ CheckManifests(r)
          \/ ReadPointer(r) \/ CheckBase(r) \/ Refuse(r)
          \/ PutDocument(r) \/ PutOutboard(r) \/ PutIndex(r)
          \/ PutPointer(r) \/ PutAnswer(r) \/ PutPointerConflict(r)
          \/ PutPointerRepeated(r) \/ PutFails(r) \/ LateWrite(r)

Get(c) == \/ GetBegin(c) \/ GetRead(c) \/ GetAttribute(c)
          \/ GetAnswer(c) \/ GetRefused(c)

Next == \/ \E r \in Request : Put(r)
        \/ \E c \in Reader : Get(c)
        \/ \E p \in Payload : IngestBlob(p) \/ IngestManifest(p)
        \/ \E h \in Blockable : Block(h) \/ LiftBlock(h)

Spec == Init /\ [][Next]_vars

-----------------------------------------------------------------------------
(* Properties.                                                             *)

\* A stored pointer to an envelope names a document that can be fetched
\* (document and outboard stored) and decided (index record stored), and
\* every recording any index record lists is stored with its manifest:
\* put_catalog writes document, outboard and index before the pointer, and
\* checks the recordings before all of them.
ServedIsComplete ==
    /\ pointer.doc \in Envelope =>
          /\ pointer.doc \in documents \cap outboards
          /\ index[pointer.doc] # NoRecord
    /\ \A d \in Doc : index[d] # NoRecord => index[d] \subseteq blobs \cap manifests

\* The version the catalog is at: a pointer from before envelopes is none.
Current == IF pointer.doc \in Envelope THEN pointer ELSE NoPointer

Register == INSTANCE CatalogRegister
              WITH Version <- [seq : SeqNo, doc : Envelope], None <- NoPointer,
                   current <- Current, announced <- top

\* The publish and read handlers implement the register: among concurrent,
\* failing and repeated publishes the stored seq strictly increases, so an
\* ETag names one bundle for ever, and no answer names a seq that was not
\* stored (pointer_etag, put_catalog step 7 and 8).
ImplementsRegister == Register!RegisterSpec

\* A request is at a place, or its failed write of that place may still land.
At(r, places) == pc[r] \in places \/ late[r] \in places

\* What a PUT relies on at each of its writes: its recordings are stored, and
\* so are its own earlier objects.
WritesInOrder ==
    \A r \in Request :
        /\ At(r, {"manifests", "read", "live"} \cup Writing) =>
              req[r].entries \subseteq blobs
        /\ At(r, {"read", "live"} \cup Writing) =>
              req[r].entries \subseteq manifests
        /\ At(r, {"outboard", "index", "pointer"}) => req[r].doc \in documents
        /\ At(r, {"index", "pointer"}) => req[r].doc \in outboards
        /\ At(r, {"pointer"}) => index[req[r].doc] # NoRecord
        /\ late[r] # "none" => pc[r] = "failed"

\* A pointer read, by a PUT or a GET, names an indexed document if it names an
\* envelope, and documents from before envelopes never gain a record.
ReadsIndexed ==
    /\ \A d \in Legacy : index[d] = NoRecord
    /\ \A r \in Request :
          read[r].doc \in Envelope => index[read[r].doc] # NoRecord

\* The pointer a PUT is about to replace is older than it, and is the base its
\* headers name.
BasesChecked ==
    \A r \in Request : At(r, Writing) =>
        LET cond == req[r].cond IN
        /\ read[r].doc \in Envelope => read[r].seq < req[r].seq
        /\ cond.ifMatch # {} =>
              /\ read[r].doc \in Envelope
              /\ \/ AnyTag \in cond.ifMatch
                 \/ <<"strong", read[r].seq>> \in cond.ifMatch
        /\ AnyTag \in cond.ifNoneMatch =>
              read[r].doc \notin Envelope \ (blocked \cup lifted)

\* What was answered, or is about to be, was stored; a GET reads no older
\* version than was answered before it began.
AnswersStored ==
    /\ top <= Current.seq
    /\ \A r \in Request : pc[r] = "written" => req[r].seq <= Current.seq
    /\ \A c \in Reader :
          /\ floor[c] <= top
          /\ rpc[c] \in {"idle", "read"} => got[c] = NoPointer
          /\ rpc[c] \in {"index", "decide"} => got[c].doc \in Doc
          /\ got[c].doc \in Envelope =>
                floor[c] <= got[c].seq /\ got[c].seq <= Current.seq

\* A GET about to answer shows an envelope, and a seq no lower than any that
\* was answered (to a publisher or a reader) before it began.
AnswersAreFresh ==
    \A c \in Reader : rpc[c] = "decide" =>
        /\ got[c].doc \in Envelope
        /\ got[c].seq >= floor[c]

\* The inductive invariant behind the properties of this module.
CatalogInv == /\ ServedIsComplete /\ WritesInOrder /\ ReadsIndexed
              /\ BasesChecked /\ AnswersStored /\ AnswersAreFresh

\* A publish that names its base replaces that base, also when others publish
\* between its check and its write: with If-Match the pointer it replaces is
\* live and one of the tags names it; with `If-None-Match: *` it replaces no
\* pointer that GET served throughout (preconditions_hold, and the ETag given
\* to put_catalog_pointer).
ReplacesItsBase ==
    [][\A r \in Request :
          (pointer' # pointer /\ (pc'[r] # pc[r] \/ late'[r] # late[r])) =>
             LET cond == req[r].cond IN
             /\ cond.ifMatch # {} =>
                   /\ pointer.doc \in Envelope
                   /\ \/ AnyTag \in cond.ifMatch
                      \/ <<"strong", pointer.seq>> \in cond.ifMatch
             /\ AnyTag \in cond.ifNoneMatch =>
                   pointer.doc \notin Envelope \ (blocked \cup lifted)
      ]_vars

\* A GET never shows a document that was blocked before it began and is still
\* blocked, though a publish may store a pointer to a document blocked after
\* its check (get_pointer, is_blocked).
BlockedNotAnswered ==
    \A c \in Reader : rpc[c] = "decide" => got[c].doc \notin barred[c]

=============================================================================
