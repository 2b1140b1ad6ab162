----------------------------- MODULE StoreProofs -----------------------------
(***************************************************************************)
(* Proofs about the documents nodes share through the store: the catalogs  *)
(* that publishers replace and readers fetch (CatalogPublish) and the      *)
(* moderation records (Moderation).  The two are written under different   *)
(* keys and share no state, so each has a section here.                    *)
(***************************************************************************)
EXTENDS CatalogPublish, Moderation, TLAPS

-----------------------------------------------------------------------------
(* The catalogs: for any number of requests, readers and documents,        *)
(* CatalogInv is an inductive invariant; the handlers implement            *)
(* CatalogRegister, a publish replaces the base it names, and a read never *)
(* answers with a document that was blocked all along.                     *)

\* A `seq` is a positive natural number.
LEMMA SeqNos == /\ \A n \in SeqNo : n \in Nat /\ n > 0
                /\ \A n \in 0..MaxSeq : n \in Nat
BY SeqAssumption DEF SeqNo

\* Every step of a PUT keeps the types.
LEMMA PutTypes ==
    ASSUME TypeOK, NEW r \in Request, Put(r)
    PROVE  TypeOK'
<1> USE DEF TypeOK, bucket, recordings, moderation, putVars, getVars, To,
            Writing, Ended, Doc
<1>1. CASE Admit(r) BY <1>1, Zenon DEF Admit
<1>2. CASE CheckSizes(r) BY <1>2, Zenon DEF CheckSizes
<1>3. CASE CheckManifests(r) BY <1>3, Zenon DEF CheckManifests
<1>4. CASE ReadPointer(r) BY <1>4, Zenon DEF ReadPointer
<1>5. CASE CheckBase(r) BY <1>5, Zenon DEF CheckBase
<1>6. CASE Refuse(r) BY <1>6, Zenon DEF Refuse
<1>7. CASE PutDocument(r) BY <1>7, Zenon DEF PutDocument, StoreDocument
<1>8. CASE PutOutboard(r) BY <1>8, Zenon DEF PutOutboard, StoreOutboard
<1>9. CASE PutIndex(r) BY <1>9, Zenon DEF PutIndex, StoreIndex
<1>10. CASE PutPointer(r) BY <1>10, Zenon DEF PutPointer, StorePointer, Bundle
<1>11. CASE PutAnswer(r) BY <1>11, SeqNos, SeqAssumption DEF PutAnswer, Higher, SeqNo
<1>12. CASE PutPointerConflict(r) BY <1>12, Zenon DEF PutPointerConflict
<1>13. CASE PutPointerRepeated(r)
       BY <1>13, Zenon DEF PutPointerRepeated, StorePointer, Bundle
<1>14. CASE PutFails(r) BY <1>14, Zenon DEF PutFails
<1>15. CASE LateWrite(r)
       BY <1>15 DEF LateWrite, StoreDocument, StoreOutboard, StoreIndex,
                    StorePointer, Bundle
<1>16. QED
       BY Zenon, <1>1, <1>2, <1>3, <1>4, <1>5, <1>6, <1>7, <1>8, <1>9, <1>10, <1>11,
          <1>12, <1>13, <1>14, <1>15, Put(r) DEF Put

\* Every step of a GET keeps the types: only documents with an index record,
\* hence envelopes, enter the attribute cache.
LEMMA GetTypes ==
    ASSUME TypeOK, CatalogInv, NEW c \in Reader, Get(c)
    PROVE  TypeOK'
<1> USE DEF TypeOK, bucket, recordings, moderation, putVars, getVars, Doc
<1>1. CASE GetBegin(c) BY <1>1, Zenon DEF GetBegin
<1>2. CASE GetRead(c) BY <1>2, Zenon DEF GetRead
<1>3. CASE GetAttribute(c)
  <2>1. got[c].doc \in Envelope
        BY <1>3, Zenon DEF GetAttribute, CatalogInv, ReadsIndexed, AnswersStored
  <2>2. QED BY <1>3, <2>1, Zenon DEF GetAttribute
<1>4. CASE GetAnswer(c)
  <2>1. got[c].seq \in 0..MaxSeq
        BY SeqAssumption DEF Bundle, SeqNo, NoPointer
  <2>2. Higher(got[c].seq) \in 0..MaxSeq BY <2>1, Zenon DEF Higher
  <2>3. QED BY <1>4, <2>2, SeqAssumption DEF GetAnswer, GetEnd
<1>5. CASE GetRefused(c) BY <1>5, SeqAssumption DEF GetRefused, GetEnd
<1>6. QED BY <1>1, <1>2, <1>3, <1>4, <1>5, Get(c), Zenon DEF Get

\* Ingest and moderation steps keep the types.
LEMMA OtherTypes ==
    ASSUME TypeOK,
           \/ \E p \in Payload : IngestBlob(p) \/ IngestManifest(p)
           \/ \E h \in Blockable : Block(h) \/ LiftBlock(h)
    PROVE  TypeOK'
<1> USE DEF TypeOK, bucket, recordings, moderation, putVars, getVars, Doc
<1>1. CASE \E p \in Payload : IngestBlob(p) BY <1>1, Zenon DEF IngestBlob
<1>2. CASE \E p \in Payload : IngestManifest(p) BY <1>2, Zenon DEF IngestManifest
<1>3. CASE \E h \in Blockable : Block(h)
      BY <1>3, BlockableAssumption, Zenon DEF Block
<1>4. CASE \E h \in Blockable : LiftBlock(h)
      BY <1>4, BlockableAssumption DEF LiftBlock
<1>5. QED BY <1>1, <1>2, <1>3, <1>4, Zenon

\* Every `seq` a request, a reader or an answer carries is a natural number.
LEMMA SeqTypes ==
    ASSUME TypeOK
    PROVE  /\ top \in Nat
           /\ \A q \in Request : req[q].seq \in Nat /\ req[q].seq # 0
           /\ \A c \in Reader : floor[c] \in Nat
           /\ \A c \in Reader : got[c].seq \in Nat
<1>1. top \in Nat BY SeqNos, Zenon DEF TypeOK
<1>2. ASSUME NEW q \in Request PROVE req[q].seq \in Nat /\ req[q].seq # 0
  <2>1. req[q].seq \in SeqNo BY Zenon DEF TypeOK
  <2>2. QED BY <2>1, SeqNos
<1>3. ASSUME NEW c \in Reader PROVE floor[c] \in Nat
  <2>1. floor[c] \in 0..MaxSeq BY Zenon DEF TypeOK
  <2>2. QED BY <2>1, SeqNos, Zenon
<1>4. ASSUME NEW c \in Reader PROVE got[c].seq \in Nat
  <2>1. got[c] \in Bundle \/ got[c] = NoPointer BY Zenon DEF TypeOK
  <2>2. CASE got[c] \in Bundle BY <2>2, SeqNos, Zenon DEF Bundle
  <2>3. CASE got[c] = NoPointer BY <2>3 DEF NoPointer
  <2>4. QED BY <2>1, <2>2, <2>3, Zenon
<1>5. QED BY <1>1, <1>2, <1>3, <1>4, Zenon

\* The version the catalog is at has a natural number.
LEMMA CurrentSeq == ASSUME TypeOK PROVE Current.seq \in 0..MaxSeq
BY SeqAssumption DEF TypeOK, Current, Bundle, NoPointer, SeqNo

\* Replacing the pointer, where the conditional write succeeds, moves the
\* catalog to the request's version, which is newer.
LEMMA PointerAdvances ==
    ASSUME TypeOK, CatalogInv, NEW r \in Request, At(r, {"pointer"}),
           StorePointer(r)
    PROVE  /\ Current' = [seq |-> req[r].seq, doc |-> req[r].doc]
           /\ Current.seq < req[r].seq
           /\ Current.seq \in Nat /\ req[r].seq \in Nat
<1>1. req[r].doc \in Envelope /\ req[r].seq \in SeqNo BY Zenon DEF TypeOK
<1>2. pointer' = [seq |-> req[r].seq, doc |-> req[r].doc] /\ pointer = read[r]
      BY Zenon DEF StorePointer
<1>3. Current' = [seq |-> req[r].seq, doc |-> req[r].doc]
      BY <1>1, <1>2, Zenon DEF Current
<1>4. CASE pointer.doc \in Envelope
  <2>1. Current = read[r] BY <1>2, <1>4, Zenon DEF Current
  <2>2. read[r].seq < req[r].seq
        BY <1>2, <1>4, Zenon DEF CatalogInv, BasesChecked, At, Writing
  <2>3. Current.seq \in Nat BY CurrentSeq, SeqNos, Zenon
  <2>4. QED BY <1>1, <1>3, <2>1, <2>2, <2>3, SeqNos, Zenon
<1>5. CASE pointer.doc \notin Envelope
  <2>1. Current.seq = 0 BY <1>5, Zenon DEF Current, NoPointer
  <2>2. req[r].seq \in Nat /\ req[r].seq > 0 BY <1>1, SeqNos, Zenon
  <2>3. QED BY <1>3, <2>1, <2>2
<1>6. QED BY <1>4, <1>5, Zenon

-----------------------------------------------------------------------------
(* A PUT step keeps each part of the invariant.                            *)

\* The steps of a PUT that store nothing.
Quiet(r) == \/ Admit(r) \/ CheckSizes(r) \/ CheckManifests(r)
            \/ ReadPointer(r) \/ CheckBase(r) \/ Refuse(r) \/ PutAnswer(r)
            \/ PutPointerConflict(r) \/ PutFails(r)

\* What a PUT step does to the stored objects and to what others keep.
LEMMA PutEffects ==
    ASSUME NEW r \in Request, Put(r)
    PROVE  /\ UNCHANGED <<recordings, moderation, req, getVars>>
           /\ \/ Quiet(r) /\ UNCHANGED bucket
              \/ At(r, {"document"}) /\ StoreDocument(r)
              \/ At(r, {"outboard"}) /\ StoreOutboard(r)
              \/ At(r, {"index"}) /\ StoreIndex(r)
              \/ At(r, {"pointer"}) /\ StorePointer(r)
<1>1. CASE Quiet(r)
      BY <1>1, Zenon DEF Quiet, Admit, CheckSizes, CheckManifests, ReadPointer,
                  CheckBase, Refuse, PutAnswer, PutPointerConflict, PutFails
<1>2. CASE PutDocument(r) BY <1>2, Zenon DEF PutDocument, At
<1>3. CASE PutOutboard(r) BY <1>3, Zenon DEF PutOutboard, At
<1>4. CASE PutIndex(r) BY <1>4, Zenon DEF PutIndex, At
<1>5. CASE PutPointer(r) BY <1>5, Zenon DEF PutPointer, At
<1>6. CASE PutPointerRepeated(r) BY <1>6, Zenon DEF PutPointerRepeated, At
<1>7. CASE LateWrite(r) BY <1>7, Zenon DEF LateWrite, At
<1>8. QED BY <1>1, <1>2, <1>3, <1>4, <1>5, <1>6, <1>7, Put(r), Zenon DEF Put, Quiet

\* A record a PUT stores is not mistaken for no record.
LEMMA EntriesAreARecord ==
    ASSUME TypeOK, NEW r \in Request
    PROVE  req[r].entries # NoRecord
BY DocAssumption, Zenon DEF TypeOK, NoRecord

\* The stored catalog stays complete: the pointer comes last.
LEMMA PutKeepsComplete ==
    ASSUME TypeOK, CatalogInv, NEW r \in Request, Put(r)
    PROVE  ServedIsComplete'
<1> USE DEF CatalogInv, ServedIsComplete, TypeOK, recordings
<1>0. UNCHANGED <<recordings, req>> BY PutEffects, Zenon
<1>1. CASE UNCHANGED bucket BY <1>0, <1>1, Zenon DEF bucket
<1>2. CASE StoreDocument(r) BY <1>0, <1>2, Zenon DEF StoreDocument
<1>3. CASE StoreOutboard(r) BY <1>0, <1>3, Zenon DEF StoreOutboard
<1>4. CASE At(r, {"index"}) /\ StoreIndex(r)
  <2>1. req[r].entries \subseteq blobs \cap manifests
        BY <1>4, Zenon DEF WritesInOrder, At, Writing
  <2>2. index' = [index EXCEPT ![req[r].doc] = req[r].entries]
        BY <1>4, Zenon DEF StoreIndex
  <2>3. QED BY <1>0, <1>4, <2>1, <2>2, EntriesAreARecord, Zenon DEF StoreIndex, Doc
<1>5. CASE At(r, {"pointer"}) /\ StorePointer(r)
  <2>1. /\ req[r].doc \in documents \cap outboards
        /\ index[req[r].doc] # NoRecord
        BY <1>5, Zenon DEF WritesInOrder, At
  <2>2. QED BY <1>0, <1>5, <2>1, Zenon DEF StorePointer
<1>6. QED BY <1>1, <1>2, <1>3, <1>4, <1>5, PutEffects, Zenon

\* Stored objects are never deleted.
LEMMA StoredStays ==
    ASSUME TypeOK, NEW r \in Request, Put(r)
    PROVE  /\ documents \subseteq documents' /\ outboards \subseteq outboards'
           /\ \A d \in Doc : index[d] # NoRecord => index'[d] # NoRecord
           /\ \A d \in Legacy : index'[d] = index[d]
BY PutEffects, EntriesAreARecord, DocAssumption
   DEF bucket, StoreDocument, StoreOutboard, StoreIndex, StorePointer, TypeOK, Doc

\* A PUT step moves only its own request, and reads the pointer only at
\* ReadPointer.
LEMMA PutFrame ==
    ASSUME TypeOK, NEW r \in Request, Put(r), NEW q \in Request
    PROVE  /\ q # r => pc'[q] = pc[q] /\ late'[q] = late[q]
           /\ read'[q] = read[q] \/ (q = r /\ ReadPointer(r))
BY Put(r), Zenon
   DEF Put, TypeOK, Admit, CheckSizes, CheckManifests, ReadPointer, CheckBase, Refuse,
           PutDocument, PutOutboard, PutIndex, PutPointer, PutAnswer,
           PutPointerConflict, PutPointerRepeated, PutFails, LateWrite, To

\* Each write finds what it relies on.
LEMMA PutKeepsOrder ==
    ASSUME TypeOK, CatalogInv, NEW r \in Request, Put(r)
    PROVE  WritesInOrder'
<1> SUFFICES ASSUME NEW q \in Request
             PROVE  /\ At(q, {"manifests", "read", "live"} \cup Writing)' =>
                          (req[q].entries \subseteq blobs)'
                    /\ At(q, {"read", "live"} \cup Writing)' =>
                          (req[q].entries \subseteq manifests)'
                    /\ At(q, {"outboard", "index", "pointer"})' =>
                          (req[q].doc \in documents)'
                    /\ At(q, {"index", "pointer"})' => (req[q].doc \in outboards)'
                    /\ At(q, {"pointer"})' => (index[req[q].doc] # NoRecord)'
                    /\ late'[q] # "none" => pc'[q] = "failed"
    BY Zenon DEF WritesInOrder
<1>0. /\ UNCHANGED <<blobs, manifests, req>>
      /\ req[q].doc \in Doc
      BY PutEffects, Zenon DEF recordings, TypeOK, Doc
<1>1. CASE q # r
      BY <1>0, <1>1, PutFrame, StoredStays DEF CatalogInv, WritesInOrder, At
<1>2. CASE q = r
  <2> USE <1>0, <1>2, StoredStays DEF CatalogInv, WritesInOrder, At, To, TypeOK
  <2>1. CASE Admit(r) BY <2>1, Zenon DEF Admit, Writing
  <2>2. CASE CheckSizes(r) BY <2>2, Zenon DEF CheckSizes, Writing
  <2>3. CASE CheckManifests(r) BY <2>3, Zenon DEF CheckManifests, Writing
  <2>4. CASE ReadPointer(r) BY <2>4, Zenon DEF ReadPointer, Writing
  <2>5. CASE CheckBase(r) BY <2>5, Zenon DEF CheckBase, Writing
  <2>6. CASE Refuse(r) BY <2>6, Zenon DEF Refuse, Writing
  <2>7. CASE PutDocument(r) BY <2>7, Zenon DEF PutDocument, StoreDocument, Writing
  <2>8. CASE PutOutboard(r) BY <2>8, Zenon DEF PutOutboard, StoreOutboard, Writing
  <2>9. CASE PutIndex(r)
        BY <2>9, EntriesAreARecord, Zenon DEF PutIndex, StoreIndex, Writing
  <2>10. CASE PutPointer(r) BY <2>10, Zenon DEF PutPointer, Writing
  <2>11. CASE PutAnswer(r) BY <2>11, Zenon DEF PutAnswer, Writing
  <2>12. CASE PutPointerConflict(r) BY <2>12, Zenon DEF PutPointerConflict, Writing
  <2>13. CASE PutPointerRepeated(r) BY <2>13, Zenon DEF PutPointerRepeated, Writing
  <2>14. CASE PutFails(r) BY <2>14, Zenon DEF PutFails, Writing
  <2>15. CASE LateWrite(r) BY <2>15, Zenon DEF LateWrite, Writing
  <2>16. QED
         BY Zenon, <2>1, <2>2, <2>3, <2>4, <2>5, <2>6, <2>7, <2>8, <2>9, <2>10,
            <2>11, <2>12, <2>13, <2>14, <2>15, Put(r) DEF Put
<1>3. QED BY <1>1, <1>2, Zenon

\* What a PUT read stays indexed.
LEMMA PutKeepsIndexed ==
    ASSUME TypeOK, CatalogInv, NEW r \in Request, Put(r)
    PROVE  ReadsIndexed'
<1>1. \A d \in Legacy : index'[d] = NoRecord
      BY StoredStays, Zenon DEF CatalogInv, ReadsIndexed
<1>2. ASSUME NEW q \in Request, read'[q].doc \in Envelope
      PROVE  index'[read'[q].doc] # NoRecord
  <2>1. CASE read'[q] = read[q]
        BY <1>2, <2>1, StoredStays, Zenon DEF CatalogInv, ReadsIndexed, Doc
  <2>2. CASE q = r /\ ReadPointer(r)
    <3>1. read'[q] = pointer /\ index' = index
          BY <2>2, Zenon DEF ReadPointer, bucket, TypeOK
    <3>2. QED BY <1>2, <3>1, Zenon DEF CatalogInv, ServedIsComplete
  <2>3. QED BY <2>1, <2>2, PutFrame, Zenon
<1>3. QED BY <1>1, <1>2, Zenon DEF ReadsIndexed

\* Readers' answers do not change under a PUT.
LEMMA PutKeepsFresh ==
    ASSUME CatalogInv, NEW r \in Request, Put(r)
    PROVE  AnswersAreFresh'
BY PutEffects, Zenon DEF CatalogInv, AnswersAreFresh, getVars

\* A PUT that comes to write has checked its base, and keeps it.
LEMMA PutKeepsBases ==
    ASSUME TypeOK, CatalogInv, NEW r \in Request, Put(r)
    PROVE  BasesChecked'
<1> DEFINE Checked(q) ==
        LET cond == req[q].cond IN
        /\ read[q].doc \in Envelope => read[q].seq < req[q].seq
        /\ cond.ifMatch # {} =>
              /\ read[q].doc \in Envelope
              /\ \/ AnyTag \in cond.ifMatch
                 \/ <<"strong", read[q].seq>> \in cond.ifMatch
        /\ AnyTag \in cond.ifNoneMatch =>
              read[q].doc \notin Envelope \ (blocked \cup lifted)
<1> SUFFICES ASSUME NEW q \in Request, At(q, Writing)'
             PROVE  Checked(q)'
    BY Zenon DEF BasesChecked
<1>0. UNCHANGED <<req, blocked, lifted>> BY PutEffects, Zenon DEF moderation
<1>1. CASE CheckBase(r) /\ q = r
  <2>1. /\ PreconditionsHold(req[q].cond, ServedSeq(read[q]))
        /\ Live(read[q]) => read[q].seq < req[q].seq
        /\ read' = read
        BY <1>1, Zenon DEF CheckBase
  <2>2. read[q].doc \in Envelope => Live(read[q])
        BY Zenon DEF CatalogInv, ReadsIndexed, Live, Doc
  <2>3. Live(read[q]) => read[q].doc \in Envelope
        BY Zenon DEF CatalogInv, ReadsIndexed, Live, Doc
  <2>4. ServedSeq(read[q]) # 0 =>
           Live(read[q]) /\ ServedSeq(read[q]) = read[q].seq
        BY Zenon DEF ServedSeq
  <2>5. read[q].doc \in Envelope \ blocked => ServedSeq(read[q]) # 0
    <3>1. read[q].doc \in Envelope => read[q].seq \in SeqNo
          BY DocAssumption DEF TypeOK, Bundle, NoPointer
    <3>2. QED BY <2>2, <3>1, SeqNos DEF ServedSeq
  <2>6. QED BY <1>0, <2>1, <2>2, <2>3, <2>4, <2>5, Zenon DEF PreconditionsHold
<1>2. CASE ~(CheckBase(r) /\ q = r)
  <2>1. At(q, Writing) /\ read'[q] = read[q]
    <3>1. CASE q # r BY <3>1, PutFrame, Zenon DEF At
    <3>2. CASE q = r
          BY <1>2, <3>2, Put(r), Zenon
          DEF Put, At, Writing, TypeOK, CatalogInv, WritesInOrder, Admit, CheckSizes, CheckManifests, ReadPointer, CheckBase, Refuse,
              PutDocument, PutOutboard, PutIndex, PutPointer, PutAnswer,
              PutPointerConflict, PutPointerRepeated, PutFails, LateWrite, To
    <3>3. QED BY <3>1, <3>2, Zenon
  <2>2. QED BY <1>0, <2>1, Zenon DEF CatalogInv, BasesChecked
<1>3. QED BY <1>1, <1>2, Zenon

\* What is answered was stored, and the stored seq does not go back.
LEMMA PutKeepsAnswers ==
    ASSUME TypeOK, CatalogInv, NEW r \in Request, Put(r)
    PROVE  AnswersStored'
<1>0. UNCHANGED <<req, got, rpc, floor>> BY PutEffects, Zenon DEF getVars
<1>1. Current.seq <= Current'.seq /\ Current.seq \in Nat /\ Current'.seq \in Nat
  <2>1. CASE pointer' = pointer
        BY <2>1, CurrentSeq, SeqNos DEF Current
  <2>2. CASE At(r, {"pointer"}) /\ StorePointer(r)
        BY <2>2, PointerAdvances
  <2>3. QED
        BY <2>1, <2>2, PutEffects, Zenon
        DEF bucket, StoreDocument, StoreOutboard, StoreIndex
<1>2. /\ top \in Nat /\ top' \in Nat
      /\ \A q \in Request : req[q].seq \in Nat
      /\ \A c \in Reader : floor[c] \in Nat
      /\ \A c \in Reader : got[c].seq \in Nat
  <2>1. top' \in 0..MaxSeq BY PutTypes, Zenon DEF TypeOK
  <2>2. QED BY <2>1, SeqNos, SeqTypes, Zenon
<1>3. top <= top' /\ top' <= Current'.seq
  <2>0. top <= Current.seq /\ (pc[r] = "written" => req[r].seq <= Current.seq)
        BY Zenon DEF CatalogInv, AnswersStored
  <2>1. CASE PutAnswer(r)
    <3>1. pc[r] = "written" /\ top' = Higher(req[r].seq)
          BY <2>1, Zenon DEF PutAnswer
    <3>2. req[r].seq \in Nat BY <1>2, Zenon
    <3>3. QED BY <3>1, <3>2, <2>0, <1>1, <1>2 DEF Higher
  <2>2. CASE top' = top
        BY <2>2, <2>0, <1>1, <1>2
  <2>3. QED
        BY <2>1, <2>2, Put(r), Zenon
        DEF Put, Admit, CheckSizes, CheckManifests, ReadPointer, CheckBase,
            Refuse, PutDocument, PutOutboard, PutIndex, PutPointer,
            PutPointerConflict, PutPointerRepeated, PutFails, LateWrite
<1>4. ASSUME NEW q \in Request, pc'[q] = "written"
      PROVE  req[q].seq <= Current'.seq
  <2>1. CASE pc[q] = "written"
        BY <1>1, <1>2, <2>1 DEF CatalogInv, AnswersStored
  <2>2. CASE q = r /\ PutPointer(r)
        BY <1>2, <2>2, PointerAdvances DEF PutPointer, At
  <2>3. QED
    <3>1. CASE q # r BY <1>4, <2>1, <3>1, PutFrame, Zenon
    <3>2. CASE q = r
          BY <1>4, <2>1, <2>2, <3>2, Put(r), Zenon
          DEF Put, TypeOK, Admit, CheckSizes, CheckManifests, ReadPointer, CheckBase, Refuse,
              PutDocument, PutOutboard, PutIndex, PutPointer, PutAnswer,
              PutPointerConflict, PutPointerRepeated, PutFails, LateWrite, To
    <3>3. QED BY <3>1, <3>2, Zenon
<1>5. ASSUME NEW c \in Reader
      PROVE  /\ floor[c] <= top'
             /\ rpc[c] \in {"idle", "read"} => got[c] = NoPointer
             /\ rpc[c] \in {"index", "decide"} => got[c].doc \in Doc
             /\ got[c].doc \in Envelope =>
                   floor[c] <= got[c].seq /\ got[c].seq <= Current'.seq
  <2>1. /\ floor[c] <= top
        /\ rpc[c] \in {"idle", "read"} => got[c] = NoPointer
        /\ rpc[c] \in {"index", "decide"} => got[c].doc \in Doc
        /\ got[c].doc \in Envelope =>
              floor[c] <= got[c].seq /\ got[c].seq <= Current.seq
        BY Zenon DEF CatalogInv, AnswersStored
  <2>2. floor[c] \in Nat /\ got[c].seq \in Nat BY <1>2, Zenon
  <2>3. floor[c] <= top' BY <2>1, <2>2, <1>2, <1>3
  <2>4. ASSUME got[c].doc \in Envelope
        PROVE  floor[c] <= got[c].seq /\ got[c].seq <= Current'.seq
    <3>1. floor[c] <= got[c].seq /\ got[c].seq <= Current.seq BY <2>1, <2>4, Zenon
    <3>2. QED BY <3>1, <2>2, <1>1
  <2>5. QED BY <2>1, <2>3, <2>4, Zenon
<1>6. QED BY <1>0, <1>3, <1>4, <1>5, Zenon DEF AnswersStored

-----------------------------------------------------------------------------
(* The other steps, and the invariant.                                     *)

\* A GET stores nothing; it reads the pointer when that is no older than what
\* was answered before.
LEMMA GetKeeps ==
    ASSUME TypeOK, CatalogInv, NEW c \in Reader, Get(c)
    PROVE  CatalogInv'
<1>0. UNCHANGED <<bucket, recordings, moderation, putVars>>
      BY Get(c), Zenon DEF Get, GetBegin, GetRead, GetAttribute, GetAnswer, GetRefused
<1>1. (ServedIsComplete /\ WritesInOrder /\ ReadsIndexed /\ BasesChecked)'
  <2>0. UNCHANGED <<pointer, documents, outboards, index, blobs, manifests,
                    blocked, lifted, pc, req, read, late>>
        BY <1>0, Zenon DEF bucket, recordings, moderation, putVars
  <2>1. ServedIsComplete' BY <2>0, Zenon DEF CatalogInv, ServedIsComplete
  <2>2. WritesInOrder' BY <2>0, Zenon DEF CatalogInv, WritesInOrder, At
  <2>3. ReadsIndexed' BY <2>0, Zenon DEF CatalogInv, ReadsIndexed
  <2>4. BasesChecked' BY <2>0, Zenon DEF CatalogInv, BasesChecked, At
  <2>5. QED BY <2>1, <2>2, <2>3, <2>4, Zenon
<1>2. Current' = Current /\ UNCHANGED <<pc, req>>
      BY <1>0, Zenon DEF Current, bucket, putVars
<1>3. top \in Nat /\ Current.seq \in Nat
      BY CurrentSeq, SeqNos, SeqTypes, Zenon
<1>30. \A d \in Reader : floor[d] \in Nat /\ got[d].seq \in Nat
      BY SeqNos, SeqTypes, Zenon
<1>4. NoPointer.doc \notin Doc /\ NoPointer.doc \notin Envelope
      BY DocAssumption, Zenon DEF NoPointer, Doc
<1>5. /\ top <= Current.seq /\ top \in Nat
      /\ \A q \in Request : pc[q] = "written" => req[q].seq <= Current.seq
      BY <1>3, Zenon DEF CatalogInv, AnswersStored
<1>50. top <= Current.seq BY <1>5, Zenon
<1>6. top <= top' /\ top' <= Current.seq /\ top' \in Nat
  <2>1. CASE GetAnswer(c)
    <3>1. top' = Higher(got[c].seq) /\ rpc[c] = "decide" BY <2>1, Zenon DEF GetAnswer
    <3>2. got[c].seq <= Current.seq /\ got[c].seq \in Nat
      <4>1. got[c].doc \in Envelope BY <3>1, Zenon DEF CatalogInv, AnswersAreFresh
      <4>2. got[c].seq <= Current.seq BY <4>1, Zenon DEF CatalogInv, AnswersStored
      <4>3. QED BY <4>2, <1>30, Zenon
    <3>3. QED BY <3>1, <3>2, <1>3, <1>50 DEF Higher
  <2>2. CASE top' = top BY <2>2, <1>3, <1>50
  <2>3. QED
        BY <2>1, <2>2, Get(c), Zenon DEF Get, GetBegin, GetRead, GetAttribute, GetRefused
<1>7. ASSUME NEW d \in Reader
      PROVE  /\ floor'[d] <= top'
             /\ rpc'[d] \in {"idle", "read"} => got'[d] = NoPointer
             /\ rpc'[d] \in {"index", "decide"} => got'[d].doc \in Doc
             /\ got'[d].doc \in Envelope =>
                   floor'[d] <= got'[d].seq /\ got'[d].seq <= Current.seq
             /\ rpc'[d] = "decide" =>
                   got'[d].doc \in Envelope /\ got'[d].seq >= floor'[d]
  <2>0. /\ floor[d] <= top /\ floor[d] \in Nat /\ got[d].seq \in Nat
        /\ rpc[d] \in {"idle", "read"} => got[d] = NoPointer
        /\ rpc[d] \in {"index", "decide"} => got[d].doc \in Doc
        /\ got[d].doc \in Envelope =>
              floor[d] <= got[d].seq /\ got[d].seq <= Current.seq
        /\ rpc[d] = "decide" =>
              got[d].doc \in Envelope /\ got[d].seq >= floor[d]
        BY <1>30, Zenon DEF CatalogInv, AnswersStored, AnswersAreFresh
  <2>1. CASE rpc'[d] = rpc[d] /\ got'[d] = got[d] /\ floor'[d] = floor[d]
    <3>1. floor[d] <= top /\ floor[d] \in Nat BY <2>0, Zenon
    <3>2. floor[d] <= top' BY <3>1, <1>3, <1>6
    <3>3. QED BY <2>0, <2>1, <3>2, Zenon
  <2>2. CASE d = c /\ GetBegin(c)
    <3>1. /\ rpc[c] = "idle" /\ rpc'[c] = "read" /\ floor'[c] = top
          /\ got'[c] = got[c] /\ top' = top
          BY <2>2, Zenon DEF GetBegin, TypeOK
    <3>2. QED BY <2>0, <2>2, <3>1, <1>3, <1>4
  <2>3. CASE d = c /\ GetRead(c)
    <3>1. /\ rpc[c] = "read" /\ got'[c] = pointer /\ pointer # NoPointer
          /\ rpc'[c] = IF pointer.doc \in known THEN "decide" ELSE "index"
          /\ floor'[c] = floor[c] /\ top' = top
          BY <2>3, Zenon DEF GetRead, TypeOK
    <3>2. pointer.doc \in Doc /\ pointer.seq \in Nat
          BY <3>1, SeqNos, Zenon DEF TypeOK, Bundle
    <3>3. pointer.doc \in Envelope => Current = pointer BY Zenon DEF Current
    <3>4. known \subseteq Envelope BY Zenon DEF TypeOK
    <3>5. QED BY <2>0, <2>3, <3>1, <3>2, <3>3, <3>4, <1>3, <1>50
  <2>4. CASE d = c /\ GetAttribute(c)
    <3>1. /\ rpc[c] = "index" /\ rpc'[c] = "decide" /\ got'[c] = got[c]
          /\ floor'[c] = floor[c] /\ top' = top
          /\ index[got[c].doc] # NoRecord
          BY <2>4, Zenon DEF GetAttribute, TypeOK
    <3>2. got[c].doc \in Envelope
          BY <2>0, <2>4, <3>1, Zenon DEF CatalogInv, ReadsIndexed, Doc
    <3>3. QED BY <2>0, <2>4, <3>1, <3>2, Zenon
  <2>5. CASE d = c /\ (GetAnswer(c) \/ GetRefused(c))
    <3>1. rpc'[c] = "idle" /\ got'[c] = NoPointer /\ floor'[c] = 0
          BY <2>5, Zenon DEF GetAnswer, GetRefused, GetEnd, TypeOK
    <3>2. QED BY <2>5, <3>1, <1>4, <1>6
  <2>6. d # c => rpc'[d] = rpc[d] /\ got'[d] = got[d] /\ floor'[d] = floor[d]
        BY Get(c), Zenon DEF Get, GetBegin, GetRead, GetAttribute, GetAnswer,
                      GetRefused, GetEnd, TypeOK
  <2>7. QED BY <2>1, <2>2, <2>3, <2>4, <2>5, <2>6, Get(c), Zenon DEF Get
<1>8. AnswersStored' BY <1>2, <1>5, <1>6, <1>7, Zenon DEF AnswersStored
<1>9. AnswersAreFresh' BY <1>7, Zenon DEF AnswersAreFresh
<1>10. QED BY <1>1, <1>8, <1>9, Zenon DEF CatalogInv

\* Recordings are only added, and a lifted block stays in the history.
LEMMA OtherKeeps ==
    ASSUME TypeOK, CatalogInv,
           \/ \E p \in Payload : IngestBlob(p) \/ IngestManifest(p)
           \/ \E h \in Blockable : Block(h) \/ LiftBlock(h)
    PROVE  CatalogInv'
<1>1. /\ UNCHANGED <<bucket, putVars, known, rpc, got, floor, top>>
      /\ blobs \subseteq blobs' /\ manifests \subseteq manifests'
      /\ (blocked \cup lifted) \subseteq (blocked \cup lifted)'
      BY Zenon DEF IngestBlob, IngestManifest, Block, LiftBlock, getVars, moderation,
             recordings
<1> USE <1>1 DEF bucket, putVars, CatalogInv
<1>2. ServedIsComplete' BY Zenon DEF ServedIsComplete
<1>3. WritesInOrder' BY Zenon DEF WritesInOrder, At
<1>4. ReadsIndexed' BY Zenon DEF ReadsIndexed
<1>5. BasesChecked' BY Zenon DEF BasesChecked, At
<1>6. AnswersStored' BY Zenon DEF AnswersStored, Current
<1>7. AnswersAreFresh' BY Zenon DEF AnswersAreFresh
<1>8. QED BY <1>2, <1>3, <1>4, <1>5, <1>6, <1>7, Zenon

\* Nothing is stored, answered or under way at first.
LEMMA InitInv == Init => TypeOK /\ CatalogInv
<1> SUFFICES ASSUME Init PROVE TypeOK /\ CatalogInv BY Zenon
<1>1. /\ pointer \in Bundle \cup {NoPointer}
      /\ pointer.doc \notin Envelope
      /\ documents \subseteq Doc
  <2>1. documents = {pointer.doc} \ {NoDoc} BY Zenon DEF Init
  <2>2. CASE pointer = NoPointer
        BY <2>1, <2>2, DocAssumption, Zenon DEF NoPointer, Doc
  <2>3. CASE pointer \in [seq : SeqNo, doc : Legacy]
        BY <2>1, <2>3, DocAssumption, Zenon DEF Bundle, Doc
  <2>4. QED BY <2>2, <2>3, Zenon DEF Init
<1>2. TypeOK
  <2>1. 0 \in 0..MaxSeq BY SeqAssumption
  <2>2. pc \in [Request -> {"new", "sizes", "manifests", "read", "live"}
                              \cup Writing \cup Ended]
        BY Zenon DEF Init
  <2>3. late \in [Request -> Writing \cup {"none"}] BY Zenon DEF Init
  <2>4. index \in [Doc -> (SUBSET Payload) \cup {NoRecord}] BY Zenon DEF Init
  <2>5. /\ rpc \in [Reader -> {"idle", "read", "index", "decide"}]
        /\ got \in [Reader -> Bundle \cup {NoPointer}]
        /\ barred \in [Reader -> SUBSET (Doc \cup Payload)]
        /\ floor \in [Reader -> 0..MaxSeq]
        BY <2>1, Zenon DEF Init
  <2>6. read \in [Request -> Bundle \cup {NoPointer}] BY Zenon DEF Init
  <2>7. QED BY <1>1, <2>1, <2>2, <2>3, <2>4, <2>5, <2>6, Zenon DEF Init, TypeOK
<1>3. NoPointer.doc \notin Envelope /\ Current.seq = 0
      BY <1>1, DocAssumption, Zenon DEF NoPointer, Current
<1>4. ServedIsComplete /\ WritesInOrder /\ ReadsIndexed
  <2>1. ServedIsComplete BY <1>1, Zenon DEF Init, ServedIsComplete
  <2>2. WritesInOrder BY Zenon DEF Init, WritesInOrder, At, Writing
  <2>3. ReadsIndexed BY <1>3, Zenon DEF Init, ReadsIndexed, Doc
  <2>4. QED BY <2>1, <2>2, <2>3, Zenon
<1>5. BasesChecked BY Zenon DEF Init, BasesChecked, At, Writing
<1>6. AnswersStored /\ AnswersAreFresh
  <2>1. top = 0 /\ \A r \in Request : pc[r] = "new" BY Zenon DEF Init
  <2>2. \A c \in Reader : rpc[c] = "idle" /\ got[c] = NoPointer /\ floor[c] = 0
        BY Zenon DEF Init
  <2>3. AnswersStored
    <3>1. \A r \in Request : pc[r] # "written" BY <2>1, Zenon
    <3>2. \A c \in Reader : got[c].doc \notin Envelope BY <2>2, <1>3, Zenon
    <3>3. \A c \in Reader : floor[c] <= top BY <2>1, <2>2
    <3>4. top <= Current.seq BY <2>1, <1>3
    <3>5. QED BY <2>2, <3>1, <3>2, <3>3, <3>4, Zenon DEF AnswersStored
  <2>4. AnswersAreFresh BY <2>2, Zenon DEF AnswersAreFresh
  <2>5. QED BY <2>3, <2>4, Zenon
<1>7. QED BY <1>2, <1>4, <1>5, <1>6, Zenon DEF CatalogInv

\* Every step keeps the types and the invariant.
LEMMA StepInv == TypeOK /\ CatalogInv /\ [Next]_vars => (TypeOK /\ CatalogInv)'
<1> SUFFICES ASSUME TypeOK, CatalogInv, [Next]_vars
             PROVE  (TypeOK /\ CatalogInv)'
    BY Zenon
<1>1. CASE \E r \in Request : Put(r)
  <2> PICK r \in Request : Put(r) BY <1>1, Zenon
  <2>1. QED
        BY Zenon, PutTypes, PutKeepsComplete, PutKeepsOrder, PutKeepsIndexed,
           PutKeepsBases, PutKeepsAnswers, PutKeepsFresh DEF CatalogInv
<1>2. CASE \E c \in Reader : Get(c) BY <1>2, GetTypes, GetKeeps, Zenon
<1>3. CASE \/ \E p \in Payload : IngestBlob(p) \/ IngestManifest(p)
           \/ \E h \in Blockable : Block(h) \/ LiftBlock(h)
      BY <1>3, OtherTypes, OtherKeeps, Zenon
<1>4. CASE UNCHANGED vars
  <2> USE <1>4 DEF vars, bucket, recordings, moderation, putVars, getVars,
                   CatalogInv
  <2>1. TypeOK' BY Zenon DEF TypeOK
  <2>2. ServedIsComplete' BY Zenon DEF ServedIsComplete
  <2>3. WritesInOrder' BY Zenon DEF WritesInOrder, At
  <2>4. ReadsIndexed' BY Zenon DEF ReadsIndexed
  <2>5. BasesChecked' BY Zenon DEF BasesChecked, At
  <2>6. AnswersStored' BY Zenon DEF AnswersStored, Current
  <2>7. AnswersAreFresh' BY Zenon DEF AnswersAreFresh
  <2>8. QED BY <2>1, <2>2, <2>3, <2>4, <2>5, <2>6, <2>7, Zenon
<1>5. QED BY <1>1, <1>2, <1>3, <1>4, Zenon DEF Next

-----------------------------------------------------------------------------
(* Theorems.                                                               *)

\* The invariant holds for any number of requests, readers, documents and
\* recordings: it carries what put_catalog has stored and checked at each of
\* its S3 calls.
THEOREM CatalogInvariant == Spec => [](TypeOK /\ CatalogInv)
BY InitInv, StepInv, PTL DEF Spec

\* A stored pointer always names a document that can be fetched and decided,
\* with its recordings stored.
THEOREM StoredIsComplete == Spec => []ServedIsComplete
<1>1. TypeOK /\ CatalogInv => ServedIsComplete BY Zenon DEF CatalogInv
<1>2. QED BY <1>1, CatalogInvariant, PTL

\* No GET answers with a seq below one answered before it began.
THEOREM ReadersNeverGoBack == Spec => []AnswersAreFresh
<1>1. TypeOK /\ CatalogInv => AnswersAreFresh BY Zenon DEF CatalogInv
<1>2. QED BY <1>1, CatalogInvariant, PTL

\* put_catalog and get_pointer implement the register: the stored seq only
\* increases, and every answer names a stored version.
THEOREM PublishImplementsRegister == Spec => ImplementsRegister
<1>1. Init => Register!RegisterInit
  <2>1. ASSUME Init PROVE Current = NoPointer /\ top = 0
        BY <2>1, DocAssumption, Zenon DEF Init, Current, NoPointer
  <2>2. QED BY <2>1, Zenon DEF Register!RegisterInit
<1>2. ASSUME TypeOK, CatalogInv, [Next]_vars
      PROVE  [Register!Advance \/ Register!Announce]_(Register!registerVars)
  <2> USE <1>2 DEF Register!Advance, Register!Announce, Register!registerVars
  <2>1. CASE \E r \in Request : Put(r)
    <3> PICK r \in Request : Put(r) BY <2>1, Zenon
    <3>1. CASE PutAnswer(r)
      <4>1. /\ Current' = Current
            /\ top' = IF req[r].seq > top THEN req[r].seq ELSE top
            BY <3>1, Zenon DEF PutAnswer, Higher, Current, bucket
      <4>2. req[r].seq \in 1..Current.seq
        <5>1. req[r].seq <= Current.seq
              BY <3>1, Zenon DEF PutAnswer, CatalogInv, AnswersStored
        <5>2. req[r].seq \in Nat /\ req[r].seq # 0 BY SeqTypes, Zenon
        <5>3. QED BY <5>1, <5>2, CurrentSeq
      <4>3. QED BY <4>1, <4>2, Zenon
    <3>2. CASE At(r, {"pointer"}) /\ StorePointer(r) /\ top' = top
      <4>1. [seq |-> req[r].seq, doc |-> req[r].doc]
               \in [seq : SeqNo, doc : Envelope]
            BY Zenon DEF TypeOK
      <4>2. QED BY <3>2, <4>1, PointerAdvances, Zenon
    <3>3. CASE pointer' = pointer /\ top' = top BY <3>3, Zenon DEF Current
    <3>4. QED
          BY <3>1, <3>2, <3>3, Put(r), Zenon
          DEF Put, At, bucket, Admit, CheckSizes, CheckManifests, ReadPointer,
              CheckBase, Refuse, PutDocument, StoreDocument, PutOutboard,
              StoreOutboard, PutIndex, StoreIndex, PutPointer,
              PutPointerConflict, PutPointerRepeated, PutFails, LateWrite
  <2>2. CASE \E c \in Reader : Get(c)
    <3> PICK c \in Reader : Get(c) BY <2>2, Zenon
    <3>1. CASE GetAnswer(c)
      <4>1. /\ Current' = Current
            /\ top' = IF got[c].seq > top THEN got[c].seq ELSE top
            BY <3>1, Zenon DEF GetAnswer, Higher, Current, bucket
      <4>2. got[c].seq \in 1..Current.seq
        <5>1. got[c].doc \in Envelope
              BY <3>1, Zenon DEF GetAnswer, CatalogInv, AnswersAreFresh
        <5>2. got[c].seq <= Current.seq
              BY <5>1, Zenon DEF CatalogInv, AnswersStored
        <5>3. got[c].seq \in Nat /\ got[c].seq # 0
          <6>1. got[c] \in Bundle
            <7>1. got[c] \in Bundle \cup {NoPointer} BY Zenon DEF TypeOK
            <7>2. NoPointer.doc \notin Envelope BY DocAssumption, Zenon DEF NoPointer
            <7>3. QED BY <7>1, <7>2, <5>1, Zenon
          <6>2. QED BY <6>1, SeqNos DEF Bundle
        <5>4. QED BY <5>2, <5>3, CurrentSeq
      <4>3. QED BY <4>1, <4>2, Zenon
    <3>2. CASE UNCHANGED <<pointer, top>> BY <3>2, Zenon DEF Current
    <3>3. QED
          BY <3>1, <3>2, Get(c), Zenon
          DEF Get, bucket, GetBegin, GetRead, GetAttribute, GetRefused
  <2>3. CASE UNCHANGED <<pointer, top>> BY <2>3, Zenon DEF Current
  <2>4. QED
        BY <2>1, <2>2, <2>3, Zenon
        DEF Next, vars, bucket, IngestBlob, IngestManifest, Block, LiftBlock
<1>3. QED
      BY <1>1, <1>2, CatalogInvariant, PTL
      DEF Spec, ImplementsRegister, Register!RegisterSpec

\* A publish that names its base with If-Match or If-None-Match replaces that
\* base and no other.
THEOREM PublishReplacesItsBase == Spec => ReplacesItsBase
<1> DEFINE Replaced ==
        \A r \in Request :
          (pointer' # pointer /\ (pc'[r] # pc[r] \/ late'[r] # late[r])) =>
             LET cond == req[r].cond IN
             /\ cond.ifMatch # {} =>
                   /\ pointer.doc \in Envelope
                   /\ \/ AnyTag \in cond.ifMatch
                      \/ <<"strong", pointer.seq>> \in cond.ifMatch
             /\ AnyTag \in cond.ifNoneMatch =>
                   pointer.doc \notin Envelope \ (blocked \cup lifted)
<1>1. ASSUME TypeOK, CatalogInv, [Next]_vars PROVE [Replaced]_vars
  <2> USE <1>1
  <2> SUFFICES ASSUME NEW r \in Request, pointer' # pointer,
                      pc'[r] # pc[r] \/ late'[r] # late[r]
               PROVE  At(r, {"pointer"}) /\ StorePointer(r)
      BY Zenon DEF CatalogInv, BasesChecked, StorePointer, At, Writing
  <2>1. PICK q \in Request : Put(q)
        BY Zenon DEF Next, vars, bucket, Get, GetBegin, GetRead, GetAttribute,
               GetAnswer, GetRefused, IngestBlob, IngestManifest, Block,
               LiftBlock
  <2>2. q = r BY <2>1, PutFrame, Zenon
  <2>3. QED
        BY <2>1, <2>2, PutEffects, Zenon
        DEF bucket, StoreDocument, StoreOutboard, StoreIndex
<1>2. QED BY <1>1, CatalogInvariant, PTL DEF Spec, ReplacesItsBase

\* What a GET knows of the blocks: those that lasted since it began still
\* hold, and the pointer it goes on with is none of them (is_blocked is asked
\* after the pointer is read, and a lifted block is forgotten by everyone).
BarredSince ==
    \A c \in Reader :
        /\ barred[c] \subseteq blocked
        /\ rpc[c] \in {"index", "decide"} => got[c].doc \notin barred[c]

\* No step of a publish, a read or the moderation view breaks it.
LEMMA BarredStep ==
    ASSUME TypeOK, BarredSince, [Next]_vars PROVE BarredSince'
<1> USE DEF BarredSince, bucket, recordings, moderation, putVars, getVars
<1>t. /\ rpc \in [Reader -> {"idle", "read", "index", "decide"}]
      /\ got \in [Reader -> Bundle \cup {NoPointer}]
      /\ barred \in [Reader -> SUBSET (Doc \cup Payload)]
      BY Zenon DEF TypeOK
<1>1. CASE \E r \in Request : Put(r)
  <2>1. UNCHANGED <<getVars, moderation>>
        BY <1>1, Zenon
        DEF Put, Admit, CheckSizes, CheckManifests, ReadPointer, CheckBase,
            Refuse, PutDocument, PutOutboard, PutIndex, PutPointer, PutAnswer,
            PutPointerConflict, PutPointerRepeated, PutFails, LateWrite
  <2>2. QED BY <2>1, Zenon
<1>2. ASSUME NEW c \in Reader, Get(c) PROVE BarredSince'
  <2>1. CASE GetBegin(c) BY <1>t, <2>1, Zenon DEF GetBegin
  <2>2. CASE GetRead(c) BY <1>t, <2>2, Zenon DEF GetRead
  <2>3. CASE GetAttribute(c) BY <1>t, <2>3, Zenon DEF GetAttribute
  <2>4. CASE GetAnswer(c) BY <1>t, <2>4, Zenon DEF GetAnswer, GetEnd
  <2>5. CASE GetRefused(c) BY <1>t, <2>5, Zenon DEF GetRefused, GetEnd
  <2>6. QED BY <1>2, <2>1, <2>2, <2>3, <2>4, <2>5, Zenon DEF Get
<1>3. CASE \E p \in Payload : IngestBlob(p) \/ IngestManifest(p)
      BY <1>3, Zenon DEF IngestBlob, IngestManifest
<1>4. ASSUME NEW h \in Blockable, Block(h) PROVE BarredSince'
      BY <1>t, <1>4, Zenon DEF Block
<1>5. ASSUME NEW h \in Blockable, LiftBlock(h) PROVE BarredSince'
      BY <1>t, <1>5, Zenon DEF LiftBlock
<1>6. CASE UNCHANGED vars BY <1>6, Zenon DEF vars
<1>7. QED BY <1>1, <1>2, <1>3, <1>4, <1>5, <1>6, Zenon DEF Next

\* A document blocked before a GET began, and blocked ever since, is not what
\* the GET answers with, whatever is published, cached or unblocked meanwhile.
THEOREM BlockedStaysUnanswered == Spec => []BlockedNotAnswered
<1>1. Init => BarredSince BY Zenon DEF Init, BarredSince
<1>2. BarredSince => BlockedNotAnswered BY Zenon DEF BarredSince, BlockedNotAnswered
<1>3. QED BY <1>1, <1>2, BarredStep, CatalogInvariant, PTL DEF Spec

-----------------------------------------------------------------------------
(* The moderation records, for any number of nodes, keys and requests and  *)
(* any bound on faults: what is stored is audited, views hold only active  *)
(* records, and only a stale reload forgets one.                           *)

ModeratedInv == ModerationTypeOK /\ ModerationInv

\* Missing is not a record: its set is no request.
LEMMA MissingIsNone == Missing \notin Record
  BY NoOpAssumption, Zenon DEF Missing, Record

\* Active keeps a record that is not lifted and drops the others.
LEMMA ActiveFacts ==
    ASSUME NEW r \in Record \cup {Missing}
    PROVE  /\ Active(r) \in Record \cup {Missing}
           /\ Active(r) # Missing => Active(r) = r /\ r.lift = NoOp
           /\ r # Missing /\ r.lift = NoOp => Active(r) # Missing
  BY Zenon DEF Active

\* One key of one node's view, and of its reload.
LEMMA ActiveAt ==
    ASSUME ViewsAreActive, NEW n \in Node, NEW k \in Key
    PROVE  /\ view[n][k] # Missing => /\ view[n][k].lift = NoOp
                                      /\ <<k, view[n][k]>> \in audited
           /\ fresh[n][k] # Missing => /\ fresh[n][k].lift = NoOp
                                       /\ <<k, fresh[n][k]>> \in audited
  BY Zenon DEF ViewsAreActive

\* The state at startup satisfies the invariant: nothing is stored or viewed.
LEMMA ModerationStarts == ModerationInit => ModeratedInv
  <1> SUFFICES ASSUME ModerationInit PROVE ModeratedInv
    BY Zenon
  <1> USE DEF ModerationInit
  <1>1. ModerationTypeOK
    BY FailuresAssumption, RankAssumption DEF ModerationTypeOK, Idle
  <1>2. RecordsAudited /\ ViewsAreActive
    BY Zenon DEF RecordsAudited, ViewsAreActive, Idle
  <1>3. JobsAreOwn
    BY Zenon DEF JobsAreOwn
  <1>4. RecordsTraced
    BY Zenon DEF RecordsTraced, Idle, Missing
  <1> QED
    BY <1>1, <1>2, <1>3, <1>4, Zenon DEF ModeratedInv, ModerationInv

\* A request that begins writes a record of its own or lifts one of the view.
LEMMA BeginInv ==
    ASSUME ModeratedInv, NEW o \in Op, NEW rec \in Record, rec.lift \in {o, NoOp},
           Begin(o, rec)
    PROVE  ModeratedInv'
  <1> USE MissingIsNone DEF ModeratedInv, ModerationInv, Begin
  <1>1. ModerationTypeOK'
    <2>1. job' \in [Op -> [node : Node, key : Key, rec : Record \cup {Missing}]]
      <3>1. job \in [Op -> [node : Node, key : Key, rec : Record \cup {Missing}]]
        BY Zenon DEF ModerationTypeOK
      <3>2. job' = [job EXCEPT ![o].rec = rec]
        BY Zenon
      <3> HIDE DEF ModeratedInv, Begin
      <3> QED
        BY <3>1, <3>2, Zenon
    <2>2. phase' \in [Op -> {"new", "audit", "persist", "apply", "done", "failed"}]
      BY Zenon DEF ModerationTypeOK
    <2> QED
      BY <2>1, <2>2, Zenon DEF ModerationTypeOK, reloadVars
  <1>2. /\ phase[o] = "new" /\ o \notin delayed /\ job[o].rec = Missing
        /\ job'[o].key = job[o].key /\ job'[o].rec = rec /\ phase'[o] = "audit"
        /\ \A p \in Op : p # o => job'[p] = job[p] /\ phase'[p] = phase[p]
        /\ \A p \in Op : job'[p].key = job[p].key
    BY Zenon DEF ModerationTypeOK, JobsAreOwn
  <1>3. RecordsAudited'
    BY <1>2, Zenon DEF RecordsAudited, ModerationTypeOK
  <1>4. ViewsAreActive'
    BY Zenon DEF ViewsAreActive, reloadVars
  <1>5. JobsAreOwn'
    BY <1>2 DEF JobsAreOwn, ModerationTypeOK
  <1>6. RecordsTraced'
    <2>1. \A k \in Key : records[k].lift # NoOp =>
             \E p \in Op : /\ job'[p].key = k /\ job'[p].rec = records[k]
                           /\ records[k].lift = p
      <3> SUFFICES ASSUME NEW k \in Key, records[k].lift # NoOp
                   PROVE  \E p \in Op : /\ job'[p].key = k
                                        /\ job'[p].rec = records[k]
                                        /\ records[k].lift = p
        BY Zenon
      <3>1. PICK p \in Op : /\ job[p].key = k /\ job[p].rec = records[k]
                            /\ records[k].lift = p
        BY Zenon DEF RecordsTraced
      <3>2. p # o
        BY <3>1, <1>2 DEF Missing
      <3> QED
        BY <3>1, <3>2, <1>2
    <2> QED
      BY <2>1, <1>2 DEF RecordsTraced, reloadVars
  <1> QED
    BY <1>1, <1>3, <1>4, <1>5, <1>6, Zenon

\* A write of request o's record, when it is audited and not "new".
LEMMA StoreFacts ==
    ASSUME ModeratedInv, NEW o \in Op, phase[o] # "new", Store(o),
           <<job[o].key, job[o].rec>> \in audited,
           UNCHANGED <<audited, view, up, todo, fresh, job>>
    PROVE  /\ records' \in [Key -> Record \cup {Missing}]
           /\ overtaken' \in [Node -> SUBSET Key]
           /\ \A k \in Key : records'[k] # Missing => <<k, records'[k]>> \in audited'
           /\ \A k \in Key : records[k] # Missing => records'[k] # Missing
           /\ records'[job[o].key] # Missing
           /\ \A k \in Key : records'[k].lift # NoOp =>
                 \E p \in Op : /\ job'[p].key = k /\ job'[p].rec = records'[k]
                               /\ records'[k].lift = p
           /\ \A n \in Node, k \in Key :
                 /\ view'[n][k] # Missing => records'[k] # Missing
                 /\ fresh'[n][k] # Missing => records'[k] # Missing
                 /\ (/\ k \notin todo'[n]
                     /\ fresh'[n][k] = Missing
                     /\ records'[k] # Missing
                     /\ records'[k].lift = NoOp) => k \in overtaken'[n]
  <1> USE MissingIsNone DEF ModeratedInv, ModerationInv
  <1>1. /\ job[o].key \in Key /\ job[o].rec \in Record
        /\ job[o].rec.lift \in {o, NoOp}
    BY Zenon DEF ModerationTypeOK, JobsAreOwn
  <1>2. /\ records' \in [Key -> Record \cup {Missing}]
        /\ records'[job[o].key] = job[o].rec
        /\ \A k \in Key : k # job[o].key => records'[k] = records[k]
    BY <1>1, Zenon DEF ModerationTypeOK, Store
  <1>3. overtaken' \in [Node -> SUBSET Key]
    BY <1>1, Zenon DEF ModerationTypeOK, Store
  <1>4. \A n \in Node, k \in Key : k \in overtaken[n] => k \in overtaken'[n]
    BY Zenon DEF Store, ModerationTypeOK
  <1>5. \A n \in Node : job[o].key \notin todo[n] => job[o].key \in overtaken'[n]
    BY Zenon DEF Store, ModerationTypeOK
  <1>6. \A k \in Key : records'[k] # Missing => <<k, records'[k]>> \in audited'
    BY <1>1, <1>2, Zenon DEF RecordsAudited
  <1>7. \A k \in Key : records[k] # Missing => records'[k] # Missing
    BY <1>1, <1>2, Zenon
  <1>8. \A k \in Key : records'[k].lift # NoOp =>
           \E p \in Op : /\ job'[p].key = k /\ job'[p].rec = records'[k]
                         /\ records'[k].lift = p
    BY <1>1, <1>2 DEF RecordsTraced
  <1>9. \A n \in Node, k \in Key :
           /\ view'[n][k] # Missing => records'[k] # Missing
           /\ fresh'[n][k] # Missing => records'[k] # Missing
           /\ (/\ k \notin todo'[n]
               /\ fresh'[n][k] = Missing
               /\ records'[k] # Missing
               /\ records'[k].lift = NoOp) => k \in overtaken'[n]
    BY <1>2, <1>4, <1>5, <1>7 DEF RecordsTraced
  <1> QED
    BY <1>1, <1>2, <1>3, <1>6, <1>7, <1>8, <1>9

\* The steps of a request preserve the invariant.
LEMMA OpInv ==
    ASSUME ModeratedInv, NEW o \in Op, OpStep(o)
    PROVE  ModeratedInv'
  <1> USE MissingIsNone DEF ModeratedInv, ModerationInv
  <1>1. CASE Set(o)
    <2>1. PICK hide \in BOOLEAN : Begin(o, [set |-> o, hide |-> hide, lift |-> NoOp])
      BY <1>1, Zenon DEF Set
    <2> QED
      BY <2>1, BeginInv, Zenon DEF Record
  <1>2. CASE Lift(o)
    <2> DEFINE rec == view[job[o].node][job[o].key]
    <2>1. rec \in Record
      BY <1>2 DEF Lift, ModerationTypeOK
    <2>2. [rec EXCEPT !.lift = o] \in Record
      BY <2>1, Zenon DEF Record
    <2>3. [rec EXCEPT !.lift = o].lift = o
      BY <2>1, Zenon DEF Record
    <2> QED
      BY <1>2, <2>2, <2>3, BeginInv, Zenon DEF Lift
  <1>3. CASE Audit(o)
    <2> USE <1>3 DEF Audit, reloadVars
    <2>0. /\ job[o].key \in Key /\ job[o].rec \in Record
      BY Zenon DEF ModerationTypeOK, JobsAreOwn
    <2>1. ModerationTypeOK'
      BY <2>0 DEF ModerationTypeOK
    <2>2. RecordsAudited'
      BY Zenon DEF RecordsAudited, ModerationTypeOK
    <2>3. ViewsAreActive'
      BY Zenon DEF ViewsAreActive
    <2>4. JobsAreOwn'
      BY Zenon DEF JobsAreOwn, ModerationTypeOK
    <2>5. RecordsTraced'
      BY DEF RecordsTraced, ModerationTypeOK
    <2> QED
      BY <2>1, <2>2, <2>3, <2>4, <2>5, Zenon
  <1>4. CASE Persist(o)
    <2> USE <1>4 DEF Persist
    <2>1. <<job[o].key, job[o].rec>> \in audited
      BY Zenon DEF RecordsAudited
    <2>2. /\ phase'[o] = "apply"
          /\ \A p \in Op : p # o => phase'[p] = phase[p]
      BY Zenon DEF ModerationTypeOK
    <2>3. ModerationTypeOK'
      BY <2>1, StoreFacts, Zenon DEF ModerationTypeOK
    <2>4. RecordsAudited'
      BY <2>1, <2>2, StoreFacts, Zenon DEF RecordsAudited
    <2>5. ViewsAreActive'
      BY Zenon DEF ViewsAreActive
    <2>6. JobsAreOwn'
      BY <2>2, Zenon DEF JobsAreOwn
    <2>7. \A p \in Op : phase'[p] \in {"apply", "done"} =>
             records'[job'[p].key] # Missing
      <3>1. \A p \in Op : job[p].key \in Key
        BY Zenon DEF ModerationTypeOK
      <3> QED
        BY <2>1, <2>2, <3>1, StoreFacts DEF RecordsTraced
    <2>8. RecordsTraced'
      BY <2>1, <2>7, StoreFacts, Zenon DEF RecordsTraced
    <2> QED
      BY <2>3, <2>4, <2>5, <2>6, <2>8, Zenon
  <1>5. CASE WriteFails(o)
    <2> USE <1>5 DEF WriteFails, reloadVars
    <2>1. ModerationTypeOK'
      BY FailuresAssumption DEF ModerationTypeOK
    <2>2. RecordsAudited'
      BY Zenon DEF RecordsAudited, ModerationTypeOK
    <2>3. ViewsAreActive'
      BY Zenon DEF ViewsAreActive
    <2>4. JobsAreOwn'
      BY Zenon DEF JobsAreOwn, ModerationTypeOK
    <2>5. RecordsTraced'
      BY DEF RecordsTraced, ModerationTypeOK
    <2> QED
      BY <2>1, <2>2, <2>3, <2>4, <2>5, Zenon
  <1>6. CASE LateRecord(o)
    <2> USE <1>6 DEF LateRecord
    <2>1. <<job[o].key, job[o].rec>> \in audited /\ phase[o] # "new"
      BY Zenon DEF RecordsAudited, JobsAreOwn
    <2>2. ModerationTypeOK'
      BY <2>1, StoreFacts, Zenon DEF ModerationTypeOK
    <2>3. RecordsAudited'
      BY <2>1, StoreFacts, Zenon DEF RecordsAudited
    <2>4. ViewsAreActive'
      BY Zenon DEF ViewsAreActive
    <2>5. JobsAreOwn'
      BY Zenon DEF JobsAreOwn
    <2>6. \A p \in Op : phase'[p] \in {"apply", "done"} =>
             records'[job'[p].key] # Missing
      <3>1. \A p \in Op : job[p].key \in Key
        BY Zenon DEF ModerationTypeOK
      <3> QED
        BY <2>1, <3>1, StoreFacts, Zenon DEF RecordsTraced
    <2>7. RecordsTraced'
      BY <2>1, <2>6, StoreFacts, Zenon DEF RecordsTraced
    <2> QED
      BY <2>2, <2>3, <2>4, <2>5, <2>7, Zenon
  <1>7. CASE Apply(o)
    <2> USE <1>7 DEF Apply, reloadVars
    <2>0. /\ job[o].node \in Node /\ job[o].key \in Key
          /\ job[o].rec \in Record
          /\ <<job[o].key, job[o].rec>> \in audited
          /\ records[job[o].key] # Missing
      BY DEF ModerationTypeOK, JobsAreOwn, RecordsAudited, RecordsTraced
    <2>1. /\ view' \in [Node -> [Key -> Record \cup {Missing}]]
          /\ \A n \in Node, k \in Key :
                view'[n][k] = IF n = job[o].node /\ k = job[o].key
                              THEN Active(job[o].rec) ELSE view[n][k]
      BY <2>0, ActiveFacts, Zenon DEF ModerationTypeOK
    <2>2. ModerationTypeOK'
      BY <2>1, Zenon DEF ModerationTypeOK
    <2>3. RecordsAudited'
      BY Zenon DEF RecordsAudited, ModerationTypeOK
    <2>4. ViewsAreActive'
      <3> SUFFICES ASSUME NEW n \in Node, NEW k \in Key
                   PROVE  /\ view'[n][k] # Missing =>
                                /\ view'[n][k].lift = NoOp
                                /\ <<k, view'[n][k]>> \in audited
                          /\ fresh[n][k] # Missing =>
                                /\ fresh[n][k].lift = NoOp
                                /\ <<k, fresh[n][k]>> \in audited
        BY Zenon DEF ViewsAreActive
      <3>1. CASE n = job[o].node /\ k = job[o].key
        <4>1. view'[n][k] = Active(job[o].rec)
          BY <3>1, <2>1, Zenon
        <4>2. Active(job[o].rec) # Missing =>
                 Active(job[o].rec) = job[o].rec /\ job[o].rec.lift = NoOp
          BY <2>0, ActiveFacts, Zenon
        <4> QED
          BY <3>1, <2>0, <4>1, <4>2, ActiveAt, Zenon
      <3>2. CASE ~(n = job[o].node /\ k = job[o].key)
        BY <3>2, <2>1, ActiveAt
      <3> QED
        BY <3>1, <3>2, Zenon
    <2>5. JobsAreOwn'
      BY Zenon DEF JobsAreOwn, ModerationTypeOK
    <2>6. RecordsTraced'
      BY <2>0, <2>1 DEF RecordsTraced, ModerationTypeOK
    <2> QED
      BY <2>2, <2>3, <2>4, <2>5, <2>6, Zenon
  <1> QED
    BY <1>1, <1>2, <1>3, <1>4, <1>5, <1>6, <1>7, Zenon DEF OpStep

\* What Again leaves: nothing read yet, everything to read.
LEMMA AgainFacts ==
    ASSUME ModerationTypeOK, NEW n \in Node, Again(n)
    PROVE  /\ todo' \in [Node -> SUBSET Key]
           /\ fresh' \in [Node -> [Key -> Record \cup {Missing}]]
           /\ overtaken' \in [Node -> SUBSET Key]
           /\ todo'[n] = Key
           /\ \A k \in Key : fresh'[n][k] = Missing
           /\ \A m \in Node : m # n => /\ todo'[m] = todo[m]
                                       /\ fresh'[m] = fresh[m]
                                       /\ overtaken'[m] = overtaken[m]
  BY Zenon DEF ModerationTypeOK, Again, Idle

\* A reload that begins again keeps the trace, if views only lose records or
\* take those of a finished reload.
LEMMA AgainTraced ==
    ASSUME ModeratedInv, NEW n \in Node, Again(n), UNCHANGED <<records, job>>,
           \A o \in Op : phase'[o] \in {"apply", "done"} => phase'[o] = phase[o],
           \A m \in Node, k \in Key :
              view'[m][k] \in {view[m][k], fresh[m][k], Missing}
    PROVE  RecordsTraced'
  <1> USE DEF ModeratedInv, ModerationInv
  <1>1. \A k \in Key : records'[k].lift # NoOp =>
           \E p \in Op : /\ job'[p].key = k /\ job'[p].rec = records'[k]
                         /\ records'[k].lift = p
    BY Zenon DEF RecordsTraced
  <1>2. \A o \in Op : phase'[o] \in {"apply", "done"} =>
           records'[job'[o].key] # Missing
    BY Zenon DEF RecordsTraced
  <1>3. \A m \in Node, k \in Key :
           /\ view'[m][k] # Missing => records'[k] # Missing
           /\ fresh'[m][k] # Missing => records'[k] # Missing
    BY AgainFacts DEF RecordsTraced
  <1>4. \A m \in Node, k \in Key :
           (/\ k \notin todo'[m]
            /\ fresh'[m][k] = Missing
            /\ records'[k] # Missing
            /\ records'[k].lift = NoOp) => k \in overtaken'[m]
    BY AgainFacts DEF RecordsTraced
  <1> HIDE DEF ModeratedInv, ModerationInv
  <1> QED
    BY <1>1, <1>2, <1>3, <1>4 DEF RecordsTraced

\* Likewise it keeps views and reads active.
LEMMA AgainActive ==
    ASSUME ModeratedInv, NEW n \in Node, Again(n), UNCHANGED audited,
           \A m \in Node, k \in Key :
              view'[m][k] \in {view[m][k], fresh[m][k], Missing}
    PROVE  ViewsAreActive'
  <1> USE DEF ModeratedInv, ModerationInv
  <1> SUFFICES ASSUME NEW m \in Node, NEW k \in Key
               PROVE  /\ view'[m][k] # Missing =>
                            /\ view'[m][k].lift = NoOp
                            /\ <<k, view'[m][k]>> \in audited
                      /\ fresh'[m][k] # Missing =>
                            /\ fresh'[m][k].lift = NoOp
                            /\ <<k, fresh'[m][k]>> \in audited
    BY Zenon DEF ViewsAreActive
  <1>1. fresh'[m][k] \in {fresh[m][k], Missing}
    BY AgainFacts, Zenon
  <1>2. view'[m][k] \in {view[m][k], fresh[m][k], Missing} /\ ViewsAreActive
    BY Zenon
  <1> HIDE DEF ModeratedInv, ModerationInv
  <1>3. /\ view[m][k] # Missing => view[m][k].lift = NoOp /\ <<k, view[m][k]>> \in audited
        /\ fresh[m][k] # Missing => fresh[m][k].lift = NoOp /\ <<k, fresh[m][k]>> \in audited
    BY <1>2, ActiveAt, Zenon
  <1> QED
    BY <1>1, <1>2, <1>3, Zenon

\* The steps of a node's reload, and its restart, preserve the invariant.
LEMMA NodeInv ==
    ASSUME ModeratedInv, NEW n \in Node,
           ReloadStep(n) \/ ReloadFails(n) \/ RestartNode(n)
    PROVE  ModeratedInv'
  <1> USE MissingIsNone DEF ModeratedInv, ModerationInv
  <1>1. ASSUME NEW k \in Key, ReloadRead(n, k) PROVE ModeratedInv'
    <2> USE <1>1 DEF ReloadRead, opVars
    <2>1. /\ fresh' \in [Node -> [Key -> Record \cup {Missing}]]
          /\ \A m \in Node, j \in Key :
                fresh'[m][j] = IF m = n /\ j = k THEN Active(records[k])
                               ELSE fresh[m][j]
      BY ActiveFacts, Zenon DEF ModerationTypeOK
    <2>2. /\ todo' \in [Node -> SUBSET Key]
          /\ \A m \in Node, j \in Key :
                j \notin todo'[m] => j \notin todo[m] \/ (m = n /\ j = k)
      BY Zenon DEF ModerationTypeOK
    <2>3. ModerationTypeOK'
      BY <2>1, <2>2, Zenon DEF ModerationTypeOK
    <2>4. RecordsAudited'
      BY Zenon DEF RecordsAudited
    <2>5. records[k] \in Record \cup {Missing}
      BY Zenon DEF ModerationTypeOK
    <2>6. ViewsAreActive'
      <3> SUFFICES ASSUME NEW m \in Node, NEW j \in Key
                   PROVE  fresh'[m][j] # Missing =>
                             /\ fresh'[m][j].lift = NoOp
                             /\ <<j, fresh'[m][j]>> \in audited
        BY Zenon DEF ViewsAreActive
      <3>1. CASE m = n /\ j = k
        BY <3>1, <2>1, <2>5, ActiveFacts, Zenon DEF RecordsAudited
      <3>2. CASE ~(m = n /\ j = k)
        <4>1. fresh'[m][j] = fresh[m][j]
          BY <3>2, <2>1, Zenon
        <4>2. fresh[m][j] # Missing => /\ fresh[m][j].lift = NoOp
                                       /\ <<j, fresh[m][j]>> \in audited
          BY ActiveAt, Zenon
        <4> QED
          BY <4>1, <4>2, Zenon
      <3> QED
        BY <3>1, <3>2, Zenon
    <2>7. JobsAreOwn'
      BY Zenon DEF JobsAreOwn
    <2>8. RecordsTraced'
      BY <2>1, <2>2, <2>5, ActiveFacts DEF RecordsTraced
    <2> QED
      BY <2>3, <2>4, <2>6, <2>7, <2>8, Zenon
  <1>2. CASE ReloadApply(n)
    <2> USE <1>2 DEF ReloadApply, opVars
    <2>1. /\ view' \in [Node -> [Key -> Record \cup {Missing}]]
          /\ \A m \in Node : view'[m] = IF m = n THEN fresh[m] ELSE view[m]
      BY Zenon DEF ModerationTypeOK
    <2>2. ModerationTypeOK'
      BY <2>1, AgainFacts, Zenon DEF ModerationTypeOK
    <2>3. RecordsAudited'
      BY Zenon DEF RecordsAudited
    <2>4. ViewsAreActive'
      BY <2>1, AgainActive, Zenon
    <2>5. JobsAreOwn'
      BY Zenon DEF JobsAreOwn
    <2>6. RecordsTraced'
      BY <2>1, AgainTraced, Zenon
    <2> QED
      BY <2>2, <2>3, <2>4, <2>5, <2>6, Zenon
  <1>3. CASE ReloadFails(n)
    <2> USE <1>3 DEF ReloadFails, opVars
    <2>1. ModerationTypeOK'
      BY AgainFacts, FailuresAssumption DEF ModerationTypeOK
    <2>2. RecordsAudited'
      BY Zenon DEF RecordsAudited
    <2>3. ViewsAreActive'
      <3>1. Again(n) /\ UNCHANGED <<audited, view>>
        BY Zenon
      <3> QED
        BY <3>1, AgainActive, Zenon
    <2>4. JobsAreOwn'
      BY Zenon DEF JobsAreOwn
    <2>5. RecordsTraced'
      BY AgainTraced, Zenon
    <2> QED
      BY <2>1, <2>2, <2>3, <2>4, <2>5, Zenon
  <1>4. CASE RestartNode(n)
    <2> USE <1>4 DEF RestartNode
    <2>1. /\ view' \in [Node -> [Key -> Record \cup {Missing}]]
          /\ \A k \in Key : view'[n][k] = Missing
          /\ \A m \in Node : m # n => view'[m] = view[m]
      BY Zenon DEF ModerationTypeOK, Idle
    <2>2. /\ phase' \in [Op -> {"new", "audit", "persist", "apply", "done", "failed"}]
          /\ \A o \in Op : \/ phase'[o] = phase[o]
                           \/ phase'[o] = "failed" /\ phase[o] # "new"
      BY Zenon DEF ModerationTypeOK
    <2>3. ModerationTypeOK'
      BY <2>1, <2>2, AgainFacts, FailuresAssumption DEF ModerationTypeOK
    <2>4. RecordsAudited'
      BY <2>2, Zenon DEF RecordsAudited
    <2>5. ViewsAreActive'
      BY <2>1, AgainActive, Zenon
    <2>6. \A o \in delayed' : phase'[o] = "failed"
      BY <2>2, Zenon DEF JobsAreOwn, ModerationTypeOK
    <2>7. JobsAreOwn'
      BY <2>2, <2>6, Zenon DEF JobsAreOwn
    <2>8. RecordsTraced'
      BY <2>1, <2>2, AgainTraced, Zenon
    <2> QED
      BY <2>3, <2>4, <2>5, <2>7, <2>8, Zenon
  <1> QED
    BY <1>1, <1>2, <1>3, <1>4, Zenon DEF ReloadStep

\* Every stored record is audited, every view and every read of a reload holds
\* only active, audited records, and each of them is traced to the store: for
\* any number of nodes, keys, requests and faults.
THEOREM ModerationInvariant == ModerationSpec => [](ModerationTypeOK /\ ModerationInv)
  <1>1. ModerationInit => ModeratedInv
    BY ModerationStarts, Zenon
  <1>2. ModeratedInv /\ [ModerationNext]_moderationVars => ModeratedInv'
    <2> SUFFICES ASSUME ModeratedInv, [ModerationNext]_moderationVars PROVE ModeratedInv'
      BY Zenon
    <2>1. CASE ModerationNext
      BY <2>1, OpInv, NodeInv, Zenon DEF ModerationNext
    <2>2. CASE UNCHANGED moderationVars
      <3> USE <2>2 DEF moderationVars, reloadVars, opVars, ModeratedInv, ModerationInv
      <3>1. ModerationTypeOK'
        BY Zenon DEF ModerationTypeOK
      <3>2. RecordsAudited' /\ ViewsAreActive'
        BY Zenon DEF RecordsAudited, ViewsAreActive
      <3>3. JobsAreOwn'
        BY Zenon DEF JobsAreOwn
      <3>4. RecordsTraced'
        BY Zenon DEF RecordsTraced, LiftBegun
      <3> QED
        BY <3>1, <3>2, <3>3, <3>4, Zenon
    <2> QED
      BY <2>1, <2>2, Zenon
  <1> QED
    BY <1>1, <1>2, PTL DEF ModerationSpec, ModeratedInv

\* Audit before persist: whatever is stored has its audit event.
THEOREM StoredIsAudited == ModerationSpec => []RecordsAudited
  BY ModerationInvariant, PTL DEF ModerationInv

\* A lifted record is in no view.
THEOREM LiftedIsNotViewed == ModerationSpec => []ViewsAreActive
  BY ModerationInvariant, PTL DEF ModerationInv

\* Without a lift, only a reload that read too early makes a running node
\* forget a suspension or a block.
THEOREM OnlyStaleReloads == ModerationSpec => OnlyStaleReloadsForget
  <1> DEFINE Forgets(n, k) ==
        (/\ up[n] /\ up'[n]
         /\ ~LiftBegun(k)
         /\ view[n][k] # Missing
         /\ view'[n][k] = Missing) => k \in overtaken[n]
  <1>1. ASSUME ModeratedInv, [ModerationNext]_moderationVars, NEW n \in Node, NEW k \in Key
        PROVE  Forgets(n, k)
    <2> SUFFICES ASSUME up[n], up'[n], ~LiftBegun(k), view[n][k] # Missing,
                        view'[n][k] = Missing
                 PROVE  k \in overtaken[n]
      BY Zenon
    <2> USE <1>1, MissingIsNone DEF ModeratedInv, ModerationInv
    <2>1. records[k] # Missing /\ records[k].lift = NoOp
      BY DEF RecordsTraced, LiftBegun
    <2>2. ASSUME NEW o \in Op, OpStep(o) PROVE FALSE
      <3>1. CASE Apply(o)
        <4>1. job[o].node = n /\ job[o].key = k /\ Active(job[o].rec) = Missing
          BY <3>1, Zenon DEF Apply, ModerationTypeOK
        <4>2. job[o].rec # Missing /\ job[o].rec.lift \in {o, NoOp}
          BY <3>1, Zenon DEF Apply, JobsAreOwn
        <4> QED
          BY <4>1, <4>2, Zenon DEF Active, LiftBegun
      <3>2. CASE Set(o) \/ Lift(o) \/ Audit(o) \/ Persist(o) \/ WriteFails(o)
                 \/ LateRecord(o)
        BY <3>2, Zenon DEF Set, Lift, Begin, Audit, Persist, WriteFails, LateRecord
      <3> QED
        BY <2>2, <3>1, <3>2, Zenon DEF OpStep
    <2>3. ASSUME NEW m \in Node, ReloadApply(m) PROVE k \in overtaken[n]
      <3>1. m = n /\ fresh[n][k] = Missing /\ k \notin todo[n]
        BY <2>3, Zenon DEF ReloadApply, ModerationTypeOK
      <3> QED
        BY <3>1, <2>1, Zenon DEF RecordsTraced
    <2>4. ASSUME NEW m \in Node, ReloadFails(m) \/ \E j \in Key : ReloadRead(m, j)
          PROVE  FALSE
      BY <2>4, Zenon DEF ReloadFails, ReloadRead
    <2>5. ASSUME NEW m \in Node, RestartNode(m) PROVE FALSE
      BY <2>5, Zenon DEF RestartNode, ModerationTypeOK
    <2>6. CASE UNCHANGED moderationVars
      BY <2>6, Zenon DEF moderationVars
    <2> QED
      BY <2>2, <2>3, <2>4, <2>5, <2>6, Zenon DEF ModerationNext, ReloadStep
  <1>2. ModeratedInv /\ [ModerationNext]_moderationVars =>
           [\A n \in Node, k \in Key : Forgets(n, k)]_moderationVars
    BY <1>1, Zenon
  <1>3. ModerationSpec => []ModeratedInv
    BY ModerationInvariant, PTL DEF ModeratedInv
  <1> QED
    BY <1>2, <1>3, PTL DEF ModerationSpec, OnlyStaleReloadsForget

\* A write of a record overtakes every reload that has read its key.
LEMMA StoreKeepsReads ==
    ASSUME ModeratedInv, ReadsAreCurrent, NEW o \in Op, Store(o), UNCHANGED <<todo, fresh>>
    PROVE  ReadsAreCurrent'
  <1> SUFFICES ASSUME NEW n \in Node, NEW k \in Key, k \notin todo[n]
               PROVE  fresh'[n][k] = Active(records'[k]) \/ k \in overtaken'[n]
    BY Zenon DEF ReadsAreCurrent
  <1>1. fresh[n][k] = Active(records[k]) \/ k \in overtaken[n]
    BY Zenon DEF ReadsAreCurrent
  <1>2. CASE k = job[o].key
    BY <1>2, Zenon DEF Store
  <1>3. CASE k # job[o].key
    <2>1. records'[k] = records[k]
      BY <1>3, Zenon DEF Store, ModeratedInv, ModerationTypeOK
    <2>2. k \in overtaken[n] => k \in overtaken'[n]
      BY Zenon DEF Store
    <2> QED
      BY <1>1, <2>1, <2>2, Zenon
  <1> QED
    BY <1>2, <1>3, Zenon

\* A step of a request leaves what reloads have read current or overtaken.
LEMMA OpKeepsReads ==
    ASSUME ModeratedInv, ReadsAreCurrent, NEW o \in Op, OpStep(o) PROVE ReadsAreCurrent'
  <1>1. CASE Persist(o) \/ LateRecord(o)
    BY <1>1, StoreKeepsReads, Zenon DEF Persist, LateRecord
  <1>2. CASE Set(o) \/ Lift(o) \/ Audit(o) \/ WriteFails(o) \/ Apply(o)
    <2>1. UNCHANGED <<records, todo, fresh, overtaken>>
      BY <1>2, Zenon DEF Set, Lift, Begin, Audit, WriteFails, Apply, reloadVars
    <2> QED
      BY <2>1, Zenon DEF ReadsAreCurrent
  <1> QED
    BY <1>1, <1>2, Zenon DEF OpStep

\* A reload that begins again has read nothing yet.
LEMMA AgainKeepsReads ==
    ASSUME ModeratedInv, ReadsAreCurrent, NEW n \in Node, Again(n), UNCHANGED records
    PROVE  ReadsAreCurrent'
  <1>1. ModerationTypeOK
    BY Zenon DEF ModeratedInv
  <1>2. ASSUME NEW m \in Node, NEW k \in Key, k \notin todo'[m]
        PROVE  fresh'[m][k] = Active(records'[k]) \/ k \in overtaken'[m]
    <2>1. /\ m # n /\ todo'[m] = todo[m]
          /\ fresh'[m] = fresh[m] /\ overtaken'[m] = overtaken[m]
      BY <1>1, <1>2, AgainFacts, Zenon
    <2> QED
      BY <1>2, <2>1, Zenon DEF ReadsAreCurrent
  <1> QED
    BY <1>2, Zenon DEF ReadsAreCurrent

\* A read takes what S3 holds then.
LEMMA ReadKeepsReads ==
    ASSUME ModeratedInv, ReadsAreCurrent, NEW n \in Node, NEW k \in Key, ReloadRead(n, k)
    PROVE  ReadsAreCurrent'
  <1>1. ASSUME NEW m \in Node, NEW j \in Key, j \notin todo'[m]
        PROVE  fresh'[m][j] = Active(records'[j]) \/ j \in overtaken'[m]
    <2>1. UNCHANGED <<records, overtaken>>
      BY Zenon DEF ReloadRead
    <2>2. CASE m = n /\ j = k
      BY <2>1, <2>2, Zenon DEF ReloadRead, ModeratedInv, ModerationTypeOK
    <2>3. CASE ~ (m = n /\ j = k)
      <3>1. j \notin todo[m] /\ fresh'[m][j] = fresh[m][j]
        BY <1>1, <2>3, Zenon DEF ReloadRead, ModeratedInv, ModerationTypeOK
      <3> QED
        BY <2>1, <3>1, Zenon DEF ReadsAreCurrent
    <2> QED
      BY <2>2, <2>3, Zenon
  <1> QED
    BY <1>1, Zenon DEF ReadsAreCurrent

\* What a reload has read is what S3 holds, but for the keys written since.
THEOREM ReadsStayCurrent == ModerationSpec => []ReadsAreCurrent
  <1>1. ModerationInit => ReadsAreCurrent
    BY Zenon DEF ModerationInit, ReadsAreCurrent
  <1>2. ASSUME ModeratedInv, ReadsAreCurrent, [ModerationNext]_moderationVars
        PROVE  ReadsAreCurrent'
    <2>1. ASSUME NEW n \in Node, ReloadApply(n) \/ ReloadFails(n) \/ RestartNode(n)
          PROVE  ReadsAreCurrent'
      BY <1>2, <2>1, AgainKeepsReads, Zenon DEF ReloadApply, ReloadFails, RestartNode
    <2>2. CASE UNCHANGED moderationVars
      BY <1>2, <2>2, Zenon DEF moderationVars, reloadVars, ReadsAreCurrent
    <2> QED
      BY <1>2, <2>1, <2>2, OpKeepsReads, ReadKeepsReads, Zenon DEF ModerationNext, ReloadStep
  <1>3. ModerationSpec => []ModeratedInv
    BY ModerationInvariant, PTL DEF ModeratedInv
  <1> QED
    BY <1>1, <1>2, <1>3, PTL DEF ModerationSpec

\* A completed reload leaves the view as S3 is, but for what was written after
\* it was read.
LEMMA AppliedIsCurrent ==
    ASSUME ModeratedInv, ReadsAreCurrent, NEW n \in Node, ReloadApply(n)
    PROVE  /\ \A k \in Key \ overtaken[n] : view'[n][k] = Active(records'[k])
           /\ up'[n] /\ overtaken'[n] = {} /\ UNCHANGED records
           /\ \A m \in Node : m # n => /\ view'[m] = view[m] /\ up'[m] = up[m]
                                       /\ overtaken'[m] = overtaken[m]
  <1>1. /\ todo[n] = {} /\ view'[n] = fresh[n] /\ UNCHANGED records
        /\ up'[n] /\ overtaken'[n] = {}
    BY Zenon DEF ReloadApply, Again, ModeratedInv, ModerationTypeOK
  <1>2. \A m \in Node : m # n => /\ view'[m] = view[m] /\ up'[m] = up[m]
                                 /\ overtaken'[m] = overtaken[m]
    BY Zenon DEF ReloadApply, Again, ModeratedInv, ModerationTypeOK
  <1> QED
    BY <1>1, <1>2, Zenon DEF ReadsAreCurrent

\* However requests, retried writes and reloads interleave, a reload that
\* completes has caught up with every write it did not run beside.
THEOREM ReloadsDoCatchUp == ModerationSpec => ReloadsCatchUp
  <1>1. ASSUME ModeratedInv, ReadsAreCurrent, NEW n \in Node, ReloadApply(n)
        PROVE  \A k \in Key \ overtaken[n] : view'[n][k] = Active(records'[k])
    BY <1>1, AppliedIsCurrent, Zenon
  <1>2. ModeratedInv /\ ReadsAreCurrent =>
          [\A n \in Node : ReloadApply(n) =>
             \A k \in Key \ overtaken[n] : view'[n][k] = Active(records'[k])]_moderationVars
    BY <1>1, Zenon
  <1>3. ModerationSpec => []ModeratedInv
    BY ModerationInvariant, PTL DEF ModeratedInv
  <1> QED
    BY <1>2, <1>3, ReadsStayCurrent, PTL DEF ReloadsCatchUp

\* The rest of ViewsConverge that is no matter of fairness: once the operators
\* are done and a whole reload has run since, a node shows what S3 holds, and
\* nothing but its own restart ends that.
THEOREM CaughtUpForGood == ModerationSpec => CaughtUpStays
  <1> DEFINE Stays(n) ==
        AllAnswered /\ AllAnswered' /\ overtaken[n] = {} /\ (CaughtUp(n) \/ ReloadApply(n)) =>
            CaughtUp(n)' \/ ~ up'[n]
  <1>1. ASSUME ModeratedInv, ReadsAreCurrent, [ModerationNext]_moderationVars, NEW n \in Node
        PROVE  Stays(n)
    <2> SUFFICES ASSUME AllAnswered, AllAnswered', overtaken[n] = {},
                        CaughtUp(n) \/ ReloadApply(n)
                 PROVE  CaughtUp(n)' \/ ~ up'[n]
      BY Zenon
    <2>1. CASE ReloadApply(n)
      BY <1>1, <2>1, AppliedIsCurrent, Zenon DEF CaughtUp
    <2> SUFFICES ASSUME CaughtUp(n) PROVE CaughtUp(n)' \/ ~ up'[n]
      BY <2>1, Zenon
    <2>2. ASSUME UNCHANGED records, view'[n] = view[n], up'[n] = up[n],
                 overtaken'[n] \in {overtaken[n], {}}
          PROVE  CaughtUp(n)'
      BY <2>2, Zenon DEF CaughtUp
    <2>3. ASSUME NEW o \in Op, OpStep(o) PROVE FALSE
      <3>1. ASSUME NEW rec, Begin(o, rec) PROVE FALSE
        <4>1. phase'[o] = "audit"
          BY <1>1, <3>1, Zenon DEF Begin, ModeratedInv, ModerationTypeOK
        <4> QED
          BY <4>1, Zenon DEF AllAnswered
      <3>2. ASSUME Audit(o) \/ Persist(o) \/ WriteFails(o) \/ LateRecord(o) \/ Apply(o)
            PROVE FALSE
        BY <3>2, Zenon DEF AllAnswered, Audit, Persist, WriteFails, LateRecord, Apply
      <3> QED
        BY <2>3, <3>1, <3>2, Zenon DEF OpStep, Set, Lift
    <2>4. ASSUME NEW m \in Node, ReloadApply(m) PROVE CaughtUp(n)'
      BY <1>1, <2>1, <2>2, <2>4, AppliedIsCurrent, Zenon DEF CaughtUp
    <2>5. ASSUME NEW m \in Node, NEW k \in Key, ReloadRead(m, k) PROVE CaughtUp(n)'
      BY <2>2, <2>5, Zenon DEF ReloadRead
    <2>6. ASSUME NEW m \in Node, ReloadFails(m) PROVE CaughtUp(n)'
      <3>1. overtaken'[n] \in {overtaken[n], {}}
        BY <1>1, <2>6, Zenon DEF ReloadFails, Again, ModeratedInv, ModerationTypeOK
      <3> QED
        BY <2>2, <2>6, <3>1, Zenon DEF ReloadFails
    <2>7. ASSUME NEW m \in Node, RestartNode(m) PROVE CaughtUp(n)' \/ ~ up'[n]
      <3>1. CASE m = n
        BY <1>1, <2>7, <3>1, Zenon DEF RestartNode, ModeratedInv, ModerationTypeOK
      <3>2. CASE m # n
        <4>1. /\ UNCHANGED records /\ view'[n] = view[n] /\ up'[n] = up[n]
              /\ overtaken'[n] = overtaken[n]
          BY <1>1, <2>7, <3>2, Zenon DEF RestartNode, Again, ModeratedInv, ModerationTypeOK
        <4> QED
          BY <2>2, <4>1, Zenon
      <3> QED
        BY <3>1, <3>2, Zenon
    <2>8. CASE UNCHANGED moderationVars
      BY <2>2, <2>8, Zenon DEF moderationVars, reloadVars
    <2> QED
      BY <1>1, <2>3, <2>4, <2>5, <2>6, <2>7, <2>8, Zenon DEF ModerationNext, ReloadStep
  <1>2. ModeratedInv /\ ReadsAreCurrent /\ [ModerationNext]_moderationVars =>
          [\A n \in Node : Stays(n)]_moderationVars
    BY <1>1, Zenon
  <1>3. ModerationSpec => []ModeratedInv
    BY ModerationInvariant, PTL DEF ModeratedInv
  <1> QED
    BY <1>2, <1>3, ReadsStayCurrent, PTL DEF ModerationSpec, CaughtUpStays

=============================================================================
