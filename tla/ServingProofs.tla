---------------------------- MODULE ServingProofs ----------------------------
(***************************************************************************)
(* Proofs about Serving, for any hashes, fetches, limits, faults and       *)
(* changes of the bucket and of the moderation view.                       *)
(*                                                                         *)
(* Between the check of a hash and the end of the attempt the bucket, the  *)
(* view and what the node remembers all change.  What survives is said     *)
(* about each attempt: the hashes it has found were not withheld when they *)
(* were looked at (FoundInv), nor known to be corrupt when it began        *)
(* (CorruptInv); and a hash well stored and free throughout cannot be seen *)
(* as gone between two HEADs (SteadyInv).                                  *)
(***************************************************************************)
EXTENDS Serving, TLAPS

Heads == {"blob", "document", "blobOutboard", "documentOutboard"}
Looking == Heads \cup {"check"}
Place == Looking \cup {"idle", "send"}

ServingTypeOK ==
    /\ data \in [Kind -> [Hash -> Object]]
    /\ outboard \in [Kind -> [Hash -> Outboard]]
    /\ corrupt \subseteq Hash /\ spoiled \subseteq Hash
    /\ servable \in [Hash -> Kind \cup {"none"}]
    /\ job \in [Hash -> {"none", "computing", "storing"}]
    /\ jobKind \in [Hash -> Kind]
    /\ pc \in [Fetch -> Place]
    /\ got \in [Fetch -> Seq(Kind)]
    /\ sent \in [Fetch -> Nat]
    /\ answer \in [Fetch -> {"none", "limit", "permission", "served"}]
    /\ steady \in [Fetch -> SUBSET Hash] /\ barred \in [Fetch -> SUBSET Hash]
    /\ veiled \in [Fetch -> SUBSET Hash] /\ marked \in [Fetch -> SUBSET Hash]
    /\ blocked \subseteq Hash /\ hidden \subseteq Hash

\* As many kinds are found as hashes were looked at, and none is sent twice.
Pace(f) ==
    /\ sent[f] < Len(Want[f])
    /\ pc[f] = "idle" => got[f] = <<>>
    /\ pc[f] \in Looking => Len(got[f]) < Len(Want[f])
    /\ pc[f] = "send" => Len(got[f]) = Len(Want[f])

\* What was withheld throughout the attempt is not among what it has found.
FoundInv(f) ==
    /\ Pace(f)
    /\ barred[f] \subseteq blocked /\ veiled[f] \subseteq hidden
    /\ pc[f] \in Heads => Checked(f) \notin barred[f]
    /\ \A i \in 1..Len(got[f]) :
          /\ Want[f][i] \notin barred[f]
          /\ got[f][i] = "document" => Want[f][i] \notin veiled[f]

\* Nor is what was known to be corrupt when it began.
CorruptInv(f) ==
    /\ Pace(f)
    /\ marked[f] \subseteq spoiled
    /\ pc[f] \in Heads => Checked(f) \notin marked[f]
    /\ \A i \in 1..Len(got[f]) : Want[f][i] \notin marked[f]

\* What is well stored and free throughout is in one of the two places.
SteadyInv(f) ==
    /\ Pace(f)
    /\ \A h \in steady[f] : Sound(h) /\ h \notin blocked \cup hidden \cup corrupt
    /\ pc[f] = "document" /\ Checked(f) \in steady[f] => data["document"][Checked(f)] # "none"

\* The corrupt ones are remembered while they are fewer than the capacity.
FewHashes == IsFiniteSet(Hash) /\ Cardinality(Hash) < BadCapacity

ServingInv == ServingTypeOK /\ \A f \in Fetch : FoundInv(f) /\ SteadyInv(f)
MemoryInv == corrupt = spoiled /\ \A f \in Fetch : CorruptInv(f)

-----------------------------------------------------------------------------
(* What a step of a fetch does to it.                                      *)

SameAttempt(f) == /\ steady'[f] = steady[f] /\ barred'[f] = barred[f]
                  /\ veiled'[f] = veiled[f] /\ marked'[f] = marked[f]
Same(f) == SameAttempt(f) /\ pc'[f] = pc[f] /\ got'[f] = got[f] /\ sent'[f] = sent[f]
Others(f) == \A g \in Fetch : g # f => Same(g)

\* The attempt is over.
Over(f) == /\ pc'[f] = "idle" /\ got'[f] = <<>> /\ sent'[f] = 0
           /\ steady'[f] = {} /\ barred'[f] = {} /\ veiled'[f] = {} /\ marked'[f] = {}

Began(f) == /\ pc[f] = "idle" /\ pc'[f] = "check" /\ got'[f] = got[f] /\ sent'[f] = sent[f]
            /\ barred'[f] = blocked /\ veiled'[f] = hidden /\ marked'[f] = spoiled
            /\ steady'[f] = {h \in Wanted(f) : Sound(h)} \ (blocked \cup hidden \cup corrupt)

\* The first look at a hash lets it through.
Cleared(f) == pc[f] \in Looking /\ (pc[f] = "check" => Checked(f) \notin blocked \cup corrupt)

Took(f) ==
    /\ Cleared(f) /\ SameAttempt(f) /\ sent'[f] = sent[f]
    /\ \E k \in Kind : /\ got'[f] = Append(got[f], k)
                       /\ k = "document" => Checked(f) \notin hidden
    /\ pc'[f] = IF Len(got[f]) + 1 = Len(Want[f]) THEN "send" ELSE "check"

Waits(f) ==
    /\ Cleared(f) /\ SameAttempt(f) /\ got'[f] = got[f] /\ sent'[f] = sent[f]
    /\ pc'[f] \in Heads
    /\ pc'[f] = "document" => data["blob"][Checked(f)] = "none"

Goes(f) == /\ pc[f] = "send" /\ pc'[f] = "send" /\ SameAttempt(f) /\ got'[f] = got[f]
           /\ sent'[f] = sent[f] + 1 /\ sent'[f] # Len(Want[f])

\* What is marked corrupt was not sound.
Marks == \/ UNCHANGED <<corrupt, spoiled>>
         \/ \E h \in Hash : ~Sound(h) /\ MarkCorrupt(h)

\* An answer ends the attempt, and nobody else's.
LEMMA AnswerOutcome ==
    ASSUME ServingTypeOK, NEW f \in Fetch, NEW how, Answer(f, how)
    PROVE  Over(f) /\ Others(f)
  BY Zenon DEF ServingTypeOK, Answer, Over, Others, Same, SameAttempt

\* A hash found servable is taken, or refused as hidden.
LEMMA FoundOutcome ==
    ASSUME ServingTypeOK, NEW f \in Fetch, NEW k \in Kind, Found(f, k), Cleared(f)
    PROVE  (Over(f) \/ Took(f)) /\ Others(f)
  <1>1. CASE Answer(f, "permission")
    BY <1>1, AnswerOutcome, Zenon
  <1>2. CASE ~Answer(f, "permission")
    <2>1. /\ ~(k = "document" /\ Checked(f) \in hidden)
          /\ got' = [got EXCEPT ![f] = Append(@, k)]
          /\ pc' = [pc EXCEPT ![f] = IF Len(got[f]) + 1 = Len(Want[f]) THEN "send" ELSE "check"]
          /\ UNCHANGED <<sent, answer, attempt>>
      BY <1>2, Zenon DEF Found
    <2>2. Others(f)
      BY <2>1, Zenon DEF ServingTypeOK, Others, Same, SameAttempt, attempt
    <2>3. /\ got'[f] = Append(got[f], k)
          /\ pc'[f] = IF Len(got[f]) + 1 = Len(Want[f]) THEN "send" ELSE "check"
          /\ SameAttempt(f) /\ sent'[f] = sent[f]
      BY <2>1, Zenon DEF ServingTypeOK, SameAttempt, attempt
    <2>4. \E j \in Kind : /\ got'[f] = Append(got[f], j)
                          /\ j = "document" => Checked(f) \notin hidden
      BY <2>1, <2>3, Zenon
    <2>5. Took(f)
      BY <2>3, <2>4, Zenon DEF Took
    <2> QED
      BY <2>2, <2>5, Zenon
  <1> QED
    BY <1>1, <1>2, Zenon

\* A call of S3 keeps the attempt as it is.
LEMMA AwaitOutcome ==
    ASSUME ServingTypeOK, NEW f \in Fetch, NEW call \in Heads, Await(f, call), Cleared(f),
           call = "document" => data["blob"][Checked(f)] = "none"
    PROVE  Waits(f) /\ Others(f)
  <1>1. Others(f)
    BY Zenon DEF ServingTypeOK, Await, Others, Same, SameAttempt, attempt
  <1>2. pc'[f] = call /\ got'[f] = got[f] /\ sent'[f] = sent[f] /\ SameAttempt(f)
    BY Zenon DEF ServingTypeOK, Await, SameAttempt, attempt
  <1> QED
    BY <1>1, <1>2, Zenon DEF Waits

\* The hash a fetch looks at and the one it sends are among those it wants.
LEMMA InRange ==
    ASSUME ServingTypeOK, NEW f \in Fetch, Pace(f)
    PROVE  /\ Want[f] \in Seq(Hash) /\ Len(Want[f]) > 0
           /\ pc[f] \in Looking => Checked(f) \in Hash /\ Checked(f) \in Wanted(f)
           /\ pc[f] = "send" => Sending(f) \in Hash /\ SentAs(f) \in Kind
  <1>1. Want[f] \in Seq(Hash) /\ Len(Want[f]) > 0
    BY WantAssumption, Zenon
  <1>2. got[f] \in Seq(Kind) /\ sent[f] \in Nat /\ Len(got[f]) \in Nat
    BY DEF ServingTypeOK
  <1>3. ASSUME pc[f] \in Looking PROVE Checked(f) \in Hash /\ Checked(f) \in Wanted(f)
    <2>1. Len(got[f]) + 1 \in DOMAIN Want[f]
      BY <1>1, <1>2, <1>3 DEF Pace
    <2> QED
      BY <1>1, <2>1 DEF Checked, Wanted
  <1>4. ASSUME pc[f] = "send" PROVE Sending(f) \in Hash /\ SentAs(f) \in Kind
    <2>1. sent[f] + 1 \in DOMAIN Want[f] /\ sent[f] + 1 \in DOMAIN got[f]
      BY <1>1, <1>2, <1>4 DEF Pace
    <2> QED
      BY <1>1, <1>2, <2>1 DEF Sending, SentAs
  <1> QED
    BY <1>1, <1>3, <1>4, Zenon

Outcome(f) == Over(f) \/ Began(f) \/ Took(f) \/ Waits(f) \/ Goes(f)

\* The kind HEAD found is taken, or its outboard is looked at.
LEMMA PresentOutcome ==
    ASSUME ServingTypeOK, NEW f \in Fetch, NEW k \in Kind, Present(f, k), Cleared(f)
    PROVE  Outcome(f) /\ Others(f)
  <1>1. CASE Checked(f) \in Small
    BY <1>1, FoundOutcome, Zenon DEF Present, Outcome
  <1>2. CASE Checked(f) \notin Small
    <2>1. CASE k = "blob"
      BY <1>2, <2>1, AwaitOutcome, Zenon DEF Present, Outcome, Heads
    <2>2. CASE k # "blob"
      BY <1>2, <2>2, AwaitOutcome, Zenon DEF Present, Outcome, Heads
    <2> QED
      BY <2>1, <2>2, Zenon
  <1> QED
    BY <1>1, <1>2, Zenon

\* Every step of a fetch has one of the outcomes, and leaves the other fetches,
\* the bucket and the view alone.
LEMMA FetchOutcome ==
    ASSUME ServingTypeOK, NEW f \in Fetch, Pace(f), FetchStep(f) \/ HeadFails(f)
    PROVE  Outcome(f) /\ Others(f) /\ Marks /\ UNCHANGED <<data, outboard, blocked, hidden>>
  <1> USE DEF FetchLeaves, bucket, view
  <1>1. CASE Request(f)
    <2>1. CASE Answer(f, "limit")
      BY <1>1, <2>1, AnswerOutcome, Zenon DEF Request, Outcome, Marks
    <2>2. CASE ~Answer(f, "limit")
      <3>1. Begin(f) /\ pc[f] = "idle"
        BY <1>1, <2>2, Zenon DEF Request
      <3>2. Began(f) /\ Others(f)
        BY <3>1, Zenon DEF ServingTypeOK, Begin, Began, Others, Same, SameAttempt
      <3> QED
        BY <1>1, <3>2, Zenon DEF Request, Outcome, Marks
    <2> QED
      BY <2>1, <2>2, Zenon
  <1>2. CASE Check(f)
    <2>1. /\ pc[f] = "check" /\ Checked(f) \in Hash
          /\ Marks /\ UNCHANGED <<data, outboard, blocked, hidden>>
      BY <1>2, InRange, Zenon DEF Check, Looking, Marks
    <2>2. CASE Checked(f) \in blocked \/ Checked(f) \in corrupt
      BY <1>2, <2>1, <2>2, AnswerOutcome, Zenon DEF Check, Outcome
    <2>3. CASE ~(Checked(f) \in blocked \/ Checked(f) \in corrupt)
      <3>1. Cleared(f)
        BY <2>1, <2>3, Zenon DEF Cleared, Looking
      <3>2. CASE servable[Checked(f)] # "none"
        <4>1. servable[Checked(f)] \in Kind /\ Found(f, servable[Checked(f)])
          BY <1>2, <2>1, <2>3, <3>2, Zenon DEF Check, ServingTypeOK
        <4> QED
          BY <2>1, <3>1, <4>1, FoundOutcome, Zenon DEF Outcome
      <3>3. CASE servable[Checked(f)] = "none"
        BY <1>2, <2>1, <2>3, <3>1, <3>3, AwaitOutcome, Zenon DEF Check, Heads, Outcome
      <3> QED
        BY <3>2, <3>3, Zenon
    <2> QED
      BY <2>2, <2>3, Zenon
  <1>3. CASE HeadBlob(f)
    <2>1. Cleared(f) /\ Marks /\ UNCHANGED <<data, outboard, blocked, hidden>>
      BY <1>3, Zenon DEF HeadBlob, Cleared, Looking, Heads, Marks
    <2>2. CASE data["blob"][Checked(f)] # "none"
      BY <1>3, <2>1, <2>2, PresentOutcome, Zenon DEF HeadBlob, Kind
    <2>3. CASE data["blob"][Checked(f)] = "none"
      BY <1>3, <2>1, <2>3, AwaitOutcome, Zenon DEF HeadBlob, Heads, Outcome
    <2> QED
      BY <2>1, <2>2, <2>3, Zenon
  <1>4. CASE HeadDocument(f)
    <2>1. Cleared(f) /\ Marks /\ UNCHANGED <<data, outboard, blocked, hidden>>
      BY <1>4, Zenon DEF HeadDocument, Cleared, Looking, Heads, Marks
    <2>2. CASE data["document"][Checked(f)] # "none"
      BY <1>4, <2>1, <2>2, PresentOutcome, Zenon DEF HeadDocument, Kind
    <2>3. CASE data["document"][Checked(f)] = "none"
      BY <1>4, <2>1, <2>3, AnswerOutcome, Zenon DEF HeadDocument, Outcome
    <2> QED
      BY <2>1, <2>2, <2>3, Zenon
  <1>5. CASE HeadOutboard(f)
    <2> DEFINE k == IF pc[f] = "blobOutboard" THEN "blob" ELSE "document"
    <2>1. /\ Cleared(f) /\ Marks /\ UNCHANGED <<data, outboard, blocked, hidden>>
          /\ k \in Kind
      BY <1>5, Zenon DEF HeadOutboard, Cleared, Looking, Heads, Marks, Kind
    <2>2. Found(f, k) \/ Answer(f, "limit")
      BY <1>5, Zenon DEF HeadOutboard
    <2> HIDE DEF k
    <2> QED
      BY <2>1, <2>2, FoundOutcome, AnswerOutcome, Zenon DEF Outcome
  <1>6. CASE Send(f)
    <2>1. Marks /\ UNCHANGED <<data, outboard, blocked, hidden>> /\ pc[f] = "send"
      BY <1>6, Zenon DEF Send, Marks
    <2>2. CASE sent[f] + 1 = Len(Want[f])
      BY <1>6, <2>1, <2>2, AnswerOutcome, Zenon DEF Send, Outcome
    <2>3. CASE sent[f] + 1 # Len(Want[f])
      <3>1. sent' = [sent EXCEPT ![f] = @ + 1] /\ UNCHANGED <<pc, got, answer, attempt>>
        BY <1>6, <2>3, Zenon DEF Send
      <3>2. Goes(f) /\ Others(f)
        BY <2>1, <2>3, <3>1, Zenon DEF ServingTypeOK, Goes, Others, Same, SameAttempt, attempt
      <3> QED
        BY <2>1, <3>2, Zenon DEF Outcome
    <2> QED
      BY <2>2, <2>3, Zenon
  <1>7. CASE SendMismatch(f)
    <2>1. /\ Sending(f) \in Hash /\ SentAs(f) \in Kind
          /\ UNCHANGED <<data, outboard, blocked, hidden>>
          /\ Over(f) /\ Others(f) /\ MarkCorrupt(Sending(f))
      BY <1>7, InRange, AnswerOutcome, Zenon DEF SendMismatch
    <2>2. ~Sound(Sending(f))
      BY <1>7, <2>1, Zenon DEF SendMismatch, Sound, Good
    <2>3. Marks
      BY <2>1, <2>2, Zenon DEF Marks
    <2> QED
      BY <2>1, <2>3, Zenon DEF Outcome
  <1>8. CASE SendFails(f) \/ HeadFails(f)
    BY <1>8, AnswerOutcome, Zenon DEF SendFails, HeadFails, Outcome, Marks
  <1> QED
    BY <1>1, <1>2, <1>3, <1>4, <1>5, <1>6, <1>7, <1>8, Zenon DEF FetchStep

-----------------------------------------------------------------------------
(* The variables keep their types.                                         *)

FetchTypeOK ==
    /\ pc \in [Fetch -> Place]
    /\ got \in [Fetch -> Seq(Kind)]
    /\ sent \in [Fetch -> Nat]
    /\ answer \in [Fetch -> {"none", "limit", "permission", "served"}]
    /\ steady \in [Fetch -> SUBSET Hash] /\ barred \in [Fetch -> SUBSET Hash]
    /\ veiled \in [Fetch -> SUBSET Hash] /\ marked \in [Fetch -> SUBSET Hash]

WorldTypeOK ==
    /\ data \in [Kind -> [Hash -> Object]]
    /\ outboard \in [Kind -> [Hash -> Outboard]]
    /\ blocked \subseteq Hash /\ hidden \subseteq Hash

JobTypeOK ==
    /\ job \in [Hash -> {"none", "computing", "storing"}]
    /\ jobKind \in [Hash -> Kind]

MemoryTypeOK ==
    /\ corrupt \subseteq Hash /\ spoiled \subseteq Hash
    /\ servable \in [Hash -> Kind \cup {"none"}]

\* The parts make up the whole.
LEMMA TypeParts == ServingTypeOK <=> FetchTypeOK /\ WorldTypeOK /\ JobTypeOK /\ MemoryTypeOK
  BY Zenon DEF ServingTypeOK, FetchTypeOK, WorldTypeOK, JobTypeOK, MemoryTypeOK

\* And after a step.
LEMMA TypePartsNext ==
    FetchTypeOK' /\ WorldTypeOK' /\ JobTypeOK' /\ MemoryTypeOK' => ServingTypeOK'
  BY Zenon DEF ServingTypeOK, FetchTypeOK, WorldTypeOK, JobTypeOK, MemoryTypeOK

\* The pieces of a fetch's steps keep the types of what they change.
LEMMA PieceTypes ==
    ASSUME ServingTypeOK, NEW f \in Fetch
    PROVE  /\ \A how \in {"limit", "permission", "served"} : Answer(f, how) => FetchTypeOK'
           /\ \A k \in Kind : Found(f, k) => FetchTypeOK'
           /\ \A call \in Heads : Await(f, call) => FetchTypeOK'
           /\ Begin(f) /\ Pace(f) => FetchTypeOK'
           /\ \A h \in Hash : MarkCorrupt(h) => MemoryTypeOK'
           /\ \A h \in Hash, k \in Kind : Remember(h, k) /\ UNCHANGED <<corrupt, spoiled>>
                                             => MemoryTypeOK'
           /\ \A h \in Hash, k \in Kind : Backfill(h, k) => JobTypeOK'
  <1>1. ASSUME NEW how \in {"limit", "permission", "served"}, Answer(f, how)
        PROVE  FetchTypeOK'
    BY <1>1 DEF ServingTypeOK, FetchTypeOK, Answer, Place
  <1>2. ASSUME NEW k \in Kind, Found(f, k) PROVE FetchTypeOK'
    <2>1. CASE Answer(f, "permission")
      BY <1>1, <2>1, Zenon
    <2>2. CASE ~Answer(f, "permission")
      <3> DEFINE to == IF Len(got[f]) + 1 = Len(Want[f]) THEN "send" ELSE "check"
      <3>1. /\ got' = [got EXCEPT ![f] = Append(@, k)] /\ pc' = [pc EXCEPT ![f] = to]
            /\ UNCHANGED <<sent, answer, attempt>>
        BY <1>2, <2>2, Zenon DEF Found
      <3>2. to \in Place
        BY Zenon DEF Place, Looking
      <3>3. got' \in [Fetch -> Seq(Kind)]
        BY <3>1 DEF ServingTypeOK
      <3> HIDE DEF to
      <3>4. pc' \in [Fetch -> Place]
        BY <3>1, <3>2, Zenon DEF ServingTypeOK
      <3> QED
        BY <3>1, <3>3, <3>4, Zenon DEF ServingTypeOK, FetchTypeOK, attempt
    <2> QED
      BY <2>1, <2>2, Zenon
  <1>3. ASSUME NEW call \in Heads, Await(f, call) PROVE FetchTypeOK'
    BY <1>3, Zenon DEF ServingTypeOK, FetchTypeOK, Await, Place, Looking, attempt
  <1>4. ASSUME Begin(f) PROVE FetchTypeOK'
    <2>1. Wanted(f) \subseteq Hash
      BY WantAssumption DEF Wanted
    <2> DEFINE free == {h \in Wanted(f) : Sound(h)} \ (blocked \cup hidden \cup corrupt)
    <2>2. free \subseteq Hash
      BY <2>1, Zenon
    <2>3. steady' = [steady EXCEPT ![f] = free]
      BY <1>4, Zenon DEF Begin
    <2> HIDE DEF free
    <2>4. steady' \in [Fetch -> SUBSET Hash]
      BY <2>2, <2>3, Zenon DEF ServingTypeOK
    <2> QED
      BY <1>4, <2>4, Zenon DEF ServingTypeOK, FetchTypeOK, Begin, Place, Looking
  <1>5. ASSUME NEW h \in Hash, MarkCorrupt(h) PROVE MemoryTypeOK'
    BY <1>5, Zenon DEF ServingTypeOK, MemoryTypeOK, MarkCorrupt
  <1>6. ASSUME NEW h \in Hash, NEW k \in Kind, Remember(h, k), UNCHANGED <<corrupt, spoiled>>
        PROVE  MemoryTypeOK'
    <2>1. \A g \in Hash : (IF g = h THEN k
                           ELSE IF Cardinality(Known) >= SizesCapacity THEN "none"
                           ELSE servable[g]) \in Kind \cup {"none"}
      BY Zenon DEF ServingTypeOK
    <2>2. servable' \in [Hash -> Kind \cup {"none"}]
      BY <1>6, <2>1, Zenon DEF Remember
    <2> QED
      BY <1>6, <2>2, Zenon DEF ServingTypeOK, MemoryTypeOK
  <1>7. ASSUME NEW h \in Hash, NEW k \in Kind, Backfill(h, k) PROVE JobTypeOK'
    <2>1. \/ UNCHANGED jobs
          \/ /\ job' = [job EXCEPT ![h] = "computing"]
             /\ jobKind' = [jobKind EXCEPT ![h] = k]
      BY <1>7, Zenon DEF Backfill
    <2>2. CASE UNCHANGED jobs
      BY <2>2, Zenon DEF ServingTypeOK, JobTypeOK, jobs
    <2>3. CASE job' = [job EXCEPT ![h] = "computing"] /\ jobKind' = [jobKind EXCEPT ![h] = k]
      BY <2>3, Zenon DEF ServingTypeOK, JobTypeOK
    <2> QED
      BY <2>1, <2>2, <2>3, Zenon
  <1> QED
    BY <1>1, <1>2, <1>3, <1>4, <1>5, <1>6, <1>7, Zenon

\* A step of a fetch keeps the types.
LEMMA FetchTypes ==
    ASSUME ServingTypeOK, NEW f \in Fetch, Pace(f), FetchStep(f) \/ HeadFails(f)
    PROVE  ServingTypeOK'
  <1> USE DEF FetchLeaves, bucket, view
  <1>1. WorldTypeOK'
    BY FetchOutcome, TypeParts, Zenon DEF WorldTypeOK
  <1>2. UNCHANGED jobs => JobTypeOK'
    BY TypeParts, Zenon DEF JobTypeOK, jobs
  <1>3. UNCHANGED <<servable, corrupt, spoiled>> => MemoryTypeOK'
    BY TypeParts, Zenon DEF MemoryTypeOK
  <1>4. /\ pc[f] \in Looking => Checked(f) \in Hash
        /\ pc[f] = "send" => Sending(f) \in Hash
    BY InRange, Zenon
  <1>5. CASE Request(f)
    BY <1>1, <1>2, <1>3, <1>5, PieceTypes, TypePartsNext, Zenon DEF Request
  <1>6. CASE Check(f)
    <2>1. Checked(f) \in Hash
      BY <1>4, <1>6, Zenon DEF Check, Looking
    <2>2. servable[Checked(f)] # "none" => servable[Checked(f)] \in Kind
      BY <2>1, Zenon DEF ServingTypeOK
    <2>3. FetchTypeOK'
      BY <1>6, <2>2, PieceTypes, Zenon DEF Check, Heads
    <2> QED
      BY <1>1, <1>2, <1>3, <1>6, <2>3, TypePartsNext, Zenon DEF Check
  <1>7. ASSUME NEW k \in Kind, Present(f, k), Checked(f) \in Hash, UNCHANGED <<corrupt, spoiled>>
        PROVE  FetchTypeOK' /\ MemoryTypeOK'
    BY <1>3, <1>7, PieceTypes, Zenon DEF Present, Heads
  <1>8. CASE HeadBlob(f)
    <2>1. Checked(f) \in Hash
      BY <1>4, <1>8, Zenon DEF HeadBlob, Looking, Heads
    <2>2. FetchTypeOK' /\ MemoryTypeOK'
      BY <1>3, <1>7, <1>8, <2>1, PieceTypes, Zenon DEF HeadBlob, Heads, Kind
    <2> QED
      BY <1>1, <1>2, <1>8, <2>2, TypePartsNext, Zenon DEF HeadBlob
  <1>9. CASE HeadDocument(f)
    <2>1. Checked(f) \in Hash
      BY <1>4, <1>9, Zenon DEF HeadDocument, Looking, Heads
    <2>2. FetchTypeOK' /\ MemoryTypeOK'
      BY <1>3, <1>7, <1>9, <2>1, PieceTypes, Zenon DEF HeadDocument, Kind
    <2> QED
      BY <1>1, <1>2, <1>9, <2>2, TypePartsNext, Zenon DEF HeadDocument
  <1>10. CASE HeadOutboard(f)
    <2> DEFINE k == IF pc[f] = "blobOutboard" THEN "blob" ELSE "document"
    <2>1. Checked(f) \in Hash /\ k \in Kind
      BY <1>4, <1>10, Zenon DEF HeadOutboard, Looking, Heads, Kind
    <2>2. \/ Remember(Checked(f), k) /\ Found(f, k) /\ UNCHANGED jobs
          \/ Backfill(Checked(f), k) /\ Answer(f, "limit") /\ UNCHANGED servable
      BY <1>10, Zenon DEF HeadOutboard
    <2>3. UNCHANGED <<corrupt, spoiled>>
      BY <1>10, Zenon DEF HeadOutboard
    <2> HIDE DEF k
    <2> QED
      BY <1>1, <1>2, <1>3, <2>1, <2>2, <2>3, PieceTypes, TypePartsNext, Zenon
  <1>11. CASE Send(f)
    <2>1. CASE sent[f] + 1 = Len(Want[f])
      BY <1>1, <1>2, <1>3, <1>11, <2>1, PieceTypes, TypePartsNext, Zenon DEF Send
    <2>2. CASE sent[f] + 1 # Len(Want[f])
      <3>1. FetchTypeOK'
        BY <1>11, <2>2 DEF Send, ServingTypeOK, FetchTypeOK, attempt
      <3> QED
        BY <1>1, <1>2, <1>3, <1>11, <3>1, TypePartsNext, Zenon DEF Send
    <2> QED
      BY <2>1, <2>2, Zenon
  <1>12. CASE SendMismatch(f)
    BY <1>1, <1>2, <1>4, <1>12, PieceTypes, TypePartsNext, Zenon DEF SendMismatch
  <1>13. CASE SendFails(f)
    <2>1. MemoryTypeOK'
      BY <1>13, TypeParts, Zenon DEF SendFails, Forget, MemoryTypeOK
    <2> QED
      BY <1>1, <1>2, <1>13, <2>1, PieceTypes, TypePartsNext, Zenon DEF SendFails
  <1>14. CASE HeadFails(f)
    BY <1>1, <1>2, <1>3, <1>14, PieceTypes, TypePartsNext, Zenon DEF HeadFails
  <1> QED
    BY <1>5, <1>6, <1>8, <1>9, <1>10, <1>11, <1>12, <1>13, <1>14, Zenon DEF FetchStep

\* So does what happens to the bucket and the view.
LEMMA EnvironmentTypes ==
    ASSUME ServingTypeOK, Environment
    PROVE  ServingTypeOK'
  <1> USE DEF EditLeaves, Edit, bucket, view, jobs, perFetch
  <1>1. PICK h \in Hash : \/ Block(h) \/ Unblock(h) \/ Hide(h) \/ Unhide(h)
                          \/ \E k \in Kind : \/ Delete(k, h) \/ DeleteOutboard(k, h)
                                             \/ StoreOutboard(k, h) \/ Store(k, h)
    BY Zenon DEF Environment
  <1>2. UNCHANGED <<servable, corrupt, spoiled, job, jobKind, pc, got, sent, answer, marked>>
    BY <1>1, Zenon DEF Block, Unblock, Hide, Unhide, Delete, DeleteOutboard, StoreOutboard, Store
  <1>3. JobTypeOK' /\ MemoryTypeOK'
    BY <1>2, TypeParts, Zenon DEF JobTypeOK, MemoryTypeOK
  <1>4. \A sets \in [Fetch -> SUBSET Hash] : Without(sets, h) \in [Fetch -> SUBSET Hash]
    BY Zenon DEF Without
  <1>5. /\ steady' = steady \/ steady' = Without(steady, h)
        /\ barred' = barred \/ barred' = Without(barred, h)
        /\ veiled' = veiled \/ veiled' = Without(veiled, h)
    BY <1>1, Zenon DEF Block, Unblock, Hide, Unhide, Delete, DeleteOutboard, StoreOutboard, Store
  <1>6. FetchTypeOK'
    BY <1>2, <1>4, <1>5, Zenon DEF ServingTypeOK, FetchTypeOK
  <1>7. WorldTypeOK'
    <2>1. CASE Block(h) \/ Unblock(h) \/ Hide(h) \/ Unhide(h)
      BY <2>1, Zenon DEF Block, Unblock, Hide, Unhide, ServingTypeOK, WorldTypeOK
    <2>2. ASSUME NEW k \in Kind, NEW v \in Object, data' = [data EXCEPT ![k][h] = v],
                 UNCHANGED <<outboard, blocked, hidden>>
          PROVE  WorldTypeOK'
      BY <2>2, Zenon DEF ServingTypeOK, WorldTypeOK
    <2>3. ASSUME NEW k \in Kind, NEW v \in Outboard,
                 outboard' = [outboard EXCEPT ![k][h] = v], UNCHANGED <<data, blocked, hidden>>
          PROVE  WorldTypeOK'
      BY <2>3, Zenon DEF ServingTypeOK, WorldTypeOK
    <2>4. ASSUME NEW k \in Kind, Delete(k, h) PROVE WorldTypeOK'
      BY <2>2, <2>4, Zenon DEF Delete, Object
    <2>5. ASSUME NEW k \in Kind, Store(k, h) PROVE WorldTypeOK'
      BY <2>2, <2>5, Zenon DEF Store, Object
    <2>6. ASSUME NEW k \in Kind, DeleteOutboard(k, h) PROVE WorldTypeOK'
      BY <2>3, <2>6, Zenon DEF DeleteOutboard, Outboard
    <2>7. ASSUME NEW k \in Kind, StoreOutboard(k, h) PROVE WorldTypeOK'
      BY <2>3, <2>7, Zenon DEF StoreOutboard, Outboard
    <2> QED
      BY <1>1, <2>1, <2>4, <2>5, <2>6, <2>7, Zenon
  <1> QED
    BY <1>3, <1>6, <1>7, TypePartsNext, Zenon

\* The computation of an outboard changes none of the fetches.  It marks only
\* what is not sound, and stores only a good outboard.
LEMMA JobOutcome ==
    ASSUME ServingTypeOK, NEW h \in Hash, JobStep(h)
    PROVE  /\ UNCHANGED <<data, blocked, hidden, pc, got, sent, answer,
                          steady, barred, veiled, marked>>
           /\ Marks
           /\ \/ UNCHANGED outboard
              \/ \E k \in Kind : outboard' = [outboard EXCEPT ![k][h] = "good"]
           /\ JobTypeOK' /\ MemoryTypeOK'
  <1> USE DEF bucket, view, perFetch, attempt, history
  <1>0. JobTypeOK /\ MemoryTypeOK
    BY TypeParts, Zenon
  <1>1. jobKind[h] \in Kind
    BY <1>0, Zenon DEF JobTypeOK
  <1>2. CASE ComputeOutboard(h)
    <2>1. JobTypeOK'
      <3>1. UNCHANGED jobKind /\ \E s \in {"none", "storing"} : job' = [job EXCEPT ![h] = s]
        BY <1>2, Zenon DEF ComputeOutboard
      <3> QED
        BY <1>0, <3>1, Zenon DEF JobTypeOK
    <2>2. CASE data[jobKind[h]][h] = "good"
      BY <1>2, <2>1, <2>2, TypeParts, Zenon DEF ComputeOutboard, Marks, MemoryTypeOK
    <2>3. CASE data[jobKind[h]][h] # "good"
      <3>1. MarkCorrupt(h) /\ data[jobKind[h]][h] = "bad"
        BY <1>2, <2>3, Zenon DEF ComputeOutboard
      <3>2. ~Sound(h)
        BY <1>1, <3>1, Zenon DEF Sound, Good
      <3>3. Marks
        BY <3>1, <3>2, Zenon DEF Marks
      <3>4. MemoryTypeOK'
        BY <3>1, Zenon DEF ServingTypeOK, MemoryTypeOK, MarkCorrupt
      <3> QED
        BY <1>2, <2>1, <3>3, <3>4, Zenon DEF ComputeOutboard
    <2> QED
      BY <2>2, <2>3, Zenon
  <1>3. CASE PutOutboard(h)
    <2>1. /\ UNCHANGED <<data, blocked, hidden, pc, got, sent, answer, steady, barred, veiled,
                          marked, servable, corrupt, spoiled, jobKind>>
          /\ job' = [job EXCEPT ![h] = "none"]
          /\ outboard' = [outboard EXCEPT ![jobKind[h]][h] = "good"]
      BY <1>3, Zenon DEF PutOutboard
    <2>2. JobTypeOK' /\ MemoryTypeOK'
      BY <1>0, <2>1, Zenon DEF JobTypeOK, MemoryTypeOK
    <2>3. \E k \in Kind : outboard' = [outboard EXCEPT ![k][h] = "good"]
      BY <1>1, <2>1, Zenon
    <2>4. Marks
      BY <2>1, Zenon DEF Marks
    <2> QED
      BY <2>1, <2>2, <2>3, <2>4, Zenon
  <1>4. CASE BackfillFails(h) \/ CooldownEnds(h)
    <2>1. /\ UNCHANGED <<data, outboard, blocked, hidden, pc, got, sent, answer, steady, barred,
                          veiled, marked, servable, corrupt, spoiled, jobKind>>
          /\ job' = job \/ job' = [job EXCEPT ![h] = "none"]
      BY <1>4, Zenon DEF BackfillFails, CooldownEnds
    <2>2. JobTypeOK' /\ MemoryTypeOK'
      BY <1>0, <2>1, Zenon DEF JobTypeOK, MemoryTypeOK
    <2> QED
      BY <2>1, <2>2, Zenon DEF Marks
  <1> QED
    BY <1>2, <1>3, <1>4, Zenon DEF JobStep

\* A restart forgets.
LEMMA RestartTypes ==
    ASSUME ServingTypeOK, Restart
    PROVE  /\ ServingTypeOK' /\ \A f \in Fetch : Over(f)
           /\ UNCHANGED <<data, outboard, blocked, hidden>> /\ corrupt' = {} /\ spoiled' = {}
  <1> USE DEF FetchLeaves, bucket, view
  <1>1. FetchTypeOK'
    BY DEF Restart, FetchTypeOK, Place
  <1>2. JobTypeOK' /\ MemoryTypeOK' /\ WorldTypeOK'
    BY Zenon DEF Restart, ServingTypeOK, JobTypeOK, MemoryTypeOK, WorldTypeOK
  <1>3. \A f \in Fetch : Over(f)
    BY Zenon DEF Restart, Over
  <1> QED
    BY <1>1, <1>2, <1>3, TypePartsNext, Zenon DEF Restart

\* Every step keeps the types.
LEMMA TypeStep ==
    ASSUME ServingTypeOK, \A f \in Fetch : Pace(f), [Next]_vars
    PROVE  ServingTypeOK'
  <1>1. CASE Environment
    BY <1>1, EnvironmentTypes, Zenon
  <1>2. ASSUME NEW f \in Fetch, FetchStep(f) \/ HeadFails(f) PROVE ServingTypeOK'
    BY <1>2, FetchTypes, Zenon
  <1>3. ASSUME NEW h \in Hash, JobStep(h) PROVE ServingTypeOK'
    <2>1. JobTypeOK' /\ MemoryTypeOK'
      BY <1>3, JobOutcome, Zenon
    <2>2. FetchTypeOK'
      BY <1>3, JobOutcome, TypeParts, Zenon DEF FetchTypeOK
    <2>3. outboard' \in [Kind -> [Hash -> Outboard]]
      <3>1. CASE UNCHANGED outboard
        BY <3>1, Zenon DEF ServingTypeOK
      <3>2. ASSUME NEW k \in Kind, outboard' = [outboard EXCEPT ![k][h] = "good"]
            PROVE  outboard' \in [Kind -> [Hash -> Outboard]]
        BY <3>2, Zenon DEF ServingTypeOK, Outboard
      <3> QED
        BY <1>3, <3>1, <3>2, JobOutcome, Zenon
    <2>4. WorldTypeOK'
      BY <1>3, <2>3, JobOutcome, TypeParts, Zenon DEF WorldTypeOK
    <2> QED
      BY <2>1, <2>2, <2>4, TypePartsNext, Zenon
  <1>4. CASE Restart
    BY <1>4, RestartTypes, Zenon
  <1>5. CASE UNCHANGED vars
    BY <1>5, Zenon DEF ServingTypeOK, vars, bucket, view, jobs, perFetch, history, attempt
  <1> QED
    BY <1>1, <1>2, <1>3, <1>4, <1>5, Zenon DEF Next

-----------------------------------------------------------------------------
(* What is withheld, and what is well stored.                              *)

\* The numbers a fetch counts with.
LEMMA FetchCounts ==
    ASSUME ServingTypeOK, NEW f \in Fetch
    PROVE  /\ Len(Want[f]) \in Nat /\ Len(Want[f]) > 0 /\ sent[f] \in Nat
           /\ got[f] \in Seq(Kind) /\ Len(got[f]) \in Nat
  <1>1. got[f] \in Seq(Kind) /\ sent[f] \in Nat
    BY Zenon DEF ServingTypeOK
  <1>2. Len(Want[f]) \in Nat /\ Len(Want[f]) > 0
    BY WantAssumption
  <1>3. Len(got[f]) \in Nat
    BY <1>1
  <1> QED
    BY <1>1, <1>2, <1>3, Zenon

\* A fetch looks at its hashes one by one.
LEMMA PaceStep ==
    ASSUME ServingTypeOK, NEW f \in Fetch, Pace(f),
           \/ Outcome(f)
           \/ pc'[f] = pc[f] /\ got'[f] = got[f] /\ sent'[f] = sent[f]
    PROVE  Pace(f)'
  <1>0. /\ Len(Want[f]) \in Nat /\ Len(Want[f]) > 0 /\ got[f] \in Seq(Kind)
        /\ sent[f] \in Nat /\ Len(got[f]) \in Nat
    BY FetchCounts, Zenon
  <1>1. CASE Over(f)
    BY <1>0, <1>1, Zenon DEF Over, Pace, Looking, Heads
  <1>2. CASE Began(f)
    <2>1. got'[f] = <<>> /\ sent'[f] < Len(Want[f]) /\ pc'[f] = "check"
      BY <1>2, Zenon DEF Began, Pace
    <2>2. Len(got'[f]) < Len(Want[f])
      BY <1>0, <2>1, Zenon
    <2> QED
      BY <2>1, <2>2, Zenon DEF Pace
  <1>3. CASE Took(f)
    <2>1. Len(got'[f]) = Len(got[f]) + 1 /\ sent'[f] = sent[f]
      BY <1>0, <1>3 DEF Took
    <2>2. pc'[f] = (IF Len(got[f]) + 1 = Len(Want[f]) THEN "send" ELSE "check")
          /\ pc[f] \in Looking
      BY <1>3, Zenon DEF Took, Cleared
    <2>3. Len(got[f]) < Len(Want[f]) /\ sent[f] < Len(Want[f])
      BY <2>2, Zenon DEF Pace
    <2>4. CASE Len(got[f]) + 1 = Len(Want[f])
      <3>1. pc'[f] = "send"
        BY <2>2, <2>4, Zenon
      <3> QED
        BY <2>1, <2>3, <2>4, <3>1, Zenon DEF Pace, Looking, Heads
    <2>5. CASE Len(got[f]) + 1 # Len(Want[f])
      <3>1. pc'[f] = "check" /\ Len(got'[f]) < Len(Want[f])
        BY <1>0, <2>1, <2>2, <2>3, <2>5
      <3> QED
        BY <2>1, <2>3, <3>1, Zenon DEF Pace
    <2> QED
      BY <2>4, <2>5, Zenon
  <1>4. CASE Waits(f)
    BY <1>0, <1>4, Zenon DEF Waits, Cleared, Pace, Looking, Heads
  <1>5. CASE Goes(f)
    <2>1. /\ pc'[f] = "send" /\ sent'[f] = sent[f] + 1 /\ sent'[f] # Len(Want[f])
          /\ sent[f] < Len(Want[f]) /\ Len(got'[f]) = Len(Want[f])
      BY <1>5, Zenon DEF Goes, Pace
    <2>2. sent'[f] < Len(Want[f])
      BY <1>0, <2>1
    <2> QED
      BY <2>1, <2>2, Zenon DEF Pace, Looking, Heads
  <1>6. CASE pc'[f] = pc[f] /\ got'[f] = got[f] /\ sent'[f] = sent[f]
    BY <1>6, Zenon DEF Pace
  <1> QED
    BY <1>1, <1>2, <1>3, <1>4, <1>5, <1>6, Zenon DEF Outcome

\* Looking at a hash under the view as it is keeps the withheld out.
LEMMA FoundByOutcome ==
    ASSUME ServingTypeOK, NEW f \in Fetch, FoundInv(f), Outcome(f), UNCHANGED <<blocked, hidden>>
    PROVE  FoundInv(f)'
  <1>0. Pace(f)' /\ got[f] \in Seq(Kind) /\ Len(got[f]) \in Nat
    BY PaceStep, FetchCounts, Zenon DEF FoundInv
  <1>1. CASE Over(f)
    BY <1>0, <1>1, Zenon DEF Over, FoundInv, Heads
  <1>2. CASE Began(f)
    <2>1. got'[f] = <<>>
      BY <1>2, Zenon DEF Began, FoundInv, Pace
    <2>2. 1..Len(got'[f]) = {}
      BY <2>1
    <2> QED
      BY <1>0, <1>2, <2>2, Zenon DEF Began, FoundInv, Heads
  <1>3. CASE Took(f)
    <2>1. PICK k \in Kind : /\ got'[f] = Append(got[f], k)
                            /\ k = "document" => Checked(f) \notin hidden
      BY <1>3, Zenon DEF Took
    <2>2. /\ barred'[f] = barred[f] /\ veiled'[f] = veiled[f] /\ pc'[f] \notin Heads
          /\ Cleared(f)
      BY <1>3, Zenon DEF Took, SameAttempt, Heads
    <2>3. Checked(f) \notin barred[f] /\ (k = "document" => Checked(f) \notin veiled[f])
      BY <2>1, <2>2, Zenon DEF Cleared, Looking, FoundInv
    <2>4. /\ Len(got'[f]) = Len(got[f]) + 1 /\ got'[f][Len(got[f]) + 1] = k
          /\ \A i \in 1..Len(got[f]) : got'[f][i] = got[f][i]
      BY <1>0, <2>1
    <2>5. ASSUME NEW i \in 1..(Len(got[f]) + 1)
          PROVE  /\ Want[f][i] \notin barred[f]
                 /\ got'[f][i] = "document" => Want[f][i] \notin veiled[f]
      <3>1. CASE i = Len(got[f]) + 1
        BY <2>3, <2>4, <3>1, Zenon DEF Checked
      <3>2. CASE i # Len(got[f]) + 1
        <4>1. i \in 1..Len(got[f])
          BY <1>0, <3>2
        <4> QED
          BY <2>4, <4>1, Zenon DEF FoundInv
      <3> QED
        BY <3>1, <3>2, Zenon
    <2> QED
      BY <1>0, <2>2, <2>4, <2>5, Zenon DEF FoundInv
  <1>4. CASE Waits(f)
    <2>1. Checked(f)' = Checked(f) /\ Checked(f) \notin barred[f]
      BY <1>4, Zenon DEF Waits, Cleared, Looking, FoundInv, Checked
    <2> QED
      BY <1>0, <1>4, <2>1, Zenon DEF Waits, SameAttempt, FoundInv
  <1>5. CASE Goes(f)
    BY <1>0, <1>5, Zenon DEF Goes, SameAttempt, FoundInv, Heads
  <1> QED
    BY <1>1, <1>2, <1>3, <1>4, <1>5, Zenon DEF Outcome

\* A fetch that stands still keeps what it has found, under a view from which
\* only what is lifted is dropped.
LEMMA FoundFrame ==
    ASSUME ServingTypeOK, NEW f \in Fetch, FoundInv(f),
           pc'[f] = pc[f], got'[f] = got[f], sent'[f] = sent[f],
           barred'[f] \subseteq barred[f] \cap blocked',
           veiled'[f] \subseteq veiled[f] \cap hidden'
    PROVE  FoundInv(f)'
  <1>1. Pace(f)' /\ Checked(f)' = Checked(f)
    BY PaceStep, Zenon DEF FoundInv, Checked
  <1> QED
    BY <1>1, Zenon DEF FoundInv

\* Marking what is not sound spares what is.
LEMMA SoundIsSpared ==
    ASSUME Marks
    PROVE  \A h : Sound(h) /\ h \notin corrupt => h \notin corrupt'
  <1>1. CASE UNCHANGED <<corrupt, spoiled>>
    BY <1>1, Zenon
  <1>2. ASSUME NEW g \in Hash, ~Sound(g), MarkCorrupt(g)
        PROVE  \A h : Sound(h) /\ h \notin corrupt => h \notin corrupt'
    <2>1. corrupt' \subseteq corrupt \cup {g}
      BY <1>2, Zenon DEF MarkCorrupt
    <2> QED
      BY <1>2, <2>1, Zenon
  <1> QED
    BY <1>1, <1>2, Zenon DEF Marks

\* What is well stored stays so while the bucket and the view do, and is not
\* looked for in the one place where it is not.
LEMMA SteadyByOutcome ==
    ASSUME ServingTypeOK, NEW f \in Fetch, SteadyInv(f), Outcome(f), Marks,
           UNCHANGED <<data, outboard, blocked, hidden>>
    PROVE  SteadyInv(f)'
  <1>0. Pace(f)'
    BY PaceStep, Zenon DEF SteadyInv
  <1>1. \A h : Sound(h)' <=> Sound(h)
    BY Zenon DEF Sound, Good, Absent
  <1>2. \A h : Sound(h) /\ h \notin corrupt => h \notin corrupt'
    BY SoundIsSpared, Zenon
  <1>3. ASSUME steady'[f] \subseteq steady[f]
        PROVE  \A h \in steady'[f] : Sound(h)' /\ h \notin (blocked \cup hidden \cup corrupt)'
    BY <1>1, <1>2, <1>3, Zenon DEF SteadyInv
  <1>4. CASE Over(f)
    BY <1>0, <1>4, Zenon DEF Over, SteadyInv
  <1>5. CASE Began(f)
    <2>1. \A h \in steady'[f] : Sound(h) /\ h \notin blocked \cup hidden \cup corrupt
      BY <1>5, Zenon DEF Began
    <2>2. \A h \in steady'[f] : Sound(h)' /\ h \notin (blocked \cup hidden \cup corrupt)'
      BY <1>1, <1>2, <2>1, Zenon
    <2> QED
      BY <1>0, <1>5, <2>2, Zenon DEF Began, SteadyInv
  <1>6. CASE Took(f)
    <2>1. steady'[f] = steady[f] /\ pc'[f] # "document"
      BY <1>6, Zenon DEF Took, SameAttempt
    <2> QED
      BY <1>0, <1>3, <2>1, Zenon DEF SteadyInv
  <1>7. CASE Waits(f)
    <2>1. /\ steady'[f] = steady[f] /\ Checked(f)' = Checked(f)
          /\ pc'[f] = "document" => data["blob"][Checked(f)] = "none"
      BY <1>7, Zenon DEF Waits, SameAttempt, Checked
    <2>2. ASSUME data["blob"][Checked(f)] = "none", Checked(f) \in steady[f]
          PROVE  data["document"][Checked(f)] # "none"
      BY <2>2, Zenon DEF SteadyInv, Sound, Good, Absent, Kind
    <2>3. pc'[f] = "document" /\ Checked(f)' \in steady'[f]
            => data'["document"][Checked(f)'] # "none"
      BY <2>1, <2>2, Zenon
    <2>4. \A h \in steady'[f] : Sound(h)' /\ h \notin (blocked \cup hidden \cup corrupt)'
      BY <1>3, <2>1, Zenon
    <2> QED
      BY <1>0, <2>3, <2>4, Zenon DEF SteadyInv
  <1>8. CASE Goes(f)
    <2>1. steady'[f] = steady[f] /\ pc'[f] # "document"
      BY <1>8, Zenon DEF Goes, SameAttempt
    <2> QED
      BY <1>0, <1>3, <2>1, Zenon DEF SteadyInv
  <1> QED
    BY <1>4, <1>5, <1>6, <1>7, <1>8, Zenon DEF Outcome

\* A fetch that stands still keeps it too, whatever else happens to hashes it
\* no longer counts as steady.
LEMMA SteadyFrame ==
    ASSUME ServingTypeOK, NEW f \in Fetch, SteadyInv(f),
           pc'[f] = pc[f], got'[f] = got[f], sent'[f] = sent[f],
           steady'[f] \subseteq steady[f],
           \A h \in steady'[f] : /\ Sound(h)' /\ h \notin (blocked \cup hidden \cup corrupt)'
                                 /\ data["document"][h] # "none" => data'["document"][h] # "none"
    PROVE  SteadyInv(f)'
  <1>1. Pace(f)' /\ Checked(f)' = Checked(f)
    BY PaceStep, Zenon DEF SteadyInv, Checked
  <1>2. pc'[f] = "document" /\ Checked(f)' \in steady'[f]
          => data'["document"][Checked(f)'] # "none"
    BY <1>1, Zenon DEF SteadyInv
  <1> QED
    BY <1>1, <1>2, Zenon DEF SteadyInv

\* A change of an object or an outboard other than to a bad one keeps sound
\* what is sound, unless it is deleted.
LEMMA BucketKeepsSound ==
    ASSUME ServingTypeOK, NEW h \in Hash, NEW k \in Kind,
           \/ UNCHANGED outboard /\ data' = [data EXCEPT ![k][h] = "good"]
           \/ UNCHANGED outboard /\ data' = [data EXCEPT ![k][h] = "none"]
           \/ UNCHANGED data /\ outboard' = [outboard EXCEPT ![k][h] = "good"]
           \/ UNCHANGED data /\ outboard' = [outboard EXCEPT ![k][h] = "none"],
           NEW g \in Hash, Sound(g), g # h \/ data'[k][h] # "none" \/ UNCHANGED data
    PROVE  Sound(g)' /\ (data["document"][g] # "none" => data'["document"][g] # "none")
  <1>1. \A j \in Kind : data[j] \in [Hash -> Object] /\ outboard[j] \in [Hash -> Outboard]
    BY Zenon DEF ServingTypeOK
  <1>2. \A j \in Kind : /\ data'[j][g] = data[j][g] \/ data'[j][g] = "good"
                        /\ \/ outboard'[j][g] = outboard[j][g]
                           \/ outboard'[j][g] \in {"good", "none"}
    <2>1. CASE UNCHANGED outboard /\ data' = [data EXCEPT ![k][h] = "good"]
      BY <1>1, <2>1, Zenon DEF ServingTypeOK
    <2>2. CASE UNCHANGED outboard /\ data' = [data EXCEPT ![k][h] = "none"]
      <3>1. data'[k][h] = "none"
        BY <1>1, <2>2, Zenon DEF ServingTypeOK
      <3>2. g # h \/ data[k][h] = "none"
        BY <3>1, Zenon
      <3> QED
        BY <1>1, <2>2, <3>2, Zenon DEF ServingTypeOK
    <2>3. CASE UNCHANGED data /\ outboard' = [outboard EXCEPT ![k][h] = "good"]
      BY <1>1, <2>3, Zenon DEF ServingTypeOK
    <2>4. CASE UNCHANGED data /\ outboard' = [outboard EXCEPT ![k][h] = "none"]
      BY <1>1, <2>4, Zenon DEF ServingTypeOK
    <2> QED
      BY <2>1, <2>2, <2>3, <2>4, Zenon
  <1>3. PICK j \in Kind : data[j][g] # "none"
    BY Zenon DEF Sound, Good, Absent
  <1>4. data'[j][g] # "none"
    BY <1>2, <1>3, Zenon
  <1>5. ~Absent(g)'
    BY <1>4, Zenon DEF Absent
  <1>6. \A i \in Kind : data'[i][g] # "bad" /\ outboard'[i][g] # "bad"
    BY <1>2, Zenon DEF Sound, Good
  <1>7. data["document"][g] # "none" => data'["document"][g] # "none"
    BY <1>2, Zenon DEF Kind
  <1> QED
    BY <1>5, <1>6, <1>7, Zenon DEF Sound, Good

\* What happens to the bucket and the view is noted in the attempts.
LEMMA EnvironmentKeeps ==
    ASSUME ServingInv, Environment, NEW f \in Fetch
    PROVE  FoundInv(f)' /\ SteadyInv(f)'
  <1> USE DEF EditLeaves, bucket, view, perFetch
  <1>0. /\ ServingTypeOK /\ FoundInv(f) /\ SteadyInv(f)
        /\ steady[f] \subseteq Hash
        /\ \A g \in steady[f] : Sound(g) /\ g \notin blocked \cup hidden \cup corrupt
        /\ barred[f] \subseteq blocked /\ veiled[f] \subseteq hidden
    BY Zenon DEF ServingInv, ServingTypeOK, FoundInv, SteadyInv
  <1>1. ASSUME NEW h \in Hash, UNCHANGED <<data, outboard, pc, got, sent, corrupt>>,
               /\ steady' = steady \/ steady' = Without(steady, h)
               /\ \A g \in steady'[f] : g \notin blocked' \cup hidden'
               /\ barred'[f] \subseteq barred[f] \cap blocked'
               /\ veiled'[f] \subseteq veiled[f] \cap hidden'
        PROVE  FoundInv(f)' /\ SteadyInv(f)'
    <2>1. FoundInv(f)'
      BY <1>0, <1>1, FoundFrame, Zenon
    <2>2. \A g : Sound(g)' <=> Sound(g)
      BY <1>1, Zenon DEF Sound, Good, Absent
    <2>3. steady'[f] \subseteq steady[f]
      BY <1>1, Zenon DEF Without
    <2>4. SteadyInv(f)'
      BY <1>0, <1>1, <2>2, <2>3, SteadyFrame, Zenon
    <2> QED
      BY <2>1, <2>4, Zenon
  <1>2. ASSUME NEW h \in Hash, Block(h) PROVE FoundInv(f)' /\ SteadyInv(f)'
    BY <1>0, <1>1, <1>2, Zenon DEF Block, Without
  <1>3. ASSUME NEW h \in Hash, Unblock(h) PROVE FoundInv(f)' /\ SteadyInv(f)'
    BY <1>0, <1>1, <1>3, Zenon DEF Unblock, Without
  <1>4. ASSUME NEW h \in Hash, Hide(h) PROVE FoundInv(f)' /\ SteadyInv(f)'
    BY <1>0, <1>1, <1>4, Zenon DEF Hide, Without
  <1>5. ASSUME NEW h \in Hash, Unhide(h) PROVE FoundInv(f)' /\ SteadyInv(f)'
    BY <1>0, <1>1, <1>5, Zenon DEF Unhide, Without
  <1>6. ASSUME NEW h \in Hash, NEW k \in Kind,
               Delete(k, h) \/ DeleteOutboard(k, h) \/ StoreOutboard(k, h) \/ Store(k, h)
        PROVE  FoundInv(f)' /\ SteadyInv(f)'
    <2>1. UNCHANGED <<pc, got, sent, corrupt, blocked, hidden, barred, veiled>>
      BY <1>6, Zenon DEF Delete, DeleteOutboard, StoreOutboard, Store
    <2>2. FoundInv(f)'
      BY <1>0, <2>1, FoundFrame, Zenon
    <2>3. steady'[f] \subseteq steady[f]
      BY <1>6, Zenon DEF Delete, DeleteOutboard, StoreOutboard, Store, Without
    <2>4. ASSUME NEW g \in steady'[f]
          PROVE  Sound(g)' /\ (data["document"][g] # "none" => data'["document"][g] # "none")
      <3>1. g \in Hash /\ Sound(g)
        BY <1>0, <2>3, Zenon
      <3>2. CASE Delete(k, h)
        <4>1. g # h
          BY <2>4, <3>2, Zenon DEF Delete, Without
        <4> QED
          BY <1>0, <3>1, <3>2, <4>1, BucketKeepsSound, Zenon DEF Delete
      <3>3. CASE Store(k, h)
        <4>1. data'[k][h] # "none" /\ data' = [data EXCEPT ![k][h] = "good"] /\ UNCHANGED outboard
          BY <1>0, <3>3, Zenon DEF Store, ServingTypeOK
        <4> QED
          BY <1>0, <3>1, <4>1, BucketKeepsSound, Zenon
      <3>4. CASE DeleteOutboard(k, h)
        BY <1>0, <3>1, <3>4, BucketKeepsSound, Zenon DEF DeleteOutboard
      <3>5. CASE StoreOutboard(k, h)
        BY <1>0, <3>1, <3>5, BucketKeepsSound, Zenon DEF StoreOutboard
      <3> QED
        BY <1>6, <3>2, <3>3, <3>4, <3>5, Zenon
    <2>5. SteadyInv(f)'
      BY <1>0, <2>1, <2>3, <2>4, SteadyFrame, Zenon
    <2> QED
      BY <2>2, <2>5, Zenon
  <1> QED
    BY <1>2, <1>3, <1>4, <1>5, <1>6, Zenon DEF Environment

\* Every step keeps the invariant.
LEMMA ServingStep == ASSUME ServingInv, [Next]_vars PROVE ServingInv'
  <1>0. ServingTypeOK /\ \A f \in Fetch : FoundInv(f) /\ SteadyInv(f) /\ Pace(f)
    BY Zenon DEF ServingInv, FoundInv
  <1>1. ServingTypeOK'
    BY <1>0, TypeStep, Zenon
  <1>2. SUFFICES ASSUME NEW f \in Fetch PROVE FoundInv(f)' /\ SteadyInv(f)'
    BY <1>1, Zenon DEF ServingInv
  <1>3. CASE Environment
    BY <1>3, EnvironmentKeeps, Zenon
  <1>4. ASSUME UNCHANGED <<data, blocked, hidden>>, Same(f), Marks,
               \A g \in Hash : Sound(g) => Sound(g)'
        PROVE  FoundInv(f)' /\ SteadyInv(f)'
    <2>1. FoundInv(f)'
      BY <1>0, <1>4, FoundFrame, Zenon DEF Same, SameAttempt, FoundInv
    <2>2. steady[f] \subseteq Hash
      BY <1>0, Zenon DEF ServingTypeOK
    <2>3. \A g \in steady'[f] : Sound(g)' /\ g \notin (blocked \cup hidden \cup corrupt)'
      BY <1>0, <1>4, <2>2, SoundIsSpared, Zenon DEF Same, SameAttempt, SteadyInv
    <2>4. SteadyInv(f)'
      BY <1>0, <1>4, <2>3, SteadyFrame, Zenon DEF Same, SameAttempt
    <2> QED
      BY <2>1, <2>4, Zenon
  <1>5. UNCHANGED <<data, outboard>> => \A g \in Hash : Sound(g) => Sound(g)'
    BY Zenon DEF Sound, Good, Absent
  <1>6. ASSUME NEW e \in Fetch, FetchStep(e) \/ HeadFails(e)
        PROVE  FoundInv(f)' /\ SteadyInv(f)'
    <2>1. Outcome(e) /\ Others(e) /\ Marks /\ UNCHANGED <<data, outboard, blocked, hidden>>
      BY <1>0, <1>6, FetchOutcome, Zenon
    <2>2. CASE f = e
      BY <1>0, <2>1, <2>2, FoundByOutcome, SteadyByOutcome, Zenon
    <2>3. CASE f # e
      BY <1>4, <1>5, <2>1, <2>3, Zenon DEF Others
    <2> QED
      BY <2>2, <2>3, Zenon
  <1>7. ASSUME NEW h \in Hash, JobStep(h) PROVE FoundInv(f)' /\ SteadyInv(f)'
    <2>1. Same(f) /\ Marks /\ UNCHANGED <<data, blocked, hidden>>
      BY <1>0, <1>7, JobOutcome, Zenon DEF Same, SameAttempt
    <2>2. \/ UNCHANGED outboard
          \/ \E k \in Kind : outboard' = [outboard EXCEPT ![k][h] = "good"]
      BY <1>0, <1>7, JobOutcome, Zenon
    <2>3. ASSUME NEW k \in Kind, outboard' = [outboard EXCEPT ![k][h] = "good"]
          PROVE  \A g \in Hash : Sound(g) => Sound(g)'
      BY <1>0, <2>1, <2>3, BucketKeepsSound, Zenon
    <2> QED
      BY <1>4, <1>5, <2>1, <2>2, <2>3, Zenon
  <1>8. CASE Restart
    <2>1. Over(f) /\ Outcome(f) /\ UNCHANGED <<data, outboard, blocked, hidden>>
      BY <1>0, <1>8, RestartTypes, Zenon DEF Outcome
    <2>2. FoundInv(f)'
      BY <1>0, <2>1, FoundByOutcome, Zenon
    <2>3. SteadyInv(f)'
      BY <2>1, <2>2, Zenon DEF Over, SteadyInv, FoundInv
    <2> QED
      BY <2>2, <2>3, Zenon
  <1>9. CASE UNCHANGED vars
    <2>1. UNCHANGED <<data, outboard, blocked, hidden, corrupt, spoiled>> /\ Same(f)
      BY <1>9, Zenon DEF vars, bucket, view, perFetch, history, attempt, Same, SameAttempt
    <2> QED
      BY <1>4, <1>5, <2>1, Zenon DEF Marks
  <1> QED
    BY <1>3, <1>6, <1>7, <1>8, <1>9, Zenon DEF Next

\* The invariant holds before the first fetch.
LEMMA ServingInit == Init => ServingInv /\ MemoryInv
  <1> SUFFICES ASSUME Init PROVE ServingInv /\ MemoryInv
    BY Zenon
  <1>1. ServingTypeOK
    <2>1. data \in [Kind -> [Hash -> Object]] /\ outboard \in [Kind -> [Hash -> Outboard]]
      <3>1. Objects \cup {"none"} \subseteq Object /\ Outboards \cup {"none"} \subseteq Outboard
        BY StorableAssumption, Zenon DEF Object, Outboard
      <3> QED
        BY <3>1, Zenon DEF Init
    <2>2. blocked \subseteq Hash /\ hidden \subseteq Hash
      BY StorableAssumption, Zenon DEF Init
    <2> QED
      BY <2>1, <2>2 DEF Init, ServingTypeOK, Place, Kind
  <1>2. ASSUME NEW f \in Fetch PROVE FoundInv(f) /\ SteadyInv(f) /\ CorruptInv(f)
    <2>1. Pace(f)
      BY WantAssumption, Zenon DEF Init, Pace, Looking, Heads
    <2> QED
      BY <2>1, Zenon DEF Init, FoundInv, SteadyInv, CorruptInv, Heads
  <1> QED
    BY <1>1, <1>2, Zenon DEF Init, ServingInv, MemoryInv

\* A fetch ends by a step of its own.
LEMMA EndedByItself ==
    ASSUME ServingTypeOK, \A f \in Fetch : Pace(f), Next, NEW f \in Fetch, NEW how \in {"permission", "served"},
           Ended(f, how)
    PROVE  (FetchStep(f) \/ HeadFails(f)) /\ pc[f] # "idle"
  <1>0. pc[f] # "idle" /\ pc'[f] = "idle" /\ answer'[f] = how
    BY Zenon DEF Ended
  <1>1. ~Environment
    BY <1>0, Zenon DEF Environment, Block, Unblock, Hide, Unhide, Delete, DeleteOutboard,
                StoreOutboard, Store, EditLeaves, perFetch
  <1>2. \A h \in Hash : ~JobStep(h)
    BY <1>0, JobOutcome, Zenon
  <1>3. ~Restart
    BY <1>0, Zenon DEF Restart
  <1>4. ASSUME NEW e \in Fetch, e # f, FetchStep(e) \/ HeadFails(e) PROVE FALSE
    BY <1>0, <1>4, FetchOutcome, Zenon DEF Others, Same
  <1> QED
    BY <1>0, <1>1, <1>2, <1>3, <1>4, Zenon DEF Next

\* Only a fetch that sends can end as served.
LEMMA ServedWasSending ==
    ASSUME ServingTypeOK, \A f \in Fetch : Pace(f), Next, NEW f \in Fetch, Ended(f, "served")
    PROVE  pc[f] = "send"
  <1>1. (FetchStep(f) \/ HeadFails(f)) /\ pc[f] # "idle" /\ pc'[f] = "idle" /\ answer'[f] = "served"
    BY EndedByItself, Zenon DEF Ended
  <1>2. /\ ~Answer(f, "limit") /\ ~Answer(f, "permission")
    BY <1>1, Zenon DEF Answer, ServingTypeOK
  <1>3. /\ \A k \in Kind \cup {"none"} : ~Found(f, k)
        /\ \A call \in Heads : ~Await(f, call)
    BY <1>1, <1>2, Zenon DEF Found, Await, ServingTypeOK, Heads
  <1>4. \A k \in Kind : ~Present(f, k)
    BY <1>3, Zenon DEF Present, Heads
  <1>5. ~Check(f)
    <2>1. pc[f] = "check" => servable[Checked(f)] \in Kind \cup {"none"}
      BY InRange, Zenon DEF Looking, ServingTypeOK
    <2> QED
      BY <1>2, <1>3, <2>1, Zenon DEF Check, Heads
  <1>6. ~HeadBlob(f) /\ ~HeadDocument(f) /\ ~HeadOutboard(f)
    BY <1>2, <1>3, <1>4, Zenon DEF HeadBlob, HeadDocument, HeadOutboard, Heads, Kind
  <1> QED
    BY <1>1, <1>2, <1>5, <1>6, Zenon
    DEF FetchStep, Request, Send, SendMismatch, SendFails, HeadFails

\* What was blocked or hidden before a fetch began and throughout it is not
\* served to it, neither from S3 nor from what S3Server remembers.
THEOREM WithheldStaysUnserved == Spec => WithheldIsNotServed
  <1>1. ServingInv /\ [Next]_vars =>
          [\A f \in Fetch : Ended(f, "served") =>
              \A i \in DOMAIN Want[f] :
                 /\ Want[f][i] \notin barred[f]
                 /\ got[f][i] = "document" => Want[f][i] \notin veiled[f]]_vars
    <2> SUFFICES ASSUME ServingInv, Next, NEW f \in Fetch, Ended(f, "served"),
                        NEW i \in DOMAIN Want[f]
                 PROVE  /\ Want[f][i] \notin barred[f]
                        /\ got[f][i] = "document" => Want[f][i] \notin veiled[f]
      BY Zenon
    <2>1. ServingTypeOK /\ FoundInv(f) /\ \A g \in Fetch : Pace(g)
      BY Zenon DEF ServingInv, FoundInv
    <2>2. pc[f] = "send"
      BY <2>1, ServedWasSending, Zenon
    <2>3. i \in 1..Len(got[f])
      BY <2>1, <2>2, WantAssumption DEF Pace
    <2> QED
      BY <2>1, <2>3, Zenon DEF FoundInv
  <1>2. Init => ServingInv
    BY ServingInit, Zenon
  <1> QED
    BY <1>1, <1>2, ServingStep, PTL DEF Spec, WithheldIsNotServed

\* Why a fetch is told that a hash is gone.
LEMMA PermissionHasAReason ==
    ASSUME ServingTypeOK, \A f \in Fetch : Pace(f), Next, NEW f \in Fetch, Ended(f, "permission")
    PROVE  /\ pc[f] \in Looking
           /\ \/ Checked(f) \in blocked \cup corrupt \cup hidden
              \/ pc[f] = "document" /\ data["document"][Checked(f)] = "none"
  <1>1. /\ FetchStep(f) \/ HeadFails(f)
        /\ pc[f] # "idle" /\ pc'[f] = "idle" /\ answer'[f] = "permission"
    BY EndedByItself, Zenon DEF Ended
  <1>2. ~Answer(f, "limit") /\ ~Answer(f, "served") /\ \A call \in Heads : ~Await(f, call)
    BY <1>1, Zenon DEF Answer, Await, ServingTypeOK, Heads
  <1>3. \A k \in Kind \cup {"none"} : Found(f, k) => Checked(f) \in hidden
    BY <1>1, Zenon DEF Found, ServingTypeOK
  <1>4. \A k \in Kind : Present(f, k) => Checked(f) \in hidden
    BY <1>2, <1>3, Zenon DEF Present, Heads
  <1>5. CASE Check(f)
    <2>1. servable[Checked(f)] \in Kind \cup {"none"}
      BY <1>5, InRange, Zenon DEF Check, Looking, ServingTypeOK
    <2> QED
      BY <1>2, <1>3, <1>5, <2>1, Zenon DEF Check, Looking, Heads
  <1>6. CASE HeadBlob(f)
    BY <1>2, <1>4, <1>6, Zenon DEF HeadBlob, Looking, Heads, Kind
  <1>7. CASE HeadDocument(f)
    BY <1>2, <1>4, <1>7, Zenon DEF HeadDocument, Looking, Heads, Kind
  <1>8. CASE HeadOutboard(f)
    BY <1>2, <1>3, <1>8, Zenon DEF HeadOutboard, Looking, Heads, Kind
  <1>9. ~Request(f) /\ ~HeadFails(f) /\ ~SendMismatch(f) /\ ~SendFails(f)
    BY <1>1, <1>2, Zenon DEF Request, HeadFails, SendMismatch, SendFails
  <1>10. ~Send(f)
    BY <1>1, <1>2, Zenon DEF Send
  <1> QED
    BY <1>1, <1>5, <1>6, <1>7, <1>8, <1>9, <1>10, Zenon DEF FetchStep

\* A fetch of hashes that are well stored and free throughout is never told
\* that one is gone: neither between the HEADs of check, nor because of what
\* other fetches and computations find, mark or forget.
THEOREM RefusalsAreDeserved == Spec => FinalIsDeserved
  <1>1. ServingInv /\ [Next]_vars =>
          [\A f \in Fetch : Ended(f, "permission") => steady[f] # Wanted(f)]_vars
    <2> SUFFICES ASSUME ServingInv, Next, NEW f \in Fetch, Ended(f, "permission")
                 PROVE  steady[f] # Wanted(f)
      BY Zenon
    <2>1. ServingTypeOK /\ SteadyInv(f) /\ \A g \in Fetch : Pace(g)
      BY Zenon DEF ServingInv, FoundInv
    <2>2. /\ pc[f] \in Looking
          /\ \/ Checked(f) \in blocked \cup corrupt \cup hidden
             \/ pc[f] = "document" /\ data["document"][Checked(f)] = "none"
      BY <2>1, PermissionHasAReason, Zenon
    <2>3. Checked(f) \in Wanted(f)
      BY <2>1, <2>2, InRange, Zenon
    <2>4. Checked(f) \notin steady[f]
      BY <2>1, <2>2, Zenon DEF SteadyInv
    <2> QED
      BY <2>3, <2>4, Zenon
  <1>2. Init => ServingInv
    BY ServingInit, Zenon
  <1> QED
    BY <1>1, <1>2, ServingStep, PTL DEF Spec, FinalIsDeserved

-----------------------------------------------------------------------------
(* What is known to be corrupt.                                            *)

INSTANCE FiniteSetTheorems

\* Below the capacity nothing marked is forgotten.
LEMMA MarksAreKept ==
    ASSUME FewHashes, ServingTypeOK, corrupt = spoiled, Marks
    PROVE  corrupt' = spoiled' /\ spoiled \subseteq spoiled'
  <1>1. Cardinality(corrupt) < BadCapacity
    <2>1. Cardinality(corrupt) <= Cardinality(Hash) /\ Cardinality(corrupt) \in Nat
          /\ Cardinality(Hash) \in Nat
      BY FS_Subset, FS_CardinalityType, Zenon DEF FewHashes, ServingTypeOK
    <2>2. BadCapacity \in Nat
      BY LimitAssumption, Zenon
    <2> QED
      BY <2>1, <2>2 DEF FewHashes
  <1>2. ~(Cardinality(corrupt) >= BadCapacity)
    <2>1. Cardinality(corrupt) \in Nat /\ BadCapacity \in Nat
      BY FS_Subset, FS_CardinalityType, LimitAssumption, Zenon DEF FewHashes, ServingTypeOK
    <2> QED
      BY <1>1, <2>1
  <1> QED
    BY <1>2, Zenon DEF Marks, MarkCorrupt

\* A fetch takes no hash that was marked when it began.
LEMMA CorruptByOutcome ==
    ASSUME ServingTypeOK, NEW f \in Fetch, CorruptInv(f), Outcome(f),
           corrupt = spoiled, spoiled \subseteq spoiled'
    PROVE  CorruptInv(f)'
  <1>0. Pace(f)' /\ got[f] \in Seq(Kind) /\ Len(got[f]) \in Nat
    BY PaceStep, FetchCounts, Zenon DEF CorruptInv
  <1>1. CASE Over(f)
    BY <1>0, <1>1, Zenon DEF Over, CorruptInv, Heads
  <1>2. CASE Began(f)
    <2>1. got'[f] = <<>>
      BY <1>2, Zenon DEF Began, CorruptInv, Pace
    <2>2. 1..Len(got'[f]) = {}
      BY <2>1
    <2> QED
      BY <1>0, <1>2, <2>2, Zenon DEF Began, CorruptInv, Heads
  <1>3. CASE Took(f)
    <2>1. PICK k \in Kind : got'[f] = Append(got[f], k)
      BY <1>3, Zenon DEF Took
    <2>2. marked'[f] = marked[f] /\ pc'[f] \notin Heads /\ Cleared(f)
      BY <1>3, Zenon DEF Took, SameAttempt, Heads
    <2>3. Checked(f) \notin marked[f]
      BY <2>2, Zenon DEF Cleared, Looking, CorruptInv
    <2>4. Len(got'[f]) = Len(got[f]) + 1
      BY <1>0, <2>1
    <2>5. ASSUME NEW i \in 1..(Len(got[f]) + 1) PROVE Want[f][i] \notin marked[f]
      <3>1. CASE i = Len(got[f]) + 1
        BY <2>3, <3>1, Zenon DEF Checked
      <3>2. CASE i # Len(got[f]) + 1
        <4>1. i \in 1..Len(got[f])
          BY <1>0, <3>2
        <4> QED
          BY <4>1, Zenon DEF CorruptInv
      <3> QED
        BY <3>1, <3>2, Zenon
    <2> QED
      BY <1>0, <2>2, <2>4, <2>5, Zenon DEF CorruptInv
  <1>4. CASE Waits(f)
    <2>1. Checked(f)' = Checked(f) /\ Checked(f) \notin marked[f]
      BY <1>4, Zenon DEF Waits, Cleared, Looking, CorruptInv, Checked
    <2> QED
      BY <1>0, <1>4, <2>1, Zenon DEF Waits, SameAttempt, CorruptInv
  <1>5. CASE Goes(f)
    BY <1>0, <1>5, Zenon DEF Goes, SameAttempt, CorruptInv, Heads
  <1> QED
    BY <1>1, <1>2, <1>3, <1>4, <1>5, Zenon DEF Outcome

\* Every step keeps the marks and what was found in their sight.
LEMMA MemoryStep ==
    ASSUME FewHashes, ServingInv, MemoryInv, [Next]_vars
    PROVE  MemoryInv'
  <1>0. /\ ServingTypeOK /\ corrupt = spoiled
        /\ \A f \in Fetch : CorruptInv(f) /\ Pace(f)
    BY Zenon DEF ServingInv, MemoryInv, CorruptInv
  <1>1. ASSUME NEW f \in Fetch, pc'[f] = pc[f], got'[f] = got[f], sent'[f] = sent[f],
               marked'[f] = marked[f], spoiled \subseteq spoiled'
        PROVE  CorruptInv(f)'
    <2>1. Pace(f)' /\ Checked(f)' = Checked(f)
      BY <1>0, <1>1, PaceStep, Zenon DEF Checked
    <2> QED
      BY <1>0, <1>1, <2>1, Zenon DEF CorruptInv
  <1>2. CASE Environment \/ UNCHANGED vars
    <2>1. UNCHANGED <<pc, got, sent, corrupt, spoiled, marked>>
      BY <1>2, Zenon DEF Environment, Block, Unblock, Hide, Unhide, Delete, DeleteOutboard,
                  StoreOutboard, Store, EditLeaves, perFetch, vars, history, attempt
    <2> QED
      BY <1>0, <1>1, <2>1, Zenon DEF MemoryInv
  <1>3. ASSUME NEW e \in Fetch, FetchStep(e) \/ HeadFails(e) PROVE MemoryInv'
    <2>1. Outcome(e) /\ Others(e) /\ Marks
      BY <1>0, <1>3, FetchOutcome, Zenon
    <2>2. corrupt' = spoiled' /\ spoiled \subseteq spoiled'
      BY <1>0, <2>1, MarksAreKept, Zenon
    <2>3. CorruptInv(e)'
      BY <1>0, <2>1, <2>2, CorruptByOutcome, Zenon
    <2>4. \A f \in Fetch : f # e => CorruptInv(f)'
      BY <1>1, <2>1, <2>2, Zenon DEF Others, Same, SameAttempt
    <2> QED
      BY <2>2, <2>3, <2>4, Zenon DEF MemoryInv
  <1>4. ASSUME NEW h \in Hash, JobStep(h) PROVE MemoryInv'
    <2>1. UNCHANGED <<pc, got, sent, marked>> /\ Marks
      BY <1>0, <1>4, JobOutcome, Zenon
    <2>2. corrupt' = spoiled' /\ spoiled \subseteq spoiled'
      BY <1>0, <2>1, MarksAreKept, Zenon
    <2> QED
      BY <1>1, <2>1, <2>2, Zenon DEF MemoryInv
  <1>5. CASE Restart
    <2>1. corrupt' = spoiled' /\ \A f \in Fetch : Over(f)
      BY <1>0, <1>5, RestartTypes, Zenon
    <2>2. ASSUME NEW f \in Fetch PROVE CorruptInv(f)'
      <3>1. Pace(f)'
        BY <1>0, <2>1, PaceStep, Zenon DEF Outcome
      <3> QED
        BY <2>1, <3>1, Zenon DEF Over, CorruptInv, Heads
    <2> QED
      BY <2>1, <2>2, Zenon DEF MemoryInv
  <1> QED
    BY <1>2, <1>3, <1>4, <1>5, Zenon DEF Next

\* A hash found not to match its object is refused until the node restarts,
\* also when a check begun before remembers it as servable afterwards, as long
\* as there are fewer hashes than S3Server.corrupt can hold.  At BAD_CAPACITY
\* mark_corrupt forgets them all and starts again.
THEOREM CorruptStaysRefused == ASSUME FewHashes PROVE Spec => CorruptIsRefused
  <1>1. ServingInv /\ MemoryInv /\ [Next]_vars =>
          [\A f \in Fetch : Ended(f, "served") => marked[f] \cap Wanted(f) = {}]_vars
    <2> SUFFICES ASSUME ServingInv, MemoryInv, Next, NEW f \in Fetch, Ended(f, "served"),
                        NEW i \in DOMAIN Want[f]
                 PROVE  Want[f][i] \notin marked[f]
      BY Zenon DEF Wanted
    <2>1. ServingTypeOK /\ CorruptInv(f) /\ \A g \in Fetch : Pace(g)
      BY Zenon DEF ServingInv, FoundInv, MemoryInv
    <2>2. pc[f] = "send"
      BY <2>1, ServedWasSending, Zenon
    <2>3. i \in 1..Len(got[f])
      BY <2>1, <2>2, WantAssumption DEF Pace
    <2> QED
      BY <2>1, <2>3, Zenon DEF CorruptInv
  <1>2. Init => ServingInv /\ MemoryInv
    BY ServingInit, Zenon
  <1>3. ServingInv /\ MemoryInv /\ [Next]_vars => MemoryInv'
    BY MemoryStep, Zenon
  <1> QED
    BY <1>1, <1>2, <1>3, ServingStep, PTL DEF Spec, CorruptIsRefused

=============================================================================
