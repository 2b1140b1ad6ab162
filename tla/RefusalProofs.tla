--------------------------- MODULE RefusalProofs ---------------------------
(***************************************************************************)
(* Proofs about what Admission must refuse: nobody barred throughout is    *)
(* let in (BarInv), an archive taken is sound (IngestInv), and no failed   *)
(* call ends in a success (FaultInv).                                      *)
(***************************************************************************)
EXTENDS AdmissionProofs

(***************************************************************************)
(* Bars.  What a request is refused for is looked at once, somewhere on    *)
(* its way; a bar in force at every moment since was in force then.        *)
(***************************************************************************)
Clear(kind, names) == always \cap {<<kind, n>> : n \in names} = {}

\* The subject of the token, as suspensions spell it; the documents of a
\* publish; the catalog that is read and its owner; the hash that is fetched
\* and the owner of its document; the passkey of a publish.
Subjects == {subject_id_bind(s) : s \in UNION {Texts(m, "sub") : m \in bearer}}
Published == PayloadHashes(job.entries) \cup {p.catalogHash : p \in job.pointer}
Owner == {subject_id_bind(req.sub)}
DocumentOwner ==
    {subject_id_bind(o) : o \in IF req.hash \in DOMAIN Documents THEN Documents[req.hash] ELSE {}}
Passkeys == {c.credential_id : c \in {d \in job.credential : node.status}}

\* Only a publish has a passkey, and one.
HeldInv ==
    /\ req.route # "put" => job.credential = None
    /\ IsOption(job.credential)

\* Which bars a request is past, on a gated node.
PublisherInv ==
    /\ req.route \in {"session", "put"} /\ pc \in {"device", "decide"} =>
        Clear("suspended", Subjects) \/ (Shadow /\ ~ job.local)
    /\ pc \in Publishes \/ Passed({"session", "put"}) => Clear("suspended", Subjects)
    /\ pc \in {"sizes", "manifests", "status"} \/ Passed({"put"}) =>
        Clear("blocked", Published)

ReaderInv ==
    /\ req.route = "get" =>
        /\ pc \in {"pointer", "attribute", "device", "decide"} \/ Passed({"get"}) =>
            Clear("hidden", Owner)
        /\ pc \in {"attribute", "device", "decide"} \/ Passed({"get"}) =>
            Clear("blocked", job.hash)
    /\ pc = "fetch" \/ Passed({"document", "blob"}) => Clear("blocked", {req.hash})
    /\ Passed({"document"}) => Clear("hidden", DocumentOwner)

BarInv ==
    /\ HeldInv
    /\ always \subseteq bars
    /\ node.gated => PublisherInv /\ ReaderInv
    /\ Passed({"put"}) => Clear("revoked", Passkeys)

\* The token names one subject, the one of its verified claims.
LEMMA TheSubject ==
  ASSUME RequestForm(req), NEW iss, NEW aud, NEW at,
         NEW c \in VerifiedClaims(The(bearer), iss, aud, at)
  PROVE  Subjects \subseteq {subject_id_bind(c.sub)}
<1>1. CASE bearer = None
  BY <1>1, Zenon DEF Subjects, None
<1>2. CASE bearer # None
  <2>1. The(bearer) \in bearer
    BY <1>2, TheOne, Zenon
  <2>2. IsOption(bearer) /\ IsOption(The(bearer).payload)
    BY <2>1, OneBearer, Zenon
  <2>3. bearer = {The(bearer)}
    BY <2>1, <2>2, OnlyOne, Zenon DEF Some
  <2>4. Texts(The(bearer), "sub") = {c.sub}
    BY <2>2, VerifiedSub, Zenon DEF Some
  <2>5. UNION {Texts(m, "sub") : m \in bearer} = {c.sub}
    BY <2>3, <2>4, Zenon
  <2> QED BY <2>5, Zenon DEF Subjects
<1> QED BY <1>1, <1>2, Zenon

\* A step of the handler leaves the request, the node and the bars alone.
LEMMA BarFrame ==
  ASSUME UNCHANGED <<req, node, world>>
  PROVE  /\ UNCHANGED <<always, bars, Subjects, Owner, DocumentOwner>>
         /\ Shadow' <=> Shadow
<1>1. UNCHANGED <<always, bars>>
  BY Zenon DEF world
<1>2. Subjects' = Subjects
  BY Zenon DEF Subjects, bearer
<1>3. Owner' = Owner /\ DocumentOwner' = DocumentOwner
  BY Zenon DEF Owner, DocumentOwner
<1>4. Shadow' <=> Shadow
  BY Zenon DEF Shadow
<1> QED BY <1>1, <1>2, <1>3, <1>4, Zenon

\* An error status is past no bar.
LEMMA RefusesBarred ==
  ASSUME BarInv, UNCHANGED <<req, node, world>>,
         NEW status, ~ (status \in {200, 201, 304}), Answer(status)
  PROVE  BarInv'
<1>1. job' = job /\ pc' = "done" /\ ~ Success'
  BY Zenon DEF Answer, Answered, Success, OK
<1>2. HeldInv'
  BY <1>1, BarFrame, Zenon DEF BarInv, HeldInv, Publishes
<1>3. (always \subseteq bars)' /\ ~ Passed({"session", "put"})' /\ ~ Passed({"put"})'
      /\ ~ Passed({"get"})' /\ ~ Passed({"document", "blob"})' /\ ~ Passed({"document"})'
  BY <1>1, BarFrame, Zenon DEF BarInv, Passed
<1>4. PublisherInv' /\ ReaderInv'
  BY <1>1, <1>3, Zenon DEF PublisherInv, ReaderInv, Publishes
<1> QED BY <1>2, <1>3, <1>4, Zenon DEF BarInv

\* Admitting a publisher who is not suspended.
LEMMA AdmitsBarred ==
  ASSUME AInv, BarInv, req.route \in {"session", "put"}, UNCHANGED <<req, node, world>>,
         node.gated => Clear("suspended", Subjects),
         NEW claims, NEW chain, Admitted(claims, chain)
  PROVE  BarInv'
<1>1. DOMAIN job = DOMAIN NewJob
  BY Zenon DEF AInv, JobInv
<1>2. /\ pc' \in {"done", "body"} /\ job'.credential = job.credential
      /\ Passed({"put"})' => FALSE
  <2>1. CASE req.route = "session"
    <3>1. pc' = "done"
      BY <2>1, Zenon DEF Admitted, OpenSession, Answer, Answered
    <3>2. \/ job' = job
          \/ \E x : job' = [job EXCEPT !.session = x]
      BY <2>1, Zenon DEF Admitted, OpenSession, Answer, Answered
    <3>3. job'.credential = job.credential
      BY <1>1, <3>2, Zenon DEF NewJob
    <3> QED BY <2>1, <3>1, <3>3, Zenon DEF Passed
  <2>2. CASE req.route = "put"
    <3>1. CASE answer' \in {403, 415} /\ pc' = "done" /\ job' = job
      BY <3>1 DEF Passed, Success, OK
    <3>2. CASE pc' = "body" /\ job' = [job EXCEPT !.claims = Some(claims)]
      BY <1>1, <3>2, Zenon DEF Passed, NewJob
    <3> QED BY <2>2, <3>1, <3>2, PublishingOutcome DEF Admitted
  <2> QED BY <2>1, <2>2, Zenon
<1>3. HeldInv'
  BY <1>2, BarFrame, Zenon DEF BarInv, HeldInv, Publishes
<1>4. node.gated => PublisherInv'
  BY <1>2, BarFrame, Zenon DEF PublisherInv, Clear
<1>5. ReaderInv'
  BY <1>2, BarFrame, Zenon DEF ReaderInv, Passed
<1> QED BY <1>2, <1>3, <1>4, <1>5, BarFrame, Zenon DEF BarInv

\* So does the local answer, which is no to a suspended publisher.
LEMMA EnforcesBarred ==
  ASSUME AInv, BarInv, req.route \in {"session", "put"}, UNCHANGED <<req, node, world>>,
         NEW claims, NEW local, NEW chain,
         node.gated => Clear("suspended", Subjects) \/ ~ local,
         LocalAnswer(claims, local, chain)
  PROVE  BarInv'
<1>1. CASE Admitted(claims, chain) /\ (node.gated => Clear("suspended", Subjects))
  BY <1>1, AdmitsBarred, Zenon
<1>2. CASE Answer(403)
  BY <1>2, RefusesBarred
<1> QED BY <1>1, <1>2, Zenon DEF LocalAnswer

\* A chain that is refused leaves the local answer, in shadow.
LEMMA UnchainedBarred ==
  ASSUME AInv, BarInv, req.route \in {"session", "put", "get"}, UNCHANGED <<req, node, world>>,
         NEW claims, NEW local, NEW status, ~ (status \in {200, 201, 304}),
         req.route # "get" /\ node.gated =>
            Clear("suspended", Subjects) \/ (Shadow /\ ~ local),
         NoChain(claims, local, status)
  PROVE  BarInv'
<1>1. CASE Shadow
  <2>1. LocalAnswer(claims, local, None) /\ req.route \in {"session", "put"}
    BY <1>1, Zenon DEF NoChain, Shadow
  <2> QED BY <2>1, EnforcesBarred, Zenon
<1>2. CASE ~ Shadow
  BY <1>2, RefusesBarred, Zenon DEF NoChain
<1> QED BY <1>1, <1>2, Zenon

\* A request whose chain is verified is past its suspension, or the local
\* answer of shadow is no; a reader is past the bars of the catalog.
LEMMA ChainsBarred ==
  ASSUME AInv, BarInv, req.route \in {"session", "put", "get"}, UNCHANGED <<req, node, world>>,
         NEW claims, NEW held, DOMAIN held = DOMAIN NewJob,
         held.credential = job.credential, held.hash = job.hash,
         req.route # "get" /\ node.gated =>
            Clear("suspended", Subjects) \/ (Shadow /\ ~ held.local),
         req.route = "get" /\ node.gated =>
            Clear("hidden", Owner) /\ Clear("blocked", job.hash),
         Devices(claims, held)
  PROVE  BarInv'
<1>1. CASE NoChain(claims, held.local, 400)
  BY <1>1, UnchainedBarred
<1>2. CASE ~ NoChain(claims, held.local, 400)
  <2>1. /\ pc' \in {"decide", "device"}
        /\ job'.credential = job.credential /\ job'.hash = job.hash /\ job'.local = held.local
    BY <1>2, Zenon DEF Devices, Await, NewJob
  <2>2. HeldInv'
    BY <2>1, BarFrame, Zenon DEF BarInv, HeldInv, Publishes
  <2>3. node.gated => PublisherInv'
    BY <2>1, BarFrame, Zenon DEF PublisherInv, Clear, Passed, Publishes
  <2>4. node.gated => ReaderInv'
    BY <2>1, BarFrame, Zenon DEF ReaderInv, Clear, Passed
  <2> QED BY <2>1, <2>2, <2>3, <2>4, BarFrame, Zenon DEF BarInv, Passed
<1> QED BY <1>1, <1>2, Zenon

\* The checks before the first call: a fetch is past the block of its hash.
LEMMA BeginBarred == ASSUME AInv, BarInv, Begin PROVE BarInv'
<1>1. /\ pc = "start" /\ UNCHANGED <<req, node, world>>
      /\ DOMAIN job = DOMAIN NewJob /\ req.route \in Routes
  BY Zenon DEF Begin, AInv, JobInv, RouteInv
<1>2. CASE req.route \in {"session", "put", "get", "operator"}
  <2>1. AnswerOr(BeforeToken, "token", [job EXCEPT !.at = now])
    BY <1>2, Zenon DEF Begin
  <2>2. CASE BeforeToken # OK
    <3>1. Answer(BeforeToken) /\ ~ (BeforeToken \in {200, 201, 304})
      BY <2>1, <2>2, BeforeTokenRefuses DEF AnswerOr, OK
    <3> QED BY <1>1, <3>1, RefusesBarred, Zenon
  <2>3. CASE BeforeToken = OK
    <3>1. pc' = "token" /\ job'.credential = job.credential
      BY <1>1, <2>1, <2>3, Zenon DEF AnswerOr, Await, NewJob
    <3>2. HeldInv' /\ PublisherInv' /\ ReaderInv'
      BY <1>1, <3>1, BarFrame, Zenon DEF BarInv, HeldInv, PublisherInv, ReaderInv, Publishes, Passed
    <3> QED BY <1>1, <3>1, <3>2, BarFrame, Zenon DEF BarInv, Passed
  <2> QED BY <2>2, <2>3, Zenon
<1>3. CASE req.route \in {"document", "blob"}
  <2> DEFINE checks == << <<~ is_lower_hex_hash(req.hash), 400>>, <<is_blocked(req.hash), 404>> >>
             S == {400, 404}
  <2>1. /\ DOMAIN checks \subseteq 1 .. 4 /\ \A i \in DOMAIN checks : checks[i][2] \in S
        /\ 2 \in DOMAIN checks
    OBVIOUS
  <2>2. AnswerOr(FirstOf(checks), "fetch", job)
    BY <1>3, Zenon DEF Begin, OnHash
  <2>3. checks[2][1] = is_blocked(req.hash)
    BY Zenon
  <2> HIDE DEF checks, S
  <2>4. CASE FirstOf(checks) # OK
    <3>1. FirstOf(checks) \in S
      BY <2>1, <2>4, FirstOfIn, Zenon
    <3>2. Answer(FirstOf(checks)) /\ ~ (FirstOf(checks) \in {200, 201, 304})
      BY <2>2, <2>4, <3>1 DEF AnswerOr, S
    <3> QED BY <1>1, <3>2, RefusesBarred, Zenon
  <2>5. CASE FirstOf(checks) = OK
    <3>1. \A i \in DOMAIN checks : ~ checks[i][1]
      BY <2>1, <2>5, FirstOfOK DEF OK, S
    <3>2. ~ is_blocked(req.hash)
      BY <2>1, <2>3, <3>1, Zenon
    <3>3. node.gated => Clear("blocked", {req.hash})
      BY <3>2, Zenon DEF is_blocked, Clear, BarInv
    <3>4. pc' = "fetch" /\ job' = job
      BY <2>2, <2>5, Zenon DEF AnswerOr, Await
    <3>5. HeldInv' /\ PublisherInv' /\ (node.gated => ReaderInv')
      BY <1>1, <1>3, <3>3, <3>4, BarFrame, Zenon
         DEF BarInv, HeldInv, PublisherInv, ReaderInv, Publishes, Passed, Clear
    <3> QED BY <1>1, <3>4, <3>5, BarFrame, Zenon DEF BarInv, Passed
  <2> QED BY <2>4, <2>5, Zenon
<1>4. CASE req.route = "ingest"
  <2>1. pc' = "done" /\ job' = job
    BY <1>4, Zenon DEF Begin, Answer, Answered
  <2>2. HeldInv' /\ PublisherInv' /\ ReaderInv'
    BY <1>1, <1>4, <2>1, BarFrame, Zenon
       DEF BarInv, HeldInv, PublisherInv, ReaderInv, Publishes, Passed
  <2> QED BY <1>1, <1>4, <2>1, <2>2, BarFrame, Zenon DEF BarInv, Passed
<1> QED BY <1>1, <1>2, <1>3, <1>4, Zenon DEF Routes

\* A reader is past the owner's hiding once the pointer is read.
LEMMA ReaderBarred ==
  ASSUME AInv, BarInv, req.route = "get", UNCHANGED <<req, node, world>>,
         NEW claims, Reader(claims)
  PROVE  BarInv'
<1> DEFINE checks == << <<~ valid_identifier(req.sub, MaxOwner), 400>>,
                        <<owner_hidden(Some(req.sub)), 404>> >>
           S == {400, 404}
<1>1. /\ DOMAIN checks \subseteq 1 .. 4 /\ \A i \in DOMAIN checks : checks[i][2] \in S
      /\ 2 \in DOMAIN checks
  OBVIOUS
<1>2. AnswerOr(FirstOf(checks), "pointer", [job EXCEPT !.claims = Some(claims)])
  BY Zenon DEF Reader
<1>3. checks[2][1] = owner_hidden(Some(req.sub))
  BY Zenon
<1> HIDE DEF checks, S
<1>4. CASE FirstOf(checks) # OK
  <2>1. FirstOf(checks) \in S
    BY <1>1, <1>4, FirstOfIn, Zenon
  <2>2. Answer(FirstOf(checks)) /\ ~ (FirstOf(checks) \in {200, 201, 304})
    BY <1>2, <1>4, <2>1 DEF AnswerOr, S
  <2> QED BY <2>2, RefusesBarred, Zenon
<1>5. CASE FirstOf(checks) = OK
  <2>1. \A i \in DOMAIN checks : ~ checks[i][1]
    BY <1>1, <1>5, FirstOfOK DEF OK, S
  <2>2. ~ owner_hidden(Some(req.sub))
    BY <1>1, <1>3, <2>1, Zenon
  <2>3. node.gated => Clear("hidden", Owner)
    BY <2>2, Zenon DEF owner_hidden, catalog_hidden, Some, Clear, Owner, BarInv
  <2>4. pc' = "pointer" /\ job'.credential = job.credential
    BY <1>2, <1>5, Zenon DEF AnswerOr, Await, AInv, JobInv, NewJob
  <2>5. HeldInv' /\ PublisherInv' /\ (node.gated => ReaderInv')
    BY <2>3, <2>4, BarFrame, Zenon
       DEF BarInv, HeldInv, PublisherInv, ReaderInv, Publishes, Passed, Clear
  <2> QED BY <2>4, <2>5, BarFrame, Zenon DEF BarInv, Passed
<1> QED BY <1>4, <1>5, Zenon

\* A publisher is past the suspension once it was looked at, unless shadow
\* asks on and will enforce a no.
LEMMA PublisherBarred ==
  ASSUME AInv, BarInv, req.route \in {"session", "put"}, UNCHANGED <<req, node, world>>,
         NEW claims, Subjects \subseteq {subject_id_bind(claims.sub)}, Publisher(claims)
  PROVE  BarInv'
<1> DEFINE local == ~ is_suspended(claims.sub)
                    /\ node.entitlement \subseteq Entries(claims.arkavo_entitlements)
           held == [job EXCEPT !.local = local]
<1>1. ~ is_suspended(claims.sub) => Clear("suspended", Subjects)
  BY Zenon DEF is_suspended, Clear, BarInv
<1>2. \/ Answer(403)
      \/ LocalAnswer(claims, local, None)
      \/ /\ is_suspended(claims.sub) => node.decisions = "shadow"
         /\ Devices(claims, held)
  BY Zenon DEF Publisher
<1>3. local => Clear("suspended", Subjects)
  BY <1>1, Zenon
<1>4. /\ DOMAIN held = DOMAIN NewJob /\ held.credential = job.credential
      /\ held.hash = job.hash /\ (held.local => ~ is_suspended(claims.sub))
  BY Zenon DEF AInv, JobInv, NewJob
<1> HIDE DEF local, held
<1>5. CASE Answer(403)
  BY <1>5, RefusesBarred
<1>6. CASE LocalAnswer(claims, local, None)
  BY <1>3, <1>6, EnforcesBarred, Zenon
<1>7. CASE /\ is_suspended(claims.sub) => node.decisions = "shadow"
           /\ Devices(claims, held)
  <2>1. Clear("suspended", Subjects) \/ (Shadow /\ ~ held.local)
    BY <1>1, <1>4, <1>7, Zenon DEF Shadow
  <2> QED BY <1>4, <1>7, <2>1, ChainsBarred, Zenon
<1> QED BY <1>2, <1>5, <1>6, <1>7, Zenon

\* The verification of the token keeps the bars a request is past.
LEMMA TokenBarred == ASSUME AInv, OpenInv, BarInv, Token PROVE BarInv'
<1> DEFINE V == VerifiedClaims(The(bearer), node.issuer, Audience, job.at)
<1>1. /\ pc = "token" /\ UNCHANGED <<req, node, world>>
      /\ req.route \in {"session", "put", "get", "operator"} /\ DOMAIN job = DOMAIN NewJob
  BY Zenon DEF Token, AInv, RouteInv, JobInv
<1>2. Answer(502) \/ Answer(401) \/ \E c \in V : WithClaims(c)
  BY TokenOutcome, Zenon
<1> HIDE DEF V
<1>3. CASE Answer(502) \/ Answer(401)
  BY <1>1, <1>3, RefusesBarred
<1>4. ASSUME NEW claims \in V, WithClaims(claims) PROVE BarInv'
  <2>1. Subjects \subseteq {subject_id_bind(claims.sub)}
    BY TheSubject, Zenon DEF OpenInv, TakenInv, V
  <2>2. CASE req.route = "operator"
    <3>1. pc' = "done" /\ job'.credential = job.credential
      BY <1>1, <1>4, <2>2, Zenon DEF WithClaims, Answered, NewJob
    <3>2. HeldInv' /\ PublisherInv' /\ ReaderInv'
      BY <1>1, <2>2, <3>1, BarFrame, Zenon
         DEF BarInv, HeldInv, PublisherInv, ReaderInv, Publishes, Passed
    <3> QED BY <1>1, <2>2, <3>1, <3>2, BarFrame, Zenon DEF BarInv, Passed
  <2>3. CASE req.route = "get"
    BY <1>1, <1>4, <2>3, ReaderBarred, Zenon DEF WithClaims
  <2>4. CASE req.route \in {"session", "put"} /\ node.gated
    BY <1>1, <1>4, <2>1, <2>4, PublisherBarred, Zenon DEF WithClaims
  <2>5. CASE req.route = "put" /\ ~ node.gated
    <3>1. Admitted(claims, None)
      BY <1>4, <2>5, Zenon DEF WithClaims
    <3> QED BY <1>1, <2>5, <3>1, AdmitsBarred, Zenon
  <2>6. req.route = "session" => node.gated
    BY Zenon DEF AInv, RouteInv
  <2> QED BY <1>1, <2>2, <2>3, <2>4, <2>5, <2>6, Zenon
<1> QED BY <1>2, <1>3, <1>4, Zenon

\* So does the verification of one device.
LEMMA DeviceBarred == ASSUME AInv, BarInv, Device PROVE BarInv'
<1>1. /\ pc = "device" /\ UNCHANGED <<req, node, world>>
      /\ req.route \in {"session", "put", "get"} /\ DOMAIN job = DOMAIN NewJob
  BY Zenon DEF Device, AInv, RouteInv, JobInv
<1>2. \/ NoChain(The(job.claims), job.local, 401)
      \/ /\ pc' \in {"decide", "device"}
         /\ \E entity : job' = [job EXCEPT !.rest = Tail(@), !.chain = Append(@, entity)]
  BY Zenon DEF Device, Await
<1>3. CASE NoChain(The(job.claims), job.local, 401)
  <2>1. req.route # "get" /\ node.gated =>
            Clear("suspended", Subjects) \/ (Shadow /\ ~ job.local)
    BY <1>1, Zenon DEF BarInv, PublisherInv
  <2> QED BY <1>1, <1>3, <2>1, UnchainedBarred
<1>4. ASSUME pc' \in {"decide", "device"}, NEW entity,
             job' = [job EXCEPT !.rest = Tail(@), !.chain = Append(@, entity)]
      PROVE  BarInv'
  <2>1. job'.credential = job.credential /\ job'.hash = job.hash /\ job'.local = job.local
    BY <1>1, <1>4, Zenon DEF NewJob
  <2>2. HeldInv'
    BY <1>1, <1>4, <2>1, BarFrame, Zenon DEF BarInv, HeldInv, Publishes
  <2>3. node.gated => PublisherInv'
    BY <1>1, <1>4, <2>1, BarFrame, Zenon DEF BarInv, PublisherInv, Clear, Passed, Publishes
  <2>4. node.gated => ReaderInv'
    BY <1>1, <1>4, <2>1, BarFrame, Zenon DEF BarInv, ReaderInv, Clear, Passed
  <2> QED BY <1>1, <1>4, <2>2, <2>3, <2>4, BarFrame, Zenon DEF BarInv, Passed
<1> QED BY <1>2, <1>3, <1>4, Zenon

\* So does the decision: a permit never outweighs a bar.
LEMMA DecideBarred == ASSUME AInv, BarInv, Decide PROVE BarInv'
<1>1. /\ pc = "decide" /\ UNCHANGED <<req, node, world>>
      /\ req.route \in {"session", "put", "get"}
  BY Zenon DEF Decide, AInv, RouteInv
<1>2. \/ Permitted
      \/ NotPermitted(403)
      \/ NotPermitted(502) \/ NotPermitted(503)
  BY Zenon DEF Decide
<1>3. req.route # "get" /\ node.gated =>
            Clear("suspended", Subjects) \/ (Shadow /\ ~ job.local)
  BY <1>1, Zenon DEF BarInv, PublisherInv
<1>4. ASSUME NEW status \in {403, 502, 503}, NotPermitted(status) PROVE BarInv'
  <2>1. ~ (status \in {200, 201, 304})
    OBVIOUS
  <2>2. NoChain(The(job.claims), job.local, status)
    BY <1>4, Zenon DEF NotPermitted, NoChain
  <2> QED BY <1>1, <1>3, <2>1, <2>2, UnchainedBarred
<1>5. CASE Permitted /\ req.route = "get"
  <2>1. pc' = "done" /\ job' = job
    BY <1>5, Zenon DEF Permitted, Answer, Answered
  <2>2. HeldInv' /\ PublisherInv' /\ (node.gated => ReaderInv')
    BY <1>1, <1>5, <2>1, BarFrame, Zenon
       DEF BarInv, HeldInv, PublisherInv, ReaderInv, Publishes, Passed, Clear
  <2> QED BY <1>1, <1>5, <2>1, <2>2, BarFrame, Zenon DEF BarInv, Passed
<1>6. CASE Permitted /\ req.route # "get" /\ Shadow
  <2>1. LocalAnswer(The(job.claims), job.local, Some(Chain))
    BY <1>6, Zenon DEF Permitted
  <2> QED BY <1>1, <1>3, <1>6, <2>1, EnforcesBarred, Zenon
<1>7. CASE Permitted /\ req.route # "get" /\ ~ Shadow
  <2>1. Admitted(The(job.claims), Some(Chain))
    BY <1>7, Zenon DEF Permitted
  <2> QED BY <1>1, <1>3, <1>7, <2>1, AdmitsBarred, Zenon
<1> QED BY <1>2, <1>4, <1>5, <1>6, <1>7

\* The reads of a reader: the catalog is past its block once the pointer is
\* read.
LEMMA ReadPointerBarred == ASSUME AInv, BarInv, ReadPointer PROVE BarInv'
<1> DEFINE hash == Catalogs[req.sub].hash
<1>1. /\ pc = "pointer" /\ UNCHANGED <<req, node, world>> /\ req.route = "get"
      /\ DOMAIN job = DOMAIN NewJob
  BY Zenon DEF ReadPointer, AInv, RouteInv, JobInv
<1>2. \/ Answer(404) \/ Answer(502)
      \/ ~ is_blocked(hash) /\ pc' = "attribute" /\ job' = [job EXCEPT !.hash = Some(hash)]
  BY DEF ReadPointer, AnswerOr, Await, OK
<1> HIDE DEF hash
<1>3. CASE Answer(404) \/ Answer(502)
  BY <1>1, <1>3, RefusesBarred
<1>4. CASE ~ is_blocked(hash) /\ pc' = "attribute" /\ job' = [job EXCEPT !.hash = Some(hash)]
  <2>1. job'.credential = job.credential /\ job'.hash = {hash}
    BY <1>1, <1>4, Zenon DEF NewJob, Some
  <2>2. node.gated => (Clear("blocked", job.hash) /\ Clear("hidden", Owner))'
    BY <1>1, <1>4, <2>1, BarFrame, Zenon DEF is_blocked, Clear, BarInv, ReaderInv
  <2>3. HeldInv' /\ PublisherInv' /\ (node.gated => ReaderInv')
    BY <1>1, <1>4, <2>1, <2>2, BarFrame, Zenon
       DEF BarInv, HeldInv, PublisherInv, ReaderInv, Publishes, Passed
  <2> QED BY <1>1, <1>4, <2>3, BarFrame, Zenon DEF BarInv, Passed
<1> QED BY <1>2, <1>3, <1>4, Zenon

\* Who skips the decision or goes on to it is past both.
LEMMA ReadAttributeBarred == ASSUME AInv, BarInv, ReadAttribute PROVE BarInv'
<1> DEFINE held == [job EXCEPT !.attribute = Catalogs[req.sub].attribute]
<1>1. /\ pc = "attribute" /\ UNCHANGED <<req, node, world>> /\ req.route = "get"
      /\ DOMAIN job = DOMAIN NewJob
  BY Zenon DEF ReadAttribute, AInv, RouteInv, JobInv
<1>2. \/ Answer(404) \/ Answer(502) \/ Answer(OK)
      \/ Devices(The(job.claims), held)
  BY Zenon DEF ReadAttribute
<1>3. node.gated => Clear("hidden", Owner) /\ Clear("blocked", job.hash)
  BY <1>1, Zenon DEF BarInv, ReaderInv
<1>4. /\ DOMAIN held = DOMAIN NewJob /\ held.credential = job.credential
      /\ held.hash = job.hash
  BY <1>1, Zenon DEF NewJob
<1> HIDE DEF held
<1>5. CASE Answer(404) \/ Answer(502)
  BY <1>1, <1>5, RefusesBarred
<1>6. CASE Answer(OK)
  <2>1. pc' = "done" /\ job' = job
    BY <1>6, Zenon DEF Answer, Answered
  <2>2. HeldInv' /\ PublisherInv' /\ (node.gated => ReaderInv')
    BY <1>1, <1>3, <2>1, BarFrame, Zenon
       DEF BarInv, HeldInv, PublisherInv, ReaderInv, Publishes, Passed, Clear
  <2> QED BY <1>1, <2>1, <2>2, BarFrame, Zenon DEF BarInv, Passed
<1>7. CASE Devices(The(job.claims), held)
  BY <1>1, <1>3, <1>4, <1>7, ChainsBarred, Zenon
<1> QED BY <1>2, <1>5, <1>6, <1>7, Zenon

\* A document that is served is past the hiding of its owner.
LEMMA FetchBarred == ASSUME AInv, BarInv, Fetch PROVE BarInv'
<1>1. /\ pc = "fetch" /\ UNCHANGED <<req, node, world>>
      /\ req.route \in {"document", "blob"}
  BY Zenon DEF Fetch, AInv, RouteInv
<1>2. pc' = "done" /\ job' = job
  BY <1>1, Zenon DEF Fetch, Answer, Answered
<1>3. node.gated => Clear("blocked", {req.hash})
  BY <1>1, Zenon DEF BarInv, ReaderInv
<1>4. node.gated /\ Passed({"document"})' => Clear("hidden", DocumentOwner)
  <2> SUFFICES ASSUME node.gated, Passed({"document"})' PROVE Clear("hidden", DocumentOwner)
    BY Zenon
  <2>1. ~ owner_hidden(Documents[req.hash])
    <3>1. req.route = "document" /\ answer' \in {200, 201, 304}
      BY <1>1, Zenon DEF Passed, Success, OK
    <3>2. \/ answer' = 502
          \/ answer' = IF req.hash \notin DOMAIN Documents THEN 404
                       ELSE IF owner_hidden(Documents[req.hash]) THEN 404
                       ELSE IF req.revalidates THEN 304 ELSE OK
      BY <3>1, Zenon DEF Fetch, Answer, Answered
    <3> QED BY <3>1, <3>2
  <2> QED BY <2>1, Zenon DEF owner_hidden, catalog_hidden, Clear, DocumentOwner, BarInv
<1>5. HeldInv' /\ PublisherInv' /\ (node.gated => ReaderInv')
  BY <1>1, <1>2, <1>3, <1>4, BarFrame, Zenon
     DEF BarInv, HeldInv, PublisherInv, ReaderInv, Publishes, Passed, Clear
<1> QED BY <1>1, <1>2, <1>5, BarFrame, Zenon DEF BarInv, Passed

\* The body of a publish bars nothing.
LEMMA BodyBarred == ASSUME AInv, OpenInv, BarInv, Body PROVE BarInv'
<1>1. /\ pc = "body" /\ UNCHANGED <<req, node, world>> /\ req.route = "put"
      /\ DOMAIN job = DOMAIN NewJob
  BY Zenon DEF Body, AInv, RouteInv, Publishes, JobInv
<1>2. \/ pc' = "done" /\ ~ Success' /\ job' = job
      \/ pc' = "credential" /\ job'.credential = job.credential
  BY <1>1, BodyRefuses DEF Body, AnswerOr, Answer, Answered, Await, Success, OK, NewJob
<1>3. HeldInv' /\ ~ Passed({"put"})'
  BY <1>1, <1>2, BarFrame, Zenon DEF BarInv, HeldInv, Passed
<1>4. node.gated => PublisherInv' /\ ReaderInv'
  BY <1>1, <1>2, BarFrame, Zenon DEF BarInv, PublisherInv, ReaderInv, Publishes, Passed, Clear
<1> QED BY <1>1, <1>3, <1>4, BarFrame, Zenon DEF BarInv

\* The blocks are looked at once the credential is verified.
LEMMA CredentialBarred == ASSUME AInv, OpenInv, BarInv, Credential PROVE BarInv'
<1>1. /\ pc = "credential" /\ UNCHANGED <<req, node, world>> /\ req.route = "put"
      /\ DOMAIN job = DOMAIN NewJob /\ RequestForm(req) /\ BodyStatus = OK
  BY Zenon DEF Credential, AInv, RouteInv, Publishes, JobInv, OpenInv, TakenInv
<1> DEFINE Goes(found) == Await(IF The(Indexed) = <<>> THEN "status" ELSE "sizes",
                             [job EXCEPT !.pointer = Some(ThePointer), !.credential = found,
                                         !.attribute = Envelope,
                                         !.entries = The(Indexed),
                                         !.todo = PayloadHashes(The(Indexed))])
<1>2. \/ \E status \in {502, 422, 403} : Answer(status)
      \/ /\ DocumentStatus(ThePointer) = OK
         /\ \E found \in SUBSET Credentialed : Goes(found)
  BY CredentialOutcome, ZenonT(30)
<1>3. ASSUME NEW status \in {502, 422, 403}, Answer(status) PROVE BarInv'
  BY <1>1, <1>3, RefusesBarred
<1>4. ASSUME DocumentStatus(ThePointer) = OK, NEW found \in SUBSET Credentialed, Goes(found)
      PROVE  BarInv'
  <2>1. /\ job'.pointer = Some(ThePointer) /\ job'.entries = The(Indexed)
        /\ job'.credential = found /\ pc' \in {"status", "sizes"}
    BY <1>1, <1>4, Zenon DEF Await, NewJob
  <2> HIDE DEF Goes
  <2>2. IsOption(found)
    <3>1. /\ AttestationOf(TheBundle) # None /\ Struct(req.body.value, PutRequest)
          /\ req.body.syntax /\ parse_bundle(Member(req.body.value, "bundle")) # None
      BY <1>1, BodyTaken, Zenon
    <3>2. TheBundle \in parse_bundle(Member(req.body.value, "bundle"))
      BY <3>1, TheOne, Zenon DEF TheBundle
    <3>3. Attested \in AttestationOf(TheBundle)
      BY <3>1, TheOne, Zenon DEF Attested
    <3>4. IsOption(Attested.payload)
      BY <1>1, <3>1, <3>2, <3>3, Zenon DEF RequestForm
    <3>5. found \subseteq VerifiedCredential(Attested, node.issuer, job.at)
      BY Zenon DEF Credentialed
    <3> QED BY <3>4, <3>5, OneCredential, Zenon
  <2>3. Published' = {ThePointer.catalogHash} \cup PayloadHashes(The(Indexed))
    BY <2>1, Zenon DEF Published, PayloadHashes, Some
  <2>4. \A h \in {ThePointer.catalogHash} \cup PayloadHashes(The(Indexed)) : ~ is_blocked(h)
    BY <1>4, DocumentTaken, Zenon
  <2>5. node.gated => Clear("blocked", Published)'
    BY <1>1, <2>3, <2>4, BarFrame, Zenon DEF is_blocked, Clear, BarInv
  <2>6. HeldInv' /\ ~ Passed({"put"})'
    BY <1>1, <2>1, <2>2, Zenon DEF HeldInv, Passed
  <2>7. node.gated => PublisherInv'
    <3>1. node.gated => Clear("suspended", Subjects)'
      BY <1>1, BarFrame, Zenon DEF BarInv, PublisherInv, Publishes, Clear
    <3> QED BY <2>1, <2>5, <3>1, Zenon DEF PublisherInv
  <2>8. ReaderInv'
    BY <1>1, <2>1, Zenon DEF ReaderInv, Passed
  <2> QED BY <1>1, <2>6, <2>7, <2>8, BarFrame, Zenon DEF BarInv
<1> QED BY <1>2, <1>3, <1>4, ZenonT(30)

\* The lookups bar nothing.
LEMMA LookupBarred == ASSUME AInv, OpenInv, BarInv, LookUp \/ LookedUp PROVE BarInv'
<1>1. /\ pc \in {"sizes", "manifests"} /\ UNCHANGED <<req, node, world>>
      /\ req.route = "put" /\ DOMAIN job = DOMAIN NewJob
  BY Zenon DEF LookUp, LookedUp, AInv, RouteInv, Publishes, JobInv
<1>2. \/ \E status \in {422, 502} : Answer(status)
      \/ /\ pc' \in {"sizes", "manifests", "status"}
         /\ job'.credential = job.credential /\ job'.entries = job.entries
         /\ job'.pointer = job.pointer
  <2>1. CASE LookUp
    BY <2>1, LookUpOutcome, Zenon
  <2>2. CASE LookedUp
    BY <1>1, <2>2, LookedUpOutcome, ZenonT(30) DEF Await, NewJob
  <2> QED BY <2>1, <2>2, Zenon
<1>3. ASSUME NEW status \in {422, 502}, Answer(status) PROVE BarInv'
  BY <1>1, <1>3, RefusesBarred
<1>4. CASE /\ pc' \in {"sizes", "manifests", "status"}
           /\ job'.credential = job.credential /\ job'.entries = job.entries
           /\ job'.pointer = job.pointer
  <2>1. Published' = Published
    BY <1>4, Zenon DEF Published
  <2>2. HeldInv' /\ ~ Passed({"put"})' /\ ReaderInv'
    BY <1>1, <1>4, Zenon DEF BarInv, HeldInv, ReaderInv, Passed
  <2>3. node.gated => PublisherInv'
    BY <1>1, <1>4, <2>1, BarFrame, Zenon DEF BarInv, PublisherInv, Publishes, Clear
  <2> QED BY <1>1, <2>2, <2>3, BarFrame, Zenon DEF BarInv
<1> QED BY <1>2, <1>3, <1>4

\* The status of the passkey is the last thing that is looked at.
LEMMA StatusBarred == ASSUME AInv, OpenInv, BarInv, Status PROVE BarInv'
<1>1. /\ pc = "status" /\ UNCHANGED <<req, node, world, job>> /\ pc' = "done"
      /\ req.route = "put"
  BY Zenon DEF Status, Answer, Answered, AInv, RouteInv, Publishes
<1>2. Published' = Published /\ Passkeys' = Passkeys
  BY <1>1, Zenon DEF Published, Passkeys
<1>3. Passed({"put"})' => Clear("revoked", Passkeys)
  <2> SUFFICES ASSUME Passed({"put"})', NEW d \in job.credential, node.status
               PROVE  <<"revoked", d.credential_id>> \notin bars
    BY Zenon DEF Clear, Passkeys, BarInv
  <2>1. The(job.credential) = d
    BY OnlyOne, Zenon DEF BarInv, HeldInv
  <2>2. answer' = StatusOf(d.credential_id)
    BY <2>1 DEF Status, Answer, Answered, Passed, Success, OK
  <2> QED BY <2>2 DEF StatusOf, Passed, Success, OK
<1>4. HeldInv' /\ ReaderInv'
  BY <1>1, Zenon DEF BarInv, HeldInv, ReaderInv, Passed
<1>5. node.gated => PublisherInv'
  BY <1>1, <1>2, BarFrame, Zenon DEF BarInv, PublisherInv, Publishes, Clear
<1>6. Passed({"put"})' => Clear("revoked", Passkeys)'
  BY <1>1, <1>2, <1>3, BarFrame, Zenon DEF Clear
<1> QED BY <1>1, <1>4, <1>5, <1>6, BarFrame, Zenon DEF BarInv

\* The world only makes fewer bars lasting ones.
LEMMA WorldBarred ==
  ASSUME BarInv, Tick \/ Rotate \/ Moderate \/ Ingest \/ UNCHANGED vars
  PROVE  BarInv'
<1>1. UNCHANGED <<req, node, pc, job, answer>>
  BY Zenon DEF Tick, Rotate, Moderate, Ingest, vars, handler
<1>2. always' \subseteq always /\ always' \subseteq bars'
  BY Zenon DEF Tick, Rotate, Moderate, Ingest, vars, world, BarInv
<1>3. UNCHANGED <<Subjects, Published, Owner, DocumentOwner, Passkeys>>
  BY <1>1, Zenon DEF Subjects, Published, Owner, DocumentOwner, Passkeys, bearer
<1>4. /\ Shadow' <=> Shadow
      /\ \A routes : Passed(routes)' <=> Passed(routes)
  BY <1>1, Zenon DEF Shadow, Passed, Success
<1>5. \A kind, names : always \cap {<<kind, n>> : n \in names} = {} =>
                      always' \cap {<<kind, n>> : n \in names} = {}
  BY <1>2, Zenon
<1>6. HeldInv'
  BY <1>1, Zenon DEF BarInv, HeldInv
<1>7. PublisherInv => PublisherInv'
  BY <1>1, <1>3, <1>4, <1>5, Zenon DEF PublisherInv, Clear
<1>8. ReaderInv => ReaderInv'
  BY <1>1, <1>3, <1>4, <1>5, Zenon DEF ReaderInv, Clear
<1>9. Passed({"put"})' => Clear("revoked", Passkeys)'
  BY <1>3, <1>4, <1>5, Zenon DEF BarInv, Clear
<1> QED BY <1>1, <1>2, <1>6, <1>7, <1>8, <1>9, Zenon DEF BarInv

\* A request that is just here is past no bar.
LEMMA BarInit == Init => BarInv
<1> SUFFICES ASSUME Init PROVE BarInv
  BY Zenon
<1>1. pc = "start" /\ job = NewJob /\ always = bars
  BY Zenon DEF Init
<1> QED BY <1>1, Zenon
        DEF BarInv, HeldInv, PublisherInv, ReaderInv, Publishes, Passed, NewJob, IsOption, None

\* What is barred from before a request to its answer is not admitted,
\* whatever the request awaits in between and however its subject is spelled
\* (is_suspended, is_blocked, catalog_hidden, IdpCredentialStatus::check).
THEOREM BarredIsRefused == Spec => []RefusedWhileBarred
<1>1. AInv /\ OpenInv /\ BarInv /\ [Next]_vars => AInv' /\ OpenInv' /\ BarInv'
  <2> SUFFICES ASSUME AInv, OpenInv, BarInv, [Next]_vars PROVE AInv' /\ OpenInv' /\ BarInv'
    BY Zenon
  <2>1. AInv' /\ OpenInv'
    BY AdmissionStep, OpenStep, Zenon
  <2>2. BarInv'
    BY Zenon, BeginBarred, TokenBarred, DeviceBarred, DecideBarred, ReadPointerBarred,
       ReadAttributeBarred, FetchBarred, BodyBarred, CredentialBarred, LookupBarred,
       StatusBarred, WorldBarred DEF Next
  <2> QED BY <2>1, <2>2, Zenon
<1>2. BarInv => RefusedWhileBarred
  <2> SUFFICES ASSUME BarInv, pc = "done", Success PROVE always \cap Concerning = {}
    BY Zenon DEF RefusedWhileBarred
  <2> DEFINE Gated == CASE req.route = "session" -> {<<"suspended", s>> : s \in Subjects}
                        [] req.route = "put" ->
                            {<<"suspended", s>> : s \in Subjects}
                            \cup {<<"blocked", h>> : h \in Published}
                        [] req.route = "get" ->
                            {<<"hidden", s>> : s \in Owner} \cup {<<"blocked", h>> : h \in job.hash}
                        [] req.route = "document" ->
                            {<<"blocked", req.hash>>} \cup {<<"hidden", s>> : s \in DocumentOwner}
                        [] req.route = "blob" -> {<<"blocked", req.hash>>}
                        [] OTHER -> {}
             Revoked == {<<"revoked", i>> : i \in Passkeys}
  <2>1. Concerning = (IF node.gated THEN Gated ELSE {}) \cup Revoked
    BY DEF Concerning, Subjects, Published, PayloadHashes, Owner, DocumentOwner, Passkeys
  <2>2. always \cap Revoked = {}
    <3>1. CASE req.route = "put"
      BY <3>1, Zenon DEF BarInv, Clear, Passed
    <3>2. CASE req.route # "put"
      BY <3>2, Zenon DEF BarInv, HeldInv, Passkeys, None
    <3> QED BY <3>1, <3>2, Zenon
  <2>3. ASSUME node.gated PROVE always \cap Gated = {}
    <3>1. PublisherInv /\ ReaderInv
      BY <2>3, Zenon DEF BarInv
    <3> QED BY <3>1, Zenon DEF PublisherInv, ReaderInv, Passed, Clear
  <2> QED BY <2>1, <2>2, <2>3, Zenon
<1> QED BY AdmissionInit, OpenInit, BarInit, <1>1, <1>2, PTL DEF Spec

-----------------------------------------------------------------------------
(***************************************************************************)
(* Archives.  A push is answered with the outcome of its validation.       *)
(***************************************************************************)
IngestInv ==
    req.route = "ingest" =>
        /\ ArchiveForm(req.archive)
        /\ pc \in {"start", "done"}
        /\ pc = "done" => answer = ArchiveStatus

\* check_zip64_entry_counts sees every record the ZIP reader could take.
LEMMA CountsBound ==
  ASSUME NEW a, ArchiveForm(a), EntryCountsOk(a), NEW n \in Reserved(a)
  PROVE  n <= MaxMembers
<1>1. PICK i \in DOMAIN a.ends :
        a.ends[i].whole /\ a.ends[i].back <= MaxDirectoryRead /\ n \in Listed(a, i)
  BY Zenon DEF Reserved
<1>2. /\ a.len \in Nat /\ a.ends[i].back \in 0 .. a.len /\ a.ends[i].files \in 0 .. MaxMembers
      /\ {MaxMembers, MaxDirectoryRead} \subseteq Nat
  BY ArchivesAssumption, Zenon DEF ArchiveForm
<1>3. CASE n = a.ends[i].files
  BY <1>2, <1>3
<1>4. CASE n # a.ends[i].files
  <2>1. PICK r \in UNION {l.records : l \in a.ends[i].locator} :
          /\ Defers(a.ends[i]) /\ a.ends[i].back + r.at <= MaxDirectoryRead
          /\ n \in {r.files, r.onDisk}
    BY <1>1, <1>4, Zenon DEF Listed
  <2>2. r.at \in 0 .. a.len
    BY Zenon DEF ArchiveForm
  <2>3. i \in Deferring(a)
    BY <1>1, <1>2, <2>1 DEF Deferring, Window
  <2>4. r \in Zip64Records(a, i)
    BY <1>2, <2>1, <2>2 DEF Zip64Records, Window
  <2> QED BY <2>1, <2>3, <2>4, Zenon DEF EntryCountsOk
<1> QED BY <1>3, <1>4, Zenon

\* An accepted archive has a payload besides its manifest.
LEMMA PayloadIs ==
  ASSUME NEW m, NEW name \in payload_member(m) PROVE name \notin {Manifest, LegacyManifest}
<1>1. CASE m.url = <<>>
  BY <1>1 DEF payload_member, Some, DefaultPayload, Manifest, LegacyManifest
<1>2. CASE m.url # <<>>
  <2>1. name # Manifest /\ ~ (Len(name) = 2 /\ name[1] \in Digits /\ name[2] = ".manifest.json")
    BY <1>2, Zenon DEF payload_member
  <2>2. /\ Len(LegacyManifest) = 2 /\ LegacyManifest[1] = "0"
        /\ LegacyManifest[2] = ".manifest.json"
    BY Zenon DEF LegacyManifest
  <2> QED BY <2>1, <2>2, DigitsAssumption, Zenon
<1> QED BY <1>1, <1>2, Zenon

\* The validation is one step.
LEMMA IngestStep == ASSUME IngestInv, [Next]_vars PROVE IngestInv'
<1> SUFFICES ASSUME req.route = "ingest" PROVE IngestInv'
  BY Zenon DEF Next, Begin, Token, Device, Decide, ReadPointer, ReadAttribute, Fetch, Body, Credential,
         LookUp, LookedUp, Status, Tick, Rotate, Moderate, Ingest, vars, handler, IngestInv
<1>1. ArchiveForm(req.archive) /\ pc \in {"start", "done"} /\ (pc = "done" => answer = ArchiveStatus)
  BY Zenon DEF IngestInv
<1>2. CASE Begin
  <2>1. UNCHANGED <<req, node>> /\ pc' = "done" /\ answer' = ArchiveStatus
    BY <1>2, Zenon DEF Begin, Answer, Answered
  <2>2. ArchiveStatus' = ArchiveStatus
    BY <2>1, Zenon DEF ArchiveStatus
  <2> QED BY <1>1, <2>1, <2>2, Zenon DEF IngestInv
<1>3. CASE Tick \/ Rotate \/ Moderate \/ Ingest \/ UNCHANGED vars
  <2>1. UNCHANGED <<req, node, pc, answer>>
    BY <1>3, Zenon DEF Tick, Rotate, Moderate, Ingest, vars, handler
  <2>2. ArchiveStatus' = ArchiveStatus
    BY <2>1, Zenon DEF ArchiveStatus
  <2> QED BY <1>1, <2>1, <2>2, Zenon DEF IngestInv
<1> QED BY <1>1, <1>2, <1>3, ZenonT(30)
        DEF Next, Token, Device, Decide, ReadPointer, ReadAttribute, Fetch, Body, Credential,
            LookUp, LookedUp, Status

\* Whatever end record the ZIP reader settles on, opening an archive whose
\* counts were checked never makes it reserve memory for more members than
\* the limit (check_zip64_entry_counts); and an accepted archive has, besides
\* its manifest, a payload that inflates to the size its directory states
\* with the right checksum (validate_archive).
THEOREM ArchivesAreSound == Spec => []ArchiveIsSound
<1>1. Init => IngestInv
  <2> SUFFICES ASSUME Init PROVE IngestInv
    BY Zenon
  <2>1. pc = "start" /\ RequestForm(req)
    BY RequestsAssumption, Zenon DEF Init
  <2> QED BY <2>1, Zenon DEF IngestInv, RequestForm
<1>2. IngestInv => ArchiveIsSound
  <2> SUFFICES ASSUME IngestInv, req.route = "ingest" PROVE ArchiveIsSound
    BY Zenon DEF ArchiveIsSound, Done
  <2>1. EntryCountsOk(req.archive) => \A n \in Reserved(req.archive) : n <= MaxMembers
    BY CountsBound, Zenon DEF IngestInv
  <2>2. ASSUME Done("ingest"), Success
        PROVE  /\ req.archive.len <= node.validation.max_blob_bytes
               /\ Cardinality(DOMAIN req.archive.members) <= MaxMembers
               /\ \E name \in DOMAIN req.archive.members \ {Manifest, LegacyManifest} :
                    /\ req.archive.members[name].crc
                    /\ req.archive.members[name].actual = req.archive.members[name].declared
    <3>1. ArchiveStatus = OK
      BY <2>2 DEF IngestInv, Done, Success, ArchiveStatus, OK
    <3>2. PICK m : m \in validate_archive(req.archive, node.validation)
      BY <3>1 DEF ArchiveStatus, OK, IsSome, None
    <3>3. PICK name \in payload_member(m) : PayloadOk(req.archive, name)
      BY <3>2, Zenon DEF validate_archive, validate_tdf_structure
    <3>4. name \notin {Manifest, LegacyManifest}
      BY PayloadIs, Zenon
    <3> QED BY <3>2, <3>3, <3>4, Zenon
            DEF validate_archive, validate_tdf_structure, check_blob_size, PayloadOk
  <2> QED BY <2>1, <2>2, Zenon DEF ArchiveIsSound
<1> QED BY <1>1, <1>2, IngestStep, PTL DEF Spec

-----------------------------------------------------------------------------
(***************************************************************************)
(* Failed calls.  Outside shadow a handler goes on after a failed call     *)
(* only while the other lookups of the round are answered.                 *)
(***************************************************************************)
FailedLookup ==
    \E h \in PayloadHashes(job.entries) \cap DOMAIN job.found : job.found[h].status = 502

FaultInv ==
    /\ pc \in {"sizes", "manifests"} =>
        job.todo \subseteq PayloadHashes(job.entries) \ DOMAIN job.found
    /\ ~ Shadow =>
        /\ pc \notin {"sizes", "manifests", "done"} \/ (pc = "done" /\ Success) => Failed = {}
        /\ pc \in {"sizes", "manifests"} /\ Failed # {} => FailedLookup

\* A refusal keeps it.
LEMMA RefusedFault ==
  ASSUME UNCHANGED <<req, node>>, pc' = "done", ~ Success' PROVE FaultInv'
  BY Zenon DEF FaultInv, Shadow

\* So does a step before the lookups in which no call fails.
LEMMA FaultFree ==
  ASSUME FaultInv, UNCHANGED <<req, node>>, pc \notin {"sizes", "manifests", "done"},
         pc' \notin {"sizes", "manifests"}, faults' \subseteq faults \cup {"recent"}
  PROVE  FaultInv'
<1>1. ~ Shadow => Failed = {}
  BY Zenon DEF FaultInv
<1>2. Failed' \subseteq Failed
  BY Zenon DEF Failed
<1> QED BY <1>1, <1>2, Zenon DEF FaultInv, Shadow

\* The steps before the body of a publish, and those of the other routes.
LEMMA EarlyFault ==
  ASSUME AInv, AInv', FaultInv,
         Begin \/ Token \/ Device \/ Decide \/ ReadPointer \/ ReadAttribute \/ Fetch
  PROVE  FaultInv'
<1>1. UNCHANGED <<req, node>> /\ pc \in Early \cup {"fetch"}
  BY Zenon DEF Begin, Token, Device, Decide, ReadPointer, ReadAttribute, Fetch, Early
<1>2. pc' \notin {"sizes", "manifests"}
  <2>1. CASE req.route # "put"
    BY <1>1, <2>1, Zenon DEF AInv, RouteInv, Publishes
  <2>2. CASE req.route = "put"
    BY <2>2, EarlyPut, Zenon DEF BeforeBody, Early
  <2> QED BY <2>1, <2>2, Zenon
<1>3. CASE Shadow
  BY <1>1, <1>2, <1>3, Zenon DEF FaultInv, Shadow
<1>4. ASSUME ~ Shadow
      PROVE  faults' \subseteq faults \cup {"recent"} \/ (pc' = "done" /\ ~ Success')
  <2>1. CASE Begin
    BY <2>1, Zenon DEF Begin
  <2>2. CASE Token
    <3>1. \/ Answer(502) \/ Answer(401) \/ faults' \subseteq faults \cup {"recent"}
      BY <2>2, TokenOutcome, Zenon
    <3> QED BY <3>1 DEF Answer, Answered, Success, OK
  <2>3. CASE Device
    <3>1. \/ NoChain(The(job.claims), job.local, 401)
          \/ faults' \subseteq faults \cup {"recent"}
      <4> DEFINE m == Head(job.rest)
                 V == {c \in VerifiedDevice(m, node.issuer, job.at) : Bound(c, The(job.claims))}
                 Refused == NoChain(The(job.claims), job.local, 401)
      <4>1. \E o \in Verifications(m, IsCwt(m)) :
                Verifying(o) /\ ({c \in V : o.holds} = None => Refused)
        BY <2>3, Zenon DEF Device
      <4> HIDE DEF m, V, Refused
      <4>2. PICK o \in Verifications(m, IsCwt(m)) :
                Verifying(o) /\ ({c \in V : o.holds} = None => Refused)
        BY <4>1, Zenon
      <4>3. o.fault \subseteq {"recent", "keys"} /\ (o.holds => "keys" \notin o.fault)
        BY Verifies, Zenon
      <4>4. faults' = faults \cup o.fault
        BY <4>2, Zenon DEF Verifying
      <4>5. CASE o.holds
        BY <4>3, <4>4, <4>5, Zenon
      <4>6. CASE ~ o.holds
        BY <4>2, <4>6, Zenon DEF None, Refused
      <4> QED BY <4>5, <4>6, Zenon
    <3> QED BY <1>4, <3>1 DEF NoChain, Answer, Answered, Success, OK
  <2>4. CASE Decide
    <3>1. \/ faults' = faults
          \/ \E status \in {502, 503} : NotPermitted(status)
      BY <2>4, ZenonT(30) DEF Decide
    <3>2. ASSUME NEW status \in {502, 503}, NotPermitted(status)
          PROVE  pc' = "done" /\ ~ Success'
      BY <1>4, <3>2 DEF NotPermitted, Answer, Answered, Success, OK
    <3> QED BY <3>1, <3>2
  <2>5. CASE ReadPointer \/ ReadAttribute \/ Fetch
    <3>1. faults' = faults \/ Answer(502)
      BY <2>5, Zenon DEF ReadPointer, ReadAttribute, Fetch
    <3> QED BY <3>1 DEF Answer, Answered, Success, OK
  <2> QED BY <2>1, <2>2, <2>3, <2>4, <2>5, Zenon
<1> QED BY <1>1, <1>2, <1>3, <1>4, FaultFree, RefusedFault, Zenon DEF Early

\* The steps of a publish once its publisher is admitted.
LEMMA LateFault ==
  ASSUME AInv, OpenInv, FaultInv, Body \/ Credential \/ LookUp \/ LookedUp \/ Status
  PROVE  FaultInv'
<1>0. UNCHANGED <<req, node>> /\ DOMAIN job = DOMAIN NewJob /\ (Shadow' <=> Shadow)
  BY ZenonT(30) DEF Body, Credential, LookUp, LookedUp, Status, AInv, JobInv, Shadow
<1>1. CASE Body
  BY <1>0, <1>1, FaultFree, Zenon DEF Body, AnswerOr, Answer, Answered, Await
<1>2. CASE Credential
  <2> DEFINE Goes(found) == Await(IF The(Indexed) = <<>> THEN "status" ELSE "sizes",
                               [job EXCEPT !.pointer = Some(ThePointer), !.credential = found,
                                           !.attribute = Envelope,
                                           !.entries = The(Indexed),
                                           !.todo = PayloadHashes(The(Indexed))])
  <2>1. \/ \E status \in {502, 422, 403} : Answer(status)
        \/ /\ faults' \subseteq faults \cup {"recent"}
           /\ \E found \in SUBSET Credentialed : Goes(found)
    BY <1>2, CredentialOutcome, Zenon
  <2>2. ASSUME NEW status \in {502, 422, 403}, Answer(status) PROVE FaultInv'
    BY <1>0, <2>2, RefusedFault DEF Answer, Answered, Success, OK
  <2>3. ASSUME faults' \subseteq faults \cup {"recent"},
               NEW found \in SUBSET Credentialed, Goes(found)
        PROVE  FaultInv'
    <3>1. /\ job'.entries = The(Indexed) /\ job'.todo = PayloadHashes(The(Indexed))
          /\ pc' \in {"status", "sizes"} /\ job'.found = job.found
      BY <1>0, <2>3, Zenon DEF Await, NewJob
    <3>2. pc = "credential" /\ job.found = <<>>
      BY <1>2, Zenon DEF Credential, OpenInv, LookupInv, AInv, RouteInv, Publishes
    <3>3. ~ Shadow => Failed = {}
      BY <3>2, Zenon DEF FaultInv
    <3>4. Failed' \subseteq Failed
      BY <2>3, Zenon DEF Failed
    <3>5. job'.todo \subseteq PayloadHashes(job'.entries) \ DOMAIN job'.found
      BY <3>1, <3>2 DEF PayloadHashes
    <3> QED BY <1>0, <3>1, <3>3, <3>4, <3>5, Zenon DEF FaultInv, PayloadHashes
  <2> QED BY <2>1, <2>2, <2>3, ZenonT(30)
<1>3. CASE LookUp
  <2>1. /\ pc \in {"sizes", "manifests"} /\ UNCHANGED <<pc, answer>>
        /\ job'.entries = job.entries
    BY <1>3, LookUpOutcome, Zenon
  <2>2. PICK h, f : h \in job.todo /\ Records(h, f)
    BY <1>3, LookUpOutcome, Zenon
  <2>3. /\ job'.todo = job.todo \ {h} /\ h \in PayloadHashes(job.entries) \ DOMAIN job.found
        /\ DOMAIN job'.found = DOMAIN job.found \cup {h}
        /\ \A x \in DOMAIN job.found : job'.found[x] = job.found[x]
        /\ job'.found[h] = f /\ (faults' = faults \/ f.status = 502)
    BY <2>1, <2>2 DEF Records, FaultInv, Found
  <2>4. PayloadHashes(job.entries)' = PayloadHashes(job.entries)
    BY <2>1, Zenon DEF PayloadHashes
  <2>5. FailedLookup => FailedLookup'
    BY <2>3, <2>4 DEF FailedLookup
  <2>6. CASE f.status = 502
    <3>1. FailedLookup'
      BY <2>3, <2>4, <2>6, Zenon DEF FailedLookup
    <3> QED BY <2>1, <2>3, <2>4, <3>1, Zenon DEF FaultInv
  <2>7. CASE faults' = faults
    <3>1. Failed' = Failed
      BY <2>7, Zenon DEF Failed
    <3> QED BY <1>0, <2>1, <2>3, <2>4, <2>5, <3>1, Zenon DEF FaultInv
  <2> QED BY <2>3, <2>6, <2>7, Zenon
<1>4. CASE LookedUp
  <2>1. /\ pc \in {"sizes", "manifests"} /\ faults' = faults
        /\ \/ \E status \in {422, 502} : Answer(status)
           \/ /\ \A i \in DOMAIN job.entries :
                   job.found[job.entries[i].payloadHash].status = OK
              /\ Await(IF pc = "sizes" THEN "manifests" ELSE "status",
                       [job EXCEPT !.found = <<>>,
                                   !.todo = IF pc = "sizes" THEN PayloadHashes(job.entries) ELSE {}])
    BY <1>4, LookedUpOutcome, Zenon
  <2>2. ASSUME NEW status \in {422, 502}, Answer(status) PROVE FaultInv'
    BY <1>0, <2>2, RefusedFault DEF Answer, Answered, Success, OK
  <2>3. ASSUME \A i \in DOMAIN job.entries : job.found[job.entries[i].payloadHash].status = OK,
               Await(IF pc = "sizes" THEN "manifests" ELSE "status",
                     [job EXCEPT !.found = <<>>,
                                 !.todo = IF pc = "sizes" THEN PayloadHashes(job.entries) ELSE {}])
        PROVE  FaultInv'
    <3>1. ~ FailedLookup
      BY <2>3 DEF FailedLookup, PayloadHashes, OK
    <3>2. ~ Shadow => Failed' = {}
      BY <2>1, <3>1, Zenon DEF FaultInv, Failed
    <3>3. /\ job'.entries = job.entries /\ job'.found = <<>>
          /\ pc' \in {"manifests", "status"}
          /\ pc' = "manifests" => job'.todo = PayloadHashes(job.entries)
      BY <1>0, <2>1, <2>3, Zenon DEF Await, NewJob
    <3>4. pc' = "manifests" => job'.todo \subseteq PayloadHashes(job'.entries) \ DOMAIN job'.found
      BY <3>3 DEF PayloadHashes
    <3> QED BY <1>0, <3>2, <3>3, <3>4, Zenon DEF FaultInv, PayloadHashes
  <2> QED BY <2>1, <2>2, <2>3
<1>5. CASE Status
  <2>1. faults' = faults \/ Answer(502)
    BY <1>5, Zenon DEF Status
  <2>2. pc = "status" /\ pc' = "done"
    BY <1>5, Zenon DEF Status, Answer, Answered
  <2> QED BY <1>0, <2>1, <2>2, FaultFree, RefusedFault DEF Answer, Answered, Success, OK
<1> QED BY <1>1, <1>2, <1>3, <1>4, <1>5, Zenon

\* A call that fails opens nothing: whatever it was for, and however many
\* lookups of the same round succeeded, the request is refused, except that
\* shadow enforces its local answer (the error arms of every call).
THEOREM FailuresAreClosed == Spec => []FaultsFailClosed
<1>1. Init => FaultInv
  BY Zenon DEF Init, FaultInv, Failed
<1>2. AInv /\ OpenInv /\ FaultInv /\ [Next]_vars => AInv' /\ OpenInv' /\ FaultInv'
  <2> SUFFICES ASSUME AInv, OpenInv, FaultInv, [Next]_vars PROVE AInv' /\ OpenInv' /\ FaultInv'
    BY Zenon
  <2>1. AInv' /\ OpenInv'
    BY AdmissionStep, OpenStep, Zenon
  <2>2. CASE Tick \/ Rotate \/ Moderate \/ Ingest \/ UNCHANGED vars
    <3>1. UNCHANGED <<req, node, pc, job, answer, faults>>
      BY <2>2, Zenon DEF Tick, Rotate, Moderate, Ingest, vars, handler
    <3>2. UNCHANGED <<Failed, PayloadHashes(job.entries)>>
      BY <3>1, Zenon DEF Failed, PayloadHashes
    <3>3. (FailedLookup' <=> FailedLookup) /\ (Shadow' <=> Shadow) /\ (Success' <=> Success)
      BY <3>1, <3>2 DEF FailedLookup, Shadow, Success
    <3> QED BY <2>1, <3>1, <3>2, <3>3, Zenon DEF FaultInv
  <2> QED BY <2>1, <2>2, EarlyFault, LateFault, Zenon DEF Next
<1>3. FaultInv => FaultsFailClosed
  BY Zenon DEF FaultInv, FaultsFailClosed
<1> QED BY AdmissionInit, OpenInit, <1>1, <1>2, <1>3, PTL DEF Spec

=============================================================================
