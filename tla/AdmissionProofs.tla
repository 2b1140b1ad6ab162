-------------------------- MODULE AdmissionProofs --------------------------
(***************************************************************************)
(* Proofs about Admission, for every list of requests, every bound and     *)
(* every clock.  First, a permit of the decision service comes before what *)
(* it decides on (PermittedFirst), with what each place of a handler holds *)
(* (AInv).  Then the operators of the model, and on both the first of the  *)
(* results that rest on them: the document a publish writes can be opened  *)
(* (OpenInv).  RefusalProofs and CallerProofs build on this module.        *)
(***************************************************************************)
EXTENDS Admission, TLAPS

\* Where a handler waits before anything is decided.
Early == {"start", "token", "device", "pointer", "attribute", "decide"}

\* Where a publish waits once its publisher is admitted.
Publishes == {"body", "credential", "sizes", "manifests", "status"}

\* The publishers the decision service decides on.
Pdp == req.route \in {"session", "put"} /\ node.gated /\ node.decisions = "pdp"

\* What the handler holds: no session before it answers, and a reader's claims
\* from the pointer's read on.
JobInv ==
    /\ DOMAIN job = DOMAIN NewJob
    /\ pc # "done" => job.session = None
    /\ pc \in {"pointer", "attribute"} => job.claims # None

\* Which routes wait where.
RouteInv ==
    /\ req.route = "get" => pc \in Early \cup {"done"}
    /\ req.route \in Routes /\ (req.route = "session" => node.gated)
    /\ pc = "token" => req.route \in {"session", "put", "get", "operator"}
    /\ pc \in {"device", "decide"} => req.route \in {"session", "put", "get"}
    /\ pc \in {"pointer", "attribute"} => req.route = "get"
    /\ pc = "fetch" => req.route \in {"document", "blob"}
    /\ pc \in Publishes => req.route = "put"

\* Nothing was asked early, and a publisher in pdp mode is past the early waits
\* only with a permit.
AskInv ==
    /\ pc \in Early => asked = <<>>
    /\ Pdp => pc \in Early \cup {"done"} \/ Permit

\* The inductive invariant.  PermittedFirst alone speaks of answered requests
\* only: that they could not get there without a permit is AskInv.
AInv == JobInv /\ RouteInv /\ AskInv /\ PermittedFirst

\* Of the checks of a list that fail, one comes first.
LEMMA FirstFailed ==
  ASSUME NEW S, S \subseteq 1 .. 4, S # {}
  PROVE  \E i \in S : \A j \in S : i <= j
<1>1. \A i \in S : i = 1 \/ i = 2 \/ i = 3 \/ i = 4
  OBVIOUS
<1>2. CASE 1 \in S
  BY <1>1, <1>2
<1>3. CASE 1 \notin S /\ 2 \in S
  BY <1>1, <1>3
<1>4. CASE 1 \notin S /\ 2 \notin S /\ 3 \in S
  BY <1>1, <1>4
<1>5. CASE 1 \notin S /\ 2 \notin S /\ 3 \notin S
  <2>1. S = {4}
    BY <1>1, <1>5, Zenon
  <2> QED BY <2>1
<1> QED BY <1>2, <1>3, <1>4, <1>5, Zenon

\* A list of checks answers 200 or the status of one of them (the early
\* returns of every handler).
LEMMA FirstOfIn ==
  ASSUME NEW checks, NEW S, DOMAIN checks \subseteq 1 .. 4,
         \A i \in DOMAIN checks : checks[i][2] \in S
  PROVE  FirstOf(checks) \in S \cup {OK}
<1> DEFINE failed == {i \in DOMAIN checks : checks[i][1]}
<1>1. CASE failed = {}
  BY <1>1, Zenon DEF FirstOf
<1>2. CASE failed # {}
  <2>1. \E i \in failed : \A j \in failed : i <= j
    BY <1>2, FirstFailed, Zenon
  <2> DEFINE first == CHOOSE i \in failed : \A j \in failed : i <= j
  <2>2. first \in failed
    BY <2>1, Zenon
  <2>3. checks[first][2] \in S
    BY <2>2, Zenon
  <2> QED BY <1>2, <2>3, Zenon DEF FirstOf
<1> QED BY <1>1, <1>2, Zenon

\* The checks before the token refuse with an error status.
LEMMA BeforeTokenRefuses == BeforeToken \in {OK, 415, 400, 422, 503, 401}
<1> DEFINE S == {415, 400, 422, 503, 401}
<1>1. \A fits : Extracted(fits) \in S \cup {OK}
  <2> TAKE fits
  <2> DEFINE checks == << <<~ req.body.json, 415>>, <<~ req.body.syntax, 400>>, <<~ fits, 422>> >>
  <2>1. DOMAIN checks \subseteq 1 .. 4 /\ \A i \in DOMAIN checks : checks[i][2] \in S
    OBVIOUS
  <2> HIDE DEF checks, S
  <2>2. FirstOf(checks) \in S \cup {OK}
    BY <2>1, FirstOfIn, Zenon
  <2> QED BY <2>2, Zenon DEF Extracted, checks
<1> DEFINE checks == << <<req.route = "operator" /\ node.operators = {}, 503>>, <<bearer = None, 401>> >>
<1>2. DOMAIN checks \subseteq 1 .. 4 /\ \A i \in DOMAIN checks : checks[i][2] \in S
  OBVIOUS
<1> HIDE DEF S, checks
<1>3. FirstOf(checks) \in S \cup {OK}
  BY <1>2, FirstOfIn, Zenon
<1>4. (\E fits : BeforeToken = Extracted(fits)) \/ BeforeToken = FirstOf(checks)
  BY Zenon DEF BeforeToken, checks
<1>5. BeforeToken \in S \cup {OK}
  BY <1>1, <1>3, <1>4, Zenon
<1> QED BY <1>5 DEF S, OK

\* An error status keeps the invariant, wherever the handler was.
LEMMA Refuses ==
  ASSUME AInv, pc # "done", UNCHANGED <<req, node>>,
         NEW status, ~ (status \in {200, 201, 304}), Answer(status)
  PROVE  AInv'
<1>1. job' = job /\ pc' = "done" /\ ~ Success'
  BY Zenon DEF Answer, Answered, Success, OK
<1>2. JobInv' /\ RouteInv' /\ AskInv'
  BY <1>1, Zenon DEF AInv, JobInv, RouteInv, Publishes, AskInv, Early, Pdp, NewJob
<1>3. PermittedFirst'
  BY <1>1, Zenon DEF AInv, JobInv, PermittedFirst, None
<1> QED BY <1>2, <1>3, Zenon DEF AInv

\* Admitting a publisher keeps it, once a permit backs what needs one
\* (open_session, step 1 of put_catalog).
LEMMA Admits ==
  ASSUME AInv, pc # "done", req.route \in {"session", "put"}, UNCHANGED <<req, node>>,
         Pdp => Permit', NEW claims, NEW chain, chain # None => Permit',
         Admitted(claims, chain)
  PROVE  AInv'
<1>1. job.session = None /\ DOMAIN job = DOMAIN NewJob
  BY Zenon DEF AInv, JobInv
<1>2. (pc = "done" /\ Success /\ Decided => Permit)'
  BY Zenon DEF Decided, Pdp
<1>3. CASE req.route = "session"
  <2> DEFINE session == [endpoint |-> Field(req.body.value, "endpointId"),
                         subject |-> claims.sub,
                         chain |-> {strip_tokens(c) : c \in chain}]
  <2>1. session.chain = {strip_tokens(c) : c \in chain}
    BY Zenon
  <2>2. pc' = "done" /\ (job' = job \/ job' = [job EXCEPT !.session = Some(session)])
    BY <1>3, Zenon DEF Admitted, OpenSession, Answer, Answered
  <2> HIDE DEF session
  <2>3. \A s \in job'.session : IsSome(s.chain) => Permit'
    BY <1>1, <2>1, <2>2 DEF NewJob, None, Some, IsSome
  <2>4. JobInv' /\ RouteInv' /\ AskInv'
    BY <1>1, <1>3, <2>2, Zenon DEF AInv, JobInv, RouteInv, Publishes, AskInv, Early, NewJob
  <2> QED BY <1>2, <2>3, <2>4, Zenon DEF AInv, PermittedFirst
<1>4. CASE req.route = "put"
  <2>1. \/ pc' = "done" /\ job' = job
        \/ pc' = "body" /\ job' = [job EXCEPT !.claims = Some(claims)]
    BY <1>4, Zenon DEF Admitted, Publishing, AnswerOr, Answer, Answered, Await
  <2>2. job'.session = None /\ DOMAIN job' = DOMAIN NewJob
    BY <1>1, <2>1, Zenon DEF NewJob
  <2>3. JobInv' /\ RouteInv' /\ AskInv'
    BY <1>4, <2>1, <2>2, Zenon DEF AInv, JobInv, RouteInv, Publishes, AskInv, Early, Pdp
  <2> QED BY <1>2, <2>2, <2>3, Zenon DEF AInv, PermittedFirst, None
<1> QED BY <1>3, <1>4, Zenon

\* So does the local answer, under the same conditions.
LEMMA Enforces ==
  ASSUME AInv, pc # "done", req.route \in {"session", "put"}, UNCHANGED <<req, node>>,
         Pdp => Permit', NEW claims, NEW local, NEW chain, chain # None => Permit',
         LocalAnswer(claims, local, chain)
  PROVE  AInv'
<1>1. CASE Admitted(claims, chain)
  BY <1>1, Admits, Zenon
<1>2. CASE Answer(403)
  BY <1>2, Refuses
<1> QED BY <1>1, <1>2, Zenon DEF LocalAnswer

\* A chain that is refused admits only in shadow, where none is needed.
LEMMA Unchained ==
  ASSUME AInv, pc # "done", req.route \in {"session", "put", "get"}, UNCHANGED <<req, node>>,
         NEW claims, NEW local, NEW status, ~ (status \in {200, 201, 304}),
         NoChain(claims, local, status)
  PROVE  AInv'
<1>1. CASE Shadow
  <2>1. LocalAnswer(claims, local, None) /\ ~ Pdp /\ req.route \in {"session", "put"}
    BY <1>1, Zenon DEF NoChain, Shadow, Pdp
  <2> QED BY <2>1, Enforces, Zenon
<1>2. CASE ~ Shadow
  BY <1>2, Refuses, Zenon DEF NoChain
<1> QED BY <1>1, <1>2, Zenon

\* Starting on a chain keeps the invariant (verified_devices).
LEMMA Chains ==
  ASSUME AInv, pc \in Early, req.route \in {"session", "put", "get"},
         UNCHANGED <<req, node, asked>>, NEW claims, NEW held,
         DOMAIN held = DOMAIN NewJob, held.session = None,
         Devices(claims, held)
  PROVE  AInv'
<1>1. pc # "done"
  BY Zenon DEF Early
<1>2. CASE NoChain(claims, held.local, 400)
  BY <1>1, <1>2, Unchained
<1>3. CASE ~ NoChain(claims, held.local, 400)
  <2>1. /\ pc' \in {"decide", "device"}
        /\ DOMAIN job' = DOMAIN NewJob /\ job'.session = None
    BY <1>3, Zenon DEF Devices, Await, NewJob
  <2>2. asked' = <<>>
    BY Zenon DEF AInv, AskInv
  <2>3. JobInv' /\ RouteInv' /\ AskInv'
    BY <2>1, <2>2, Zenon DEF AInv, JobInv, RouteInv, Publishes, AskInv, Early
  <2> QED BY <2>1, <2>3, Zenon DEF AInv, PermittedFirst, None
<1> QED BY <1>2, <1>3, Zenon

\* A handler that moves from one early wait to another keeps the invariant.
LEMMA Continues ==
  ASSUME AInv, pc \in Early, UNCHANGED <<req, node, asked>>, pc' \in Early, RouteInv',
         JobInv'
  PROVE  AInv'
<1>1. asked' = <<>>
  BY Zenon DEF AInv, AskInv
<1>2. job'.session = None /\ pc' # "done"
  BY Zenon DEF JobInv, Early
<1> QED BY <1>1, <1>2, Zenon DEF AInv, AskInv, PermittedFirst, None

\* A handler past the early waits keeps it as long as it opens no session.
LEMMA Late ==
  ASSUME AInv, pc \notin Early \cup {"done"}, UNCHANGED <<req, node, asked>>,
         pc' \notin Early, pc' = "fetch" => pc = "fetch",
         pc' \in Publishes => pc \in Publishes,
         DOMAIN job' = DOMAIN NewJob, job'.session = None
  PROVE  AInv'
<1>1. req.route # "get" /\ (Pdp => Permit)
  BY Zenon DEF AInv, RouteInv, Publishes, AskInv
<1>2. Pdp' = Pdp /\ Permit' = Permit
  BY Zenon DEF Pdp, Permit
<1>3. JobInv' /\ AskInv'
  BY <1>1, <1>2, Zenon DEF JobInv, AskInv, Early
<1>4. RouteInv'
  BY <1>1, Zenon DEF AInv, RouteInv, Publishes, Early
<1>5. PermittedFirst'
  BY <1>1, <1>2, Zenon DEF PermittedFirst, Decided, Pdp, None
<1> QED BY <1>3, <1>4, <1>5, Zenon DEF AInv

\* The checks before the first call keep the invariant.
LEMMA BeginStep == ASSUME AInv, Begin PROVE AInv'
<1>1. /\ pc = "start" /\ pc \in Early /\ pc # "done" /\ UNCHANGED <<req, node, asked>>
      /\ DOMAIN job = DOMAIN NewJob /\ job.session = None
      /\ req.route \in Routes /\ (req.route = "session" => node.gated)
  BY Zenon DEF Begin, Early, AInv, JobInv, RouteInv, Publishes
<1>2. CASE req.route \in {"session", "put", "get", "operator"}
  <2>1. AnswerOr(BeforeToken, "token", [job EXCEPT !.at = now])
    BY <1>2, Zenon DEF Begin
  <2>2. CASE BeforeToken # OK
    <3>1. Answer(BeforeToken) /\ ~ (BeforeToken \in {200, 201, 304})
      BY <2>1, <2>2, BeforeTokenRefuses DEF AnswerOr, OK
    <3> QED BY <1>1, <3>1, Refuses, Zenon
  <2>3. CASE BeforeToken = OK
    <3>1. pc' = "token" /\ job' = [job EXCEPT !.at = now]
      BY <2>1, <2>3, Zenon DEF AnswerOr, Await
    <3>2. JobInv' /\ RouteInv' /\ pc' \in Early
      BY <1>1, <1>2, <3>1, Zenon DEF JobInv, RouteInv, Publishes, NewJob, Early
    <3> QED BY <1>1, <3>2, Continues, Zenon
  <2> QED BY <2>2, <2>3, Zenon
<1>3. CASE req.route \in {"document", "blob", "ingest"}
  <2>1. job' = job /\ (pc' = "done" \/ (pc' = "fetch" /\ req.route \in {"document", "blob"}))
    BY <1>3, ZenonT(30) DEF Begin, AnswerOr, Answer, Answered, Await
  <2>2. ~ Pdp' /\ ~ Decided'
    BY <1>1, <1>3, Zenon DEF Pdp, Decided
  <2>3. JobInv' /\ RouteInv' /\ AskInv'
    BY <1>1, <1>3, <2>1, <2>2, Zenon DEF JobInv, RouteInv, Publishes, AskInv, Early
  <2> QED BY <1>1, <2>1, <2>2, <2>3, Zenon DEF AInv, PermittedFirst, None
<1> QED BY <1>1, <1>2, <1>3, Zenon DEF Routes

\* get_pointer up to the pointer's read keeps the invariant.
LEMMA ReaderStep ==
  ASSUME AInv, pc = "token", req.route = "get", UNCHANGED <<req, node, asked>>,
         NEW claims, Reader(claims)
  PROVE  AInv'
<1> DEFINE checks == << <<~ valid_identifier(req.sub, MaxOwner), 400>>,
                        <<owner_hidden(Some(req.sub)), 404>> >>
           S == {400, 404}
<1>1. DOMAIN checks \subseteq 1 .. 4 /\ \A i \in DOMAIN checks : checks[i][2] \in S
  OBVIOUS
<1>2. AnswerOr(FirstOf(checks), "pointer", [job EXCEPT !.claims = Some(claims)])
  BY Zenon DEF Reader
<1> HIDE DEF checks, S
<1>3. FirstOf(checks) \in S \cup {OK}
  BY <1>1, FirstOfIn, Zenon
<1>4. CASE FirstOf(checks) # OK
  <2>1. Answer(FirstOf(checks)) /\ ~ (FirstOf(checks) \in {200, 201, 304})
    BY <1>2, <1>3, <1>4 DEF AnswerOr, OK, S
  <2> QED BY <2>1, Refuses, Zenon
<1>5. CASE FirstOf(checks) = OK
  <2>1. pc' = "pointer" /\ job' = [job EXCEPT !.claims = Some(claims)]
    BY <1>2, <1>5, Zenon DEF AnswerOr, Await
  <2>2. JobInv' /\ RouteInv' /\ pc' \in Early /\ pc \in Early
    BY <2>1, Zenon DEF AInv, JobInv, RouteInv, Publishes, NewJob, Early, Some, None
  <2> QED BY <2>2, Continues, Zenon
<1> QED BY <1>4, <1>5, Zenon

\* publisher_with_chain up to the devices keeps the invariant.
LEMMA PublisherStep ==
  ASSUME AInv, pc = "token", req.route \in {"session", "put"}, UNCHANGED <<req, node, asked>>,
         NEW claims, Publisher(claims)
  PROVE  AInv'
<1> DEFINE local == ~ is_suspended(claims.sub)
                    /\ node.entitlement \subseteq Entries(claims.arkavo_entitlements)
           held == [job EXCEPT !.local = local]
<1>1. \/ Answer(403)
      \/ node.decisions = "local" /\ LocalAnswer(claims, local, None)
      \/ Devices(claims, held)
  BY Zenon DEF Publisher
<1>2. DOMAIN held = DOMAIN NewJob /\ held.session = None /\ pc \in Early
  BY Zenon DEF AInv, JobInv, NewJob, Early
<1> HIDE DEF local, held
<1>3. CASE Answer(403)
  BY <1>3, Refuses
<1>4. CASE node.decisions = "local" /\ LocalAnswer(claims, local, None)
  BY <1>4, Enforces, Zenon DEF Pdp
<1>5. CASE Devices(claims, held)
  BY <1>2, <1>5, Chains, Zenon
<1> QED BY <1>1, <1>3, <1>4, <1>5, Zenon

\* The verification of the token keeps the invariant.
LEMMA TokenStep == ASSUME AInv, Token PROVE AInv'
<1>1. pc = "token" /\ UNCHANGED <<req, node, asked>>
  BY Zenon DEF Token
<1>2. Answer(502) \/ Answer(401) \/ \E claims : WithClaims(claims)
  BY Zenon DEF Token
<1>3. CASE Answer(502) \/ Answer(401)
  BY <1>1, <1>3, Refuses
<1>4. ASSUME NEW claims, WithClaims(claims) PROVE AInv'
  <2>1. /\ req.route \in {"session", "put", "get", "operator"}
        /\ req.route = "session" => node.gated
        /\ DOMAIN job = DOMAIN NewJob /\ job.session = None
    BY <1>1, Zenon DEF AInv, RouteInv, Publishes, JobInv
  <2>2. CASE req.route = "operator"
    <3>1. pc' = "done" /\ job' = [job EXCEPT !.claims = Some(claims)]
      BY <1>4, <2>2, Zenon DEF WithClaims, Answered
    <3>2. ~ Pdp' /\ ~ Decided'
      BY <1>1, <2>2, Zenon DEF Pdp, Decided
    <3>3. JobInv' /\ RouteInv' /\ AskInv' /\ job'.session = None
      BY <1>1, <2>1, <2>2, <3>1, <3>2, Zenon DEF AInv, JobInv, RouteInv, Publishes, AskInv, Early, NewJob
    <3> QED BY <3>2, <3>3, Zenon DEF AInv, PermittedFirst, None
  <2>3. CASE req.route = "get"
    BY <1>1, <1>4, <2>3, ReaderStep, Zenon DEF WithClaims
  <2>4. CASE req.route \in {"session", "put"} /\ node.gated
    BY <1>1, <1>4, <2>4, PublisherStep, Zenon DEF WithClaims
  <2>5. CASE req.route = "put" /\ ~ node.gated
    <3>1. Admitted(claims, None) /\ ~ Pdp
      BY <1>4, <2>5, Zenon DEF WithClaims, Pdp
    <3> QED BY <1>1, <2>5, <3>1, Admits, Zenon
  <2> QED BY <2>1, <2>2, <2>3, <2>4, <2>5, Zenon
<1> QED BY <1>2, <1>3, <1>4, Zenon

\* The verification of one device keeps the invariant.
LEMMA DeviceStep == ASSUME AInv, Device PROVE AInv'
<1>1. /\ pc = "device" /\ pc \in Early /\ UNCHANGED <<req, node, asked>>
      /\ req.route \in {"session", "put", "get"}
  BY Zenon DEF Device, Early, AInv, RouteInv, Publishes
<1>2. \/ NoChain(The(job.claims), job.local, 401)
      \/ /\ pc' \in {"decide", "device"}
         /\ \E entity : job' = [job EXCEPT !.rest = Tail(@), !.chain = Append(@, entity)]
  BY Zenon DEF Device, Await
<1>3. CASE NoChain(The(job.claims), job.local, 401)
  BY <1>1, <1>3, Unchained
<1>4. ASSUME pc' \in {"decide", "device"}, NEW entity,
             job' = [job EXCEPT !.rest = Tail(@), !.chain = Append(@, entity)]
      PROVE  AInv'
  <2>1. JobInv' /\ RouteInv' /\ pc' \in Early
    BY <1>1, <1>4, Zenon DEF AInv, JobInv, RouteInv, Publishes, NewJob, Early
  <2> QED BY <1>1, <2>1, Continues, Zenon
<1> QED BY <1>2, <1>3, <1>4, Zenon

\* What follows a permit keeps the invariant.
LEMMA PermittedStep ==
  ASSUME AInv, pc = "decide", UNCHANGED <<req, node>>, Permit', Permitted
  PROVE  AInv'
<1>1. pc # "done" /\ req.route \in {"session", "put", "get"}
  BY Zenon DEF AInv, RouteInv, Publishes
<1>2. CASE req.route = "get"
  <2>1. pc' = "done" /\ job' = job
    BY <1>2, Zenon DEF Permitted, Answer, Answered
  <2>2. JobInv' /\ RouteInv' /\ AskInv'
    BY <1>2, <2>1, Zenon DEF AInv, JobInv, RouteInv, Publishes, AskInv, Early
  <2> QED BY <2>2, Zenon DEF AInv, PermittedFirst
<1>3. CASE req.route # "get"
  <2>1. \/ LocalAnswer(The(job.claims), job.local, Some(Chain))
        \/ Admitted(The(job.claims), Some(Chain))
    BY <1>3, Zenon DEF Permitted
  <2> QED BY <1>1, <1>3, <2>1, Enforces, Admits, Zenon
<1> QED BY <1>2, <1>3, Zenon

\* The decision, given, refused or failed, keeps the invariant.
LEMMA DecideStep == ASSUME AInv, Decide PROVE AInv'
<1> DEFINE Posts(permit) == /\ asked' = Append(asked, [body |-> Posted, permit |-> permit])
                            /\ IF permit THEN Permitted ELSE NotPermitted(403)
<1>1. /\ pc = "decide" /\ pc # "done" /\ UNCHANGED <<req, node>> /\ asked = <<>>
      /\ req.route \in {"session", "put", "get"}
  BY Zenon DEF Decide, AInv, RouteInv, Publishes, AskInv, Early
<1>2. ASSUME NEW status \in {403, 502, 503}, NotPermitted(status) PROVE AInv'
  <2>1. ~ (status \in {200, 201, 304})
    OBVIOUS
  <2>2. NoChain(The(job.claims), job.local, status)
    BY <1>2, Zenon DEF NotPermitted, NoChain
  <2> QED BY <1>1, <2>1, <2>2, Unchained
<1>3. ASSUME NEW permit \in Answers(Resource[1]), Posts(permit) PROVE AInv'
  <2>1. CASE permit
    <3>1. Permit'
      BY <1>1, <1>3, <2>1 DEF Permit
    <3> QED BY <1>1, <1>3, <2>1, <3>1, PermittedStep, Zenon
  <2>2. CASE ~ permit
    BY <1>2, <1>3, <2>2
  <2> QED BY <2>1, <2>2, Zenon
<1>4. CASE NotPermitted(IF req.route = "get" THEN 502 ELSE 503)
  BY <1>2, <1>4
<1>5. (\E permit \in Answers(Resource[1]) : Posts(permit))
      \/ NotPermitted(IF req.route = "get" THEN 502 ELSE 503)
  BY Zenon DEF Decide
<1> HIDE DEF Posts
<1> QED BY <1>3, <1>4, <1>5, Zenon

\* The read of the pointer keeps the invariant.
LEMMA ReadPointerStep == ASSUME AInv, ReadPointer PROVE AInv'
<1>1. pc = "pointer" /\ pc \in Early /\ pc # "done" /\ UNCHANGED <<req, node, asked>>
  BY Zenon DEF ReadPointer, Early
<1>2. \/ Answer(404) \/ Answer(502)
      \/ pc' = "attribute" /\ job' = [job EXCEPT !.hash = Some(Catalogs[req.sub].hash)]
  BY DEF ReadPointer, AnswerOr, Await, OK
<1>3. CASE Answer(404) \/ Answer(502)
  BY <1>1, <1>3, Refuses
<1>4. CASE pc' = "attribute" /\ job' = [job EXCEPT !.hash = Some(Catalogs[req.sub].hash)]
  <2>1. JobInv' /\ RouteInv' /\ pc' \in Early
    BY <1>1, <1>4, Zenon DEF AInv, JobInv, RouteInv, Publishes, NewJob, Early
  <2> QED BY <1>1, <2>1, Continues, Zenon
<1> QED BY <1>2, <1>3, <1>4, Zenon

\* The read of the attribute keeps it: who skips the decision is an operator by
\* the rule of the moderation API (is_operator against operator).
LEMMA ReadAttributeStep == ASSUME AInv, ReadAttribute PROVE AInv'
<1> DEFINE held == [job EXCEPT !.attribute = Catalogs[req.sub].attribute]
<1>1. /\ pc = "attribute" /\ pc \in Early /\ pc # "done" /\ UNCHANGED <<req, node, asked>>
      /\ req.route = "get" /\ job.claims # None
      /\ DOMAIN job = DOMAIN NewJob /\ job.session = None
  BY Zenon DEF ReadAttribute, Early, AInv, RouteInv, Publishes, JobInv
<1>2. \/ Answer(404) \/ Answer(502)
      \/ is_operator(The(job.claims)) /\ Answer(OK)
      \/ Devices(The(job.claims), held)
  BY Zenon DEF ReadAttribute
<1>3. DOMAIN held = DOMAIN NewJob /\ held.session = None
  BY <1>1, Zenon DEF NewJob
<1> HIDE DEF held
<1>4. CASE Answer(404) \/ Answer(502)
  BY <1>1, <1>4, Refuses
<1>5. CASE is_operator(The(job.claims)) /\ Answer(OK)
  <2>1. pc' = "done" /\ job' = job
    BY <1>5, Zenon DEF Answer, Answered
  <2>2. The(job.claims) \in job.claims
    BY <1>1, Zenon DEF The, None
  <2>3. node.gated /\ operator(The(job.claims))
    BY <1>5, Zenon DEF is_operator, operator
  <2>4. (node.gated /\ operator(The(job.claims)))'
    BY <1>1, <2>1, <2>3, Zenon DEF operator
  <2>5. ~ Decided'
    BY <1>1, <2>1, <2>2, <2>4, Zenon DEF Decided
  <2>6. JobInv' /\ RouteInv' /\ AskInv'
    BY <1>1, <2>1, Zenon DEF AInv, JobInv, RouteInv, Publishes, AskInv, Early, Pdp
  <2> QED BY <1>1, <2>1, <2>5, <2>6, Zenon DEF AInv, PermittedFirst, None
<1>6. CASE Devices(The(job.claims), held)
  BY <1>1, <1>3, <1>6, Chains, Zenon
<1> QED BY <1>2, <1>4, <1>5, <1>6

\* The steps of a publish after its admission, and the fetches, keep it.
LEMMA LateStep ==
  ASSUME AInv, Fetch \/ Body \/ Credential \/ LookUp \/ LookedUp \/ Status
  PROVE  AInv'
<1>1. DOMAIN job = DOMAIN NewJob /\ (pc # "done" => job.session = None)
  BY Zenon DEF AInv, JobInv
<1>2. CASE Fetch
  <2>1. req.route \in {"document", "blob"} /\ pc = "fetch" /\ UNCHANGED <<req, node, asked>>
    BY <1>2, Zenon DEF Fetch, AInv, RouteInv, Publishes
  <2>2. pc' = "done" /\ job' = job
    BY <1>2, <2>1, ZenonT(30) DEF Fetch, Answer, Answered
  <2> QED BY <1>1, <2>1, <2>2, Late, Zenon DEF Early, Publishes
<1>3. CASE Body
  <2>1. /\ pc = "body" /\ UNCHANGED <<req, node, asked>>
        /\ \/ pc' = "done" /\ job' = job
           \/ pc' = "credential" /\ job' = [job EXCEPT !.at = now]
    BY <1>3, Zenon DEF Body, AnswerOr, Answer, Answered, Await
  <2>2. DOMAIN job' = DOMAIN NewJob /\ job'.session = None
    BY <1>1, <2>1, Zenon DEF NewJob
  <2> QED BY <2>1, <2>2, Late, Zenon DEF Early, Publishes
<1>4. CASE Credential
  <2>1. pc = "credential" /\ UNCHANGED <<req, node, asked>>
    BY <1>4, ZenonT(30) DEF Credential
  <2>2. pc' \in {"done", "status", "sizes"}
    BY <1>4, ZenonT(30) DEF Credential, Answer, Answered, Await
  <2>3. DOMAIN job' = DOMAIN NewJob /\ job'.session = None
    BY <1>1, <1>4, <2>1, Zenon DEF Credential, Answer, Answered, Await, NewJob
  <2> QED BY <2>1, <2>2, <2>3, Late, Zenon DEF Early, Publishes
<1>5. CASE LookUp
  <2>1. pc \in {"sizes", "manifests"} /\ pc' = pc /\ UNCHANGED <<req, node, asked>>
    BY <1>5, ZenonT(30) DEF LookUp
  <2>2. DOMAIN job' = DOMAIN NewJob /\ job'.session = None
    BY <1>1, <1>5, <2>1, ZenonT(30) DEF LookUp, NewJob
  <2> QED BY <2>1, <2>2, Late, Zenon DEF Early, Publishes
<1>6. CASE LookedUp
  <2>1. /\ pc \in {"sizes", "manifests"} /\ UNCHANGED <<req, node, asked>>
        /\ \/ pc' = "done" /\ job' = job
           \/ /\ pc' \in {"manifests", "status"}
              /\ \E t : job' = [job EXCEPT !.found = <<>>, !.todo = t]
    BY <1>6, ZenonT(30) DEF LookedUp, Answer, Answered, Await
  <2>2. DOMAIN job' = DOMAIN NewJob /\ job'.session = None
    BY <1>1, <2>1, Zenon DEF NewJob
  <2> QED BY <2>1, <2>2, Late, ZenonT(30) DEF Early, Publishes
<1>7. CASE Status
  <2>1. /\ pc = "status" /\ UNCHANGED <<req, node, asked>>
        /\ pc' = "done" /\ job' = job
    BY <1>7, Zenon DEF Status, Answer, Answered
  <2> QED BY <1>1, <2>1, Late, Zenon DEF Early, Publishes
<1> QED BY <1>2, <1>3, <1>4, <1>5, <1>6, <1>7, Zenon

\* The world around the handler does not touch it.
LEMMA WorldStep ==
  ASSUME AInv, Tick \/ Rotate \/ Moderate \/ Ingest \/ UNCHANGED vars
  PROVE  AInv'
<1>1. UNCHANGED <<req, node, pc, job, answer, asked>>
  BY Zenon DEF Tick, Rotate, Moderate, Ingest, vars, handler
<1>2. JobInv' /\ RouteInv' /\ AskInv'
  BY <1>1, Zenon DEF AInv, JobInv, RouteInv, Publishes, AskInv, Pdp, Permit
<1>3. PermittedFirst'
  <2>1. \A c : operator(c)' <=> operator(c)
    BY <1>1, Zenon DEF operator
  <2>2. (Success' <=> Success) /\ (Decided' <=> Decided) /\ (Permit' <=> Permit)
    BY <1>1, <2>1, Zenon DEF Success, Decided, Permit
  <2> QED BY <1>1, <2>2, Zenon DEF AInv, PermittedFirst
<1> QED BY <1>2, <1>3, Zenon DEF AInv

\* A request that just came satisfies the invariant.
LEMMA AdmissionInit == Init => AInv
<1> SUFFICES ASSUME Init PROVE AInv
  BY Zenon
<1>1. pc = "start" /\ job = NewJob /\ asked = <<>>
  BY Zenon DEF Init
<1>2. req.route \in Routes /\ (req.route = "session" => node.gated)
  BY CasesAssumption, Zenon DEF Init
<1>3. JobInv /\ RouteInv /\ AskInv
  BY <1>1, <1>2, Zenon DEF JobInv, RouteInv, Publishes, AskInv, Early, NewJob
<1> QED BY <1>1, <1>3, Zenon DEF AInv, PermittedFirst, NewJob, None

\* Every step keeps the invariant.
LEMMA AdmissionStep == AInv /\ [Next]_vars => AInv'
BY Zenon, BeginStep, TokenStep, DeviceStep, DecideStep, ReadPointerStep, ReadAttributeStep,
   LateStep, WorldStep DEF Next

\* Whatever requests come, and however the clock, the keys, the bars and the
\* store change and calls fail meanwhile: without a permit of the decision
\* service no reader but an operator opens a catalog, no publisher is admitted
\* in pdp mode and no session keeps a chain (decide_reader,
\* publisher_with_chain, open_session).
THEOREM PermitComesFirst == Spec => []PermittedFirst
<1>1. AInv => PermittedFirst
  BY Zenon DEF AInv
<1> QED BY AdmissionInit, AdmissionStep, <1>1, PTL DEF Spec

-----------------------------------------------------------------------------
(***************************************************************************)
(* Lemmas about the operators of the model.                                *)
(***************************************************************************)

\* The element of an option.
LEMMA TheOne == ASSUME NEW o, o # None PROVE The(o) \in o
BY Zenon DEF The, None

\* An option is what its one element makes it.
LEMMA OnlyOne == ASSUME NEW o, IsOption(o), NEW x \in o PROVE The(o) = x /\ o = Some(x)
<1>1. The(o) \in o
  BY TheOne, Zenon DEF None
<1> QED BY <1>1, Zenon DEF IsOption, Some

\* A list of checks that answers 200 refused nothing.
LEMMA FirstOfOK ==
  ASSUME NEW checks, DOMAIN checks \subseteq 1 .. 4,
         \A i \in DOMAIN checks : checks[i][2] # OK,
         FirstOf(checks) = OK
  PROVE  \A i \in DOMAIN checks : ~ checks[i][1]
<1> DEFINE failed == {i \in DOMAIN checks : checks[i][1]}
<1>0. SUFFICES ASSUME failed # {} PROVE FALSE
  BY Zenon
<1>1. \E i \in failed : \A j \in failed : i <= j
  BY <1>0, FirstFailed, Zenon
<1> DEFINE first == CHOOSE i \in failed : \A j \in failed : i <= j
<1>2. first \in failed
  BY <1>1, Zenon
<1>3. checks[first][2] # OK
  BY <1>2, Zenon
<1> QED BY <1>0, <1>3, Zenon DEF FirstOf

\* A map without repeated keys has at most one claim of a name.
LEMMA OneClaim ==
  ASSUME NEW s, NoRepeats(s), NEW key, NEW type
  PROVE  IsOption(Claim(s, key, type))
<1> SUFFICES ASSUME NEW x \in Claim(s, key, type), NEW y \in Claim(s, key, type)
             PROVE  x = y
  BY Zenon DEF IsOption
<1>1. PICK i \in DOMAIN s : s[i].k = key /\ x = s[i].v
  BY Zenon DEF Claim, Entries
<1>2. PICK j \in DOMAIN s : s[j].k = key /\ y = s[j].v
  BY Zenon DEF Claim, Entries
<1>3. i = j
  BY <1>1, <1>2, Zenon DEF NoRepeats
<1> QED BY <1>1, <1>2, <1>3, Zenon

\* The subject of verified claims is the one text the token names.
LEMMA VerifiedSub ==
  ASSUME NEW m, IsOption(m.payload), NEW iss, NEW aud, NEW at,
         NEW c \in VerifiedClaims(m, iss, aud, at)
  PROVE  Texts(m, "sub") = Some(c.sub)
<1>1. PICK p \in m.payload : c \in parse_claims(p)
  BY Zenon DEF VerifiedClaims
<1> DEFINE sub == Claim(p.entries, "sub", "text")
<1>2. ClaimsOk(p.entries) /\ c.sub = The(sub)
  BY <1>1 DEF parse_claims, None, Some
<1>3. NoRepeats(p.entries) /\ sub # None
  BY <1>2, Zenon DEF ClaimsOk
<1>4. IsOption(sub)
  BY <1>3, OneClaim, Zenon
<1>5. sub = Some(The(sub))
  <2> HIDE DEF sub
  <2> QED BY <1>3, <1>4, TheOne, OnlyOne, Zenon
<1>6. m.payload = {p}
  BY Zenon DEF IsOption
<1>7. Texts(m, "sub") = sub
  BY <1>6, Zenon DEF Texts
<1> QED BY <1>2, <1>5, <1>7, Zenon

\* A request carries at most one token, and the token one payload.
LEMMA OneBearer ==
  ASSUME RequestForm(req)
  PROVE  IsOption(bearer) /\ \A m \in bearer : IsOption(m.payload)
<1>1. \A m \in bearer : \E h \in req.authorization : m \in h.token
  BY Zenon DEF bearer
<1> QED BY <1>1 DEF RequestForm, IsOption

\* A verification of verify_sign1: the key set it leaves in the cache, the
\* fault it met, and that a signature holds only under a key of the set.
Vouched(m) == \/ \E k \in DOMAIN cached : m.by = cached[k]
              \/ \E k \in DOMAIN published : m.by = published[k]

\* Of its outcomes, one that holds is vouched for and met no failed fetch, and
\* one without keys does not hold.
LEMMA Verifies ==
  ASSUME NEW m, NEW wellFormed, NEW o \in Verifications(m, wellFormed)
  PROVE  /\ o.cache \in {cached, published}
         /\ o.fault \subseteq {"recent", "keys"}
         /\ o.holds => Vouched(m) /\ "keys" \notin o.fault
         /\ o.unavailable => ~ o.holds
<1>1. \/ o = [cache |-> cached, fault |-> {}, unavailable |-> FALSE, holds |-> FALSE]
      \/ o = [cache |-> cached, fault |-> {"keys"}, unavailable |-> TRUE, holds |-> FALSE]
      \/ o = Outcome(published, m, {})
      \/ o = Outcome(cached, m, {})
      \/ o = Outcome(cached, m, {"recent"})
  BY Zenon DEF Verifications, verify_sign1
<1>2. ASSUME NEW keys \in {cached, published}, NEW fault, fault \subseteq {"recent"},
             o = Outcome(keys, m, fault)
      PROVE  /\ o.cache \in {cached, published} /\ o.fault \subseteq {"recent"}
             /\ ~ o.unavailable /\ (o.holds => Vouched(m))
  <2>1. o.cache = keys /\ o.fault = fault /\ o.unavailable = FALSE
    BY <1>2, Zenon DEF Outcome
  <2>2. o.holds => m.kid \in DOMAIN keys /\ m.by = keys[m.kid]
    BY <1>2, Zenon DEF Outcome, Signed
  <2> QED BY <1>2, <2>1, <2>2, Zenon DEF Vouched
<1>3. CASE \/ o = [cache |-> cached, fault |-> {}, unavailable |-> FALSE, holds |-> FALSE]
           \/ o = [cache |-> cached, fault |-> {"keys"}, unavailable |-> TRUE, holds |-> FALSE]
  BY <1>3
<1> QED BY <1>1, <1>2, <1>3

\* What becomes of a request whose token is verified: it is refused, or goes
\* on with the claims of the token, which a key of the IdP signed.
LEMMA TokenOutcome ==
  ASSUME Token
  PROVE  /\ pc = "token" /\ UNCHANGED <<req, node, asked, world>>
         /\ cached' \in {cached, published}
         /\ \/ Answer(502) \/ Answer(401)
            \/ /\ faults' \subseteq faults \cup {"recent"}
               /\ Vouched(The(bearer))
               /\ \E c \in VerifiedClaims(The(bearer), node.issuer, Audience, job.at) :
                    WithClaims(c)
<1> DEFINE m == The(bearer)
           V == VerifiedClaims(m, node.issuer, Audience, job.at)
           After(o) == IF o.unavailable THEN Answer(502)
                       ELSE IF {c \in V : o.holds} = None THEN Answer(401)
                       ELSE WithClaims(The({c \in V : o.holds}))
<1>1. pc = "token" /\ UNCHANGED <<req, node, asked, world>>
  BY Zenon DEF Token
<1>2. \E o \in Verifications(m, IsCwt(m)) : Verifying(o) /\ After(o)
  BY Zenon DEF Token
<1> HIDE DEF m, After
<1>3. PICK o \in Verifications(m, IsCwt(m)) : Verifying(o) /\ After(o)
  BY <1>2, Zenon
<1>4. cached' = o.cache /\ faults' = faults \cup o.fault
  BY <1>3, Zenon DEF Verifying
<1>5. /\ o.cache \in {cached, published}
      /\ o.fault \subseteq {"recent", "keys"}
      /\ o.holds => Vouched(m) /\ "keys" \notin o.fault
  BY Verifies, Zenon
<1>6. CASE o.unavailable
  BY <1>1, <1>3, <1>4, <1>5, <1>6, Zenon DEF After
<1>7. CASE ~ o.unavailable /\ {c \in V : o.holds} = None
  BY <1>1, <1>3, <1>4, <1>5, <1>7, Zenon DEF After
<1>8. CASE ~ o.unavailable /\ {c \in V : o.holds} # None
  <2> DEFINE c == The({d \in V : o.holds})
  <2>1. c \in {d \in V : o.holds}
    BY <1>8, TheOne, Zenon
  <2>2. WithClaims(c)
    BY <1>3, <1>8, Zenon DEF After
  <2> HIDE DEF c, V
  <2>3. c \in V /\ o.holds
    BY <2>1, Zenon
  <2>4. faults' \subseteq faults \cup {"recent"} /\ Vouched(m)
    BY <1>4, <1>5, <2>3, Zenon
  <2> QED BY <1>1, <1>4, <1>5, <2>2, <2>3, <2>4, Zenon DEF m, V
<1> QED BY <1>6, <1>7, <1>8, Zenon

\* Step 1 of put_catalog refuses, or goes on with the publisher's own catalog.
LEMMA PublishingOutcome ==
  ASSUME NEW claims, Publishing(claims)
  PROVE  \/ answer' \in {403, 415} /\ pc' = "done" /\ job' = job
         \/ /\ pc' = "body" /\ job' = [job EXCEPT !.claims = Some(claims)]
            /\ req.sub = claims.sub /\ answer' = answer
<1> DEFINE checks == << <<req.sub # claims.sub, 403>>, <<~ req.body.json, 415>> >>
           S == {403, 415}
<1>1. /\ DOMAIN checks \subseteq 1 .. 4 /\ \A i \in DOMAIN checks : checks[i][2] \in S
      /\ 1 \in DOMAIN checks
  OBVIOUS
<1>2. AnswerOr(FirstOf(checks), "body", [job EXCEPT !.claims = Some(claims)])
  BY Zenon DEF Publishing
<1>3. checks[1][1] = (req.sub # claims.sub)
  BY Zenon
<1> HIDE DEF checks, S
<1>4. FirstOf(checks) \in S \cup {OK}
  BY <1>1, FirstOfIn, Zenon
<1>5. CASE FirstOf(checks) # OK
  BY <1>2, <1>4, <1>5 DEF AnswerOr, Answer, Answered, S
<1>6. CASE FirstOf(checks) = OK
  <2>1. \A i \in DOMAIN checks : ~ checks[i][1]
    BY <1>1, <1>6, FirstOfOK DEF OK, S
  <2> QED BY <1>1, <1>2, <1>3, <1>6, <2>1, ZenonT(30) DEF AnswerOr, Await
<1> QED BY <1>5, <1>6, Zenon

\* A body that step 2 of put_catalog does not take is refused.
LEMMA BodyRefuses == BodyStatus \in {OK, 413, 400, 422}
<1> DEFINE checks == << <<Document = None, 422>>,
                        <<PointerFor(TheBundle, req.sub) = None, 422>>,
                        <<AttestationOf(TheBundle) = None, 422>> >>
           S == {422}
<1>1. BodyStatus \in {413, 400} \/ BodyStatus = FirstOf(checks)
  BY DEF BodyStatus
<1>2. DOMAIN checks \subseteq 1 .. 4 /\ \A i \in DOMAIN checks : checks[i][2] \in S
  OBVIOUS
<1> HIDE DEF checks, S
<1>3. FirstOf(checks) \in S \cup {OK}
  BY <1>2, FirstOfIn, Zenon
<1> QED BY <1>1, <1>3 DEF S

\* A body that step 2 of put_catalog took has a bundle with a pointer and an
\* attestation.
LEMMA BodyTaken ==
  ASSUME BodyStatus = OK
  PROVE  /\ req.body.syntax /\ Struct(req.body.value, PutRequest)
         /\ parse_bundle(Member(req.body.value, "bundle")) # None
         /\ Document # None
         /\ PointerFor(TheBundle, req.sub) # None
         /\ AttestationOf(TheBundle) # None
<1> DEFINE checks == << <<Document = None, 422>>,
                        <<PointerFor(TheBundle, req.sub) = None, 422>>,
                        <<AttestationOf(TheBundle) = None, 422>> >>
<1>1. /\ req.body.syntax /\ Struct(req.body.value, PutRequest)
      /\ IsSome(parse_bundle(Member(req.body.value, "bundle")))
      /\ FirstOf(checks) = OK
  BY DEF BodyStatus, OK
<1>2. /\ DOMAIN checks \subseteq 1 .. 4 /\ \A i \in DOMAIN checks : checks[i][2] # OK
      /\ {1, 2, 3} \subseteq DOMAIN checks
  BY DEF OK
<1>3. /\ checks[1][1] = (Document = None)
      /\ checks[2][1] = (PointerFor(TheBundle, req.sub) = None)
      /\ checks[3][1] = (AttestationOf(TheBundle) = None)
  BY Zenon
<1> HIDE DEF checks
<1>4. \A i \in DOMAIN checks : ~ checks[i][1]
  BY <1>1, <1>2, FirstOfOK, Zenon
<1> QED BY <1>1, <1>2, <1>3, <1>4, Zenon DEF IsSome, None

\* An attestation that is verified describes one passkey.
LEMMA OneCredential ==
  ASSUME NEW m, IsOption(m.payload), NEW iss, NEW at,
         NEW S, S \subseteq VerifiedCredential(m, iss, at)
  PROVE  IsOption(S)
<1> SUFFICES ASSUME NEW x \in S, NEW y \in S PROVE x = y
  BY Zenon DEF IsOption
<1>1. PICK p \in m.payload : x \in parse_credential(p)
  BY Zenon DEF VerifiedCredential
<1>2. PICK q \in m.payload : y \in parse_credential(q)
  BY Zenon DEF VerifiedCredential
<1>3. p = q
  BY <1>1, <1>2, Zenon DEF IsOption
<1>4. \A z \in parse_credential(p) : parse_credential(p) = {z}
  BY Zenon DEF parse_credential, None, Some
<1> QED BY <1>1, <1>2, <1>3, <1>4, Zenon

\* What a publish is verified by.
Attested == The(AttestationOf(TheBundle))
ThePointer == The(PointerFor(TheBundle, req.sub))
Envelope == envelope_attribute(Field(req.body.value, "document").v, req.sub)
Credentialed ==
    {c \in VerifiedCredential(Attested, node.issuer, job.at) :
        BundleOk(TheBundle, ThePointer, c, node.rp)}

\* What becomes of a publish whose attestation is verified: it is refused, or
\* goes on with the attested passkey, which signed the bundle, and a document
\* the checks of steps 4 and 5 took.
LEMMA CredentialOutcome ==
  ASSUME Credential
  PROVE  /\ pc = "credential" /\ UNCHANGED <<req, node, asked, world>>
         /\ cached' \in {cached, published}
         /\ \/ \E status \in {502, 422, 403} : Answer(status)
            \/ /\ faults' \subseteq faults \cup {"recent"}
               /\ Vouched(Attested)
               /\ DocumentStatus(ThePointer) = OK
               /\ \E found \in SUBSET Credentialed :
                    /\ found # None
                    /\ Await(IF The(Indexed) = <<>> THEN "status" ELSE "sizes",
                             [job EXCEPT !.pointer = Some(ThePointer), !.credential = found,
                                         !.attribute = Envelope,
                                         !.entries = The(Indexed),
                                         !.todo = PayloadHashes(The(Indexed))])
<1> DEFINE V == VerifiedCredential(Attested, node.issuer, job.at)
           F(o) == {c \in V : o.holds /\ BundleOk(TheBundle, ThePointer, c, node.rp)}
           S(o) == IF o.unavailable THEN 502 ELSE IF F(o) = None THEN 422
                   ELSE DocumentStatus(ThePointer)
           Goes(found) == Await(IF The(Indexed) = <<>> THEN "status" ELSE "sizes",
                             [job EXCEPT !.pointer = Some(ThePointer), !.credential = found,
                                         !.attribute = Envelope,
                                         !.entries = The(Indexed),
                                         !.todo = PayloadHashes(The(Indexed))])
           After(o) == IF S(o) # OK THEN Answer(S(o)) ELSE Goes(F(o))
<1>1. pc = "credential" /\ UNCHANGED <<req, node, asked, world>>
  BY Zenon DEF Credential
<1>2. \E o \in Verifications(Attested, TRUE) : Verifying(o) /\ After(o)
  BY Zenon DEF Credential, Attested, ThePointer, Envelope
<1> HIDE DEF After, Goes
<1>3. PICK o \in Verifications(Attested, TRUE) : Verifying(o) /\ After(o)
  BY <1>2, Zenon
<1>4. cached' = o.cache /\ faults' = faults \cup o.fault
  BY <1>3, Zenon DEF Verifying
<1>5. /\ o.cache \in {cached, published}
      /\ o.fault \subseteq {"recent", "keys"}
      /\ o.holds => Vouched(Attested) /\ "keys" \notin o.fault
  BY Verifies, Zenon
<1>6. DocumentStatus(ThePointer) \in {OK, 422, 403}
  BY DEF DocumentStatus
<1>7. S(o) \in {OK, 502, 422, 403}
  BY <1>6
<1>8. CASE S(o) # OK
  <2>1. Answer(S(o))
    BY <1>3, <1>8, Zenon DEF After
  <2>2. S(o) \in {502, 422, 403}
    BY <1>7, <1>8, Zenon
  <2> HIDE DEF S
  <2>3. \E status \in {502, 422, 403} : Answer(status)
    BY <2>1, <2>2, Zenon
  <2> QED BY <1>1, <1>4, <1>5, <2>3, Zenon
<1>9. CASE S(o) = OK
  <2>1. ~ o.unavailable /\ F(o) # None /\ DocumentStatus(ThePointer) = OK
    BY <1>9 DEF OK
  <2>2. PICK c \in F(o) : TRUE
    BY <2>1, Zenon DEF None
  <2>3. o.holds /\ F(o) \subseteq Credentialed
    BY <2>2, Zenon DEF Credentialed
  <2>4. faults' \subseteq faults \cup {"recent"} /\ Vouched(Attested)
    BY <1>4, <1>5, <2>3, Zenon
  <2>5. Goes(F(o))
    BY <1>3, <1>9 DEF After
  <2> HIDE DEF F
  <2>6. \E found \in SUBSET Credentialed : found # None /\ Goes(found)
    BY <2>1, <2>3, <2>5, Zenon
  <2> QED BY <1>1, <1>4, <1>5, <2>1, <2>4, <2>6, Zenon DEF Goes
<1> QED BY <1>8, <1>9, Zenon

\* What the checks of steps 4 and 5 took.
LEMMA DocumentTaken ==
  ASSUME NEW p, DocumentStatus(p) = OK
  PROVE  /\ NamesDocument(p) /\ Envelope # None /\ Indexed # None
         /\ CampaignOk(The(job.claims), The(Envelope))
         /\ \A h \in {p.catalogHash} \cup PayloadHashes(The(Indexed)) : ~ is_blocked(h)
<1>1. /\ NamesDocument(p) /\ Envelope # None /\ Indexed # None
      /\ CampaignOk(The(job.claims), The(Envelope))
      /\ \A h \in {Field(req.body.value, "document").v.hash} \cup PayloadHashes(The(Indexed)) :
            ~ is_blocked(h)
  BY DEF DocumentStatus, Envelope, OK
<1>2. Field(req.body.value, "document").v.hash = p.catalogHash
  BY <1>1, Zenon DEF NamesDocument
<1> QED BY <1>1, <1>2, Zenon

\* A publish before its body: no step of publisher_with_chain accepts it, and
\* nothing is looked up.
BeforeBody ==
    /\ pc' \in Early \cup {"body"} \/ (pc' = "done" /\ ~ Success')
    /\ job'.found = job.found

\* An error does not.
LEMMA RefusedPut ==
  ASSUME NEW status, ~ (status \in {200, 201, 304}), Answer(status)
  PROVE  BeforeBody
BY Zenon DEF BeforeBody, Answer, Answered, Success, OK

\* Nor does the local answer.
LEMMA LocalPut ==
  ASSUME req.route = "put", DOMAIN job = DOMAIN NewJob,
         NEW claims, NEW local, NEW chain, LocalAnswer(claims, local, chain)
  PROVE  BeforeBody
<1>1. CASE Publishing(claims)
  <2>1. CASE answer' \in {403, 415} /\ pc' = "done" /\ job' = job
    BY <2>1 DEF BeforeBody, Success, OK
  <2>2. CASE pc' = "body" /\ job' = [job EXCEPT !.claims = Some(claims)]
    BY <2>2, Zenon DEF BeforeBody, NewJob
  <2> QED BY <1>1, <2>1, <2>2, PublishingOutcome
<1>2. CASE Answer(403)
  BY <1>2, RefusedPut
<1> QED BY <1>1, <1>2, Zenon DEF LocalAnswer, Admitted

\* Nor a chain that is refused.
LEMMA UnchainedPut ==
  ASSUME req.route = "put", DOMAIN job = DOMAIN NewJob, NEW claims, NEW local,
         NEW status, ~ (status \in {200, 201, 304}), NoChain(claims, local, status)
  PROVE  BeforeBody
<1>1. CASE Shadow
  BY <1>1, LocalPut, Zenon DEF NoChain
<1>2. CASE ~ Shadow
  BY <1>2, RefusedPut, Zenon DEF NoChain
<1> QED BY <1>1, <1>2, Zenon

\* So no step before the body does.
LEMMA EarlyPut ==
  ASSUME AInv, req.route = "put",
         Begin \/ Token \/ Device \/ Decide \/ ReadPointer \/ ReadAttribute \/ Fetch
  PROVE  BeforeBody
<1>0. DOMAIN job = DOMAIN NewJob
  BY Zenon DEF AInv, JobInv
<1>1. CASE Begin
  <2>1. AnswerOr(BeforeToken, "token", [job EXCEPT !.at = now])
    BY <1>1, Zenon DEF Begin
  <2>2. CASE BeforeToken # OK
    <3>1. Answer(BeforeToken) /\ ~ (BeforeToken \in {200, 201, 304})
      BY <2>1, <2>2, BeforeTokenRefuses DEF AnswerOr, OK
    <3> QED BY <3>1, RefusedPut, Zenon
  <2>3. CASE BeforeToken = OK
    BY <1>0, <2>1, <2>3, Zenon DEF AnswerOr, Await, BeforeBody, Early, NewJob
  <2> QED BY <2>2, <2>3, Zenon
<1>2. ASSUME NEW claims, NEW local, Devices(claims, [job EXCEPT !.local = local])
      PROVE  BeforeBody
  <2> DEFINE held == [job EXCEPT !.local = local]
  <2>0. DOMAIN held = DOMAIN NewJob /\ held.found = job.found
    BY <1>0, Zenon DEF NewJob
  <2> HIDE DEF held
  <2>1. CASE NoChain(claims, held.local, 400)
    BY <1>0, <2>1, UnchainedPut
  <2>2. CASE ~ NoChain(claims, held.local, 400)
    <3>1. Devices(claims, held)
      BY <1>2, Zenon DEF held
    <3> QED BY <2>0, <2>2, <3>1, Zenon DEF Devices, Await, BeforeBody, Early, NewJob
  <2> QED BY <2>1, <2>2, Zenon
<1>3. CASE Token
  <2>1. Answer(502) \/ Answer(401) \/ \E c : WithClaims(c)
    BY <1>3, Zenon DEF Token
  <2>2. CASE Answer(502) \/ Answer(401)
    BY <2>2, RefusedPut
  <2>3. ASSUME NEW c, WithClaims(c) PROVE BeforeBody
    <3>1. Publisher(c) \/ Admitted(c, None)
      BY <2>3, Zenon DEF WithClaims
    <3>2. CASE Admitted(c, None)
      <4>1. LocalAnswer(c, TRUE, None)
        BY <3>2, Zenon DEF LocalAnswer
      <4> QED BY <1>0, <4>1, LocalPut, Zenon
    <3>3. CASE Publisher(c)
      <4>1. \/ Answer(403)
            \/ \E local : LocalAnswer(c, local, None)
            \/ \E local : Devices(c, [job EXCEPT !.local = local])
        BY <3>3, Zenon DEF Publisher
      <4>2. CASE Answer(403) \/ \E local : LocalAnswer(c, local, None)
        BY <1>0, <4>2, RefusedPut, LocalPut
      <4>3. CASE \E local : Devices(c, [job EXCEPT !.local = local])
        BY <1>2, <4>3, Zenon
      <4> QED BY <4>1, <4>2, <4>3, Zenon
    <3> QED BY <3>1, <3>2, <3>3, Zenon
  <2> QED BY <2>1, <2>2, <2>3
<1>4. CASE Device
  <2>1. \/ NoChain(The(job.claims), job.local, 401)
        \/ /\ pc' \in {"decide", "device"}
           /\ \E entity : job' = [job EXCEPT !.rest = Tail(@), !.chain = Append(@, entity)]
    BY <1>4, Zenon DEF Device, Await
  <2>2. CASE NoChain(The(job.claims), job.local, 401)
    BY <1>0, <2>2, UnchainedPut
  <2> QED BY <1>0, <2>1, <2>2, ZenonT(30) DEF BeforeBody, Early, NewJob
<1>5. CASE Decide
  <2>1. \/ NotPermitted(403) \/ NotPermitted(503)
        \/ \E local, chain : LocalAnswer(The(job.claims), local, chain)
    <3>1. NotPermitted(403) \/ NotPermitted(503) \/ Permitted
      BY <1>5, ZenonT(30) DEF Decide
    <3>2. CASE Permitted
      <4>1. \/ LocalAnswer(The(job.claims), job.local, Some(Chain))
            \/ LocalAnswer(The(job.claims), TRUE, Some(Chain))
        BY <3>2, Zenon DEF Permitted, LocalAnswer
      <4> QED BY <4>1, ZenonT(30)
    <3> QED BY <3>1, <3>2, Zenon
  <2>2. ASSUME NEW status \in {403, 503}, NotPermitted(status) PROVE BeforeBody
    <3>1. NoChain(The(job.claims), job.local, status) /\ ~ (status \in {200, 201, 304})
      BY <2>2 DEF NotPermitted, NoChain
    <3> QED BY <1>0, <3>1, UnchainedPut
  <2> QED BY <1>0, <2>1, <2>2, LocalPut
<1>6. ~ (ReadPointer \/ ReadAttribute \/ Fetch)
  BY ZenonT(30) DEF ReadPointer, ReadAttribute, Fetch, AInv, RouteInv
<1> QED BY <1>1, <1>3, <1>4, <1>5, <1>6, Zenon


-----------------------------------------------------------------------------
(***************************************************************************)
(* Published catalogs can be opened.  What look_up found of a recording    *)
(* stays true while the publish goes on, since recordings are only added.  *)
(***************************************************************************)
Passed(routes) == req.route \in routes /\ pc = "done" /\ Success
Taken == pc \in {"sizes", "manifests", "status"} \/ Passed({"put"})

\* The body was taken, and the publisher may use the envelope's attribute.
TakenInv ==
    /\ RequestForm(req)
    /\ pc = "credential" \/ Taken => BodyStatus = OK
    /\ Taken =>
        /\ job.attribute = Envelope /\ Envelope # None
        /\ CampaignOk(The(job.claims), The(Envelope))
        /\ DOMAIN job.entries \subseteq Nat

\* What a lookup that was not refused found.
FoundIs(h) ==
    IF pc = "sizes" THEN h \in stored /\ job.found[h].v = Some(Blobs[h].size)
    ELSE /\ h \in described /\ job.found[h].v = read_manifest(Blobs[h].manifest)
         /\ job.found[h].v # None

\* Every entry is looked up or will be.
LookupInv ==
    /\ req.route = "put" /\ pc \notin {"sizes", "manifests", "done"} => job.found = <<>>
    /\ pc \in {"sizes", "manifests"} =>
        /\ PayloadHashes(job.entries) \subseteq job.todo \cup DOMAIN job.found
        /\ \A h \in DOMAIN job.found :
            /\ job.found[h].status \in {OK, 422, 502}
            /\ job.found[h].status = OK => FoundIs(h)

SizesFit ==
    \A i \in DOMAIN job.entries :
        /\ job.entries[i].payloadHash \in stored
        /\ Blobs[job.entries[i].payloadHash].size = job.entries[i].payloadSize

ManifestsFit ==
    \A i \in DOMAIN job.entries :
        /\ job.entries[i].payloadHash \in described
        /\ has_attribute(Blobs[job.entries[i].payloadHash].manifest, The(job.attribute))

OpenInv ==
    /\ TakenInv /\ LookupInv
    /\ pc \in {"manifests", "status"} \/ Passed({"put"}) => SizesFit
    /\ pc = "status" \/ Passed({"put"}) => ManifestsFit


\* What is said of the request alone stays.
LEMMA RequestFrame ==
  ASSUME UNCHANGED req
  PROVE  /\ BodyStatus' = BodyStatus /\ Envelope' = Envelope
         /\ RequestForm(req)' <=> RequestForm(req)
<1>1. BodyStatus' = BodyStatus
  BY DEF BodyStatus, Document, TheBundle
<1>2. Envelope' = Envelope
  BY Zenon DEF Envelope
<1> QED BY <1>1, <1>2, Zenon

\* A step to a place where nothing is taken keeps the invariant.
LEMMA NotTaken ==
  ASSUME OpenInv, UNCHANGED req, pc' \notin {"credential", "sizes", "manifests", "status"},
         ~ Passed({"put"})', req.route = "put" /\ pc' # "done" => job'.found = <<>>
  PROVE  OpenInv'
<1>1. TakenInv'
  BY Zenon DEF OpenInv, TakenInv, Taken
<1>2. LookupInv'
  BY Zenon DEF LookupInv
<1> QED BY <1>1, <1>2, Zenon DEF OpenInv

\* The body of a publish.
LEMMA BodyOpen == ASSUME AInv, OpenInv, Body PROVE OpenInv'
<1>1. /\ pc = "body" /\ UNCHANGED <<req, node, world>> /\ req.route = "put"
      /\ DOMAIN job = DOMAIN NewJob /\ job.found = <<>>
  BY Zenon DEF Body, AInv, RouteInv, Publishes, JobInv, OpenInv, LookupInv
<1>5. AnswerOr(BodyStatus, "credential", [job EXCEPT !.at = now])
  BY Zenon DEF Body
<1>6. CASE BodyStatus # OK
  <2>1. pc' = "done" /\ ~ Success'
    BY <1>5, <1>6, BodyRefuses DEF AnswerOr, Answer, Answered, Success, OK
  <2> QED BY <1>1, <2>1, NotTaken, Zenon DEF Passed
<1>7. CASE BodyStatus = OK
  <2>1. pc' = "credential" /\ job'.found = <<>>
    BY <1>1, <1>5, <1>7, Zenon DEF AnswerOr, Await, NewJob
  <2>2. BodyStatus' = OK
    BY <1>1, <1>7, RequestFrame, Zenon
  <2>3. TakenInv' /\ LookupInv'
    BY <1>1, <2>1, <2>2, Zenon DEF OpenInv, TakenInv, Taken, Passed, LookupInv
  <2> QED BY <2>1, <2>3, Zenon DEF OpenInv, Passed
<1> QED BY <1>6, <1>7, Zenon

\* The verification of the credential takes the document.
LEMMA CredentialOpen == ASSUME AInv, OpenInv, Credential PROVE OpenInv'
<1>1. /\ pc = "credential" /\ UNCHANGED <<req, node, world>> /\ req.route = "put"
      /\ DOMAIN job = DOMAIN NewJob /\ job.found = <<>>
      /\ RequestForm(req) /\ BodyStatus = OK
  BY Zenon DEF Credential, AInv, RouteInv, Publishes, JobInv, OpenInv, LookupInv, TakenInv
<1> DEFINE Goes(found) == Await(IF The(Indexed) = <<>> THEN "status" ELSE "sizes",
                             [job EXCEPT !.pointer = Some(ThePointer), !.credential = found,
                                         !.attribute = Envelope,
                                         !.entries = The(Indexed),
                                         !.todo = PayloadHashes(The(Indexed))])
<1>2. \/ \E status \in {502, 422, 403} : Answer(status)
      \/ DocumentStatus(ThePointer) = OK /\ \E found : Goes(found)
  BY CredentialOutcome, Zenon
<1>3. CASE \E status \in {502, 422, 403} : Answer(status)
  <2>1. pc' = "done" /\ ~ Success'
    BY <1>3 DEF Answer, Answered, Success, OK
  <2> QED BY <1>1, <2>1, NotTaken, Zenon DEF Passed
<1>4. ASSUME DocumentStatus(ThePointer) = OK, NEW found, Goes(found) PROVE OpenInv'
  <2>1. /\ job'.attribute = Envelope /\ job'.entries = The(Indexed) /\ job'.found = <<>>
        /\ job'.todo = PayloadHashes(The(Indexed)) /\ job'.claims = job.claims
        /\ pc' = IF The(Indexed) = <<>> THEN "status" ELSE "sizes"
    BY <1>1, <1>4, Zenon DEF Await, NewJob
  <2> HIDE DEF Goes
  <2>2. Envelope' = Envelope /\ BodyStatus' = OK
    BY <1>1, RequestFrame, Zenon
  <2>3. Envelope # None /\ CampaignOk(The(job.claims), The(Envelope))
    BY <1>4, DocumentTaken, Zenon
  <2>3a. DOMAIN job'.entries \subseteq Nat
    <3> DEFINE index == Member(req.body.value, "index")
    <3>1. req.body.syntax /\ Struct(req.body.value, PutRequest) /\ Indexed # None
      BY <1>1, <1>4, BodyTaken, DocumentTaken, Zenon
    <3>2. index.t = "array" /\ Indexed = Some([i \in DOMAIN index.v |-> entry(index.v[i])])
      BY <3>1, Zenon DEF Indexed, parse_index, None
    <3>3. DOMAIN index.v \subseteq Nat
      BY <1>1, <3>1, <3>2, Zenon DEF RequestForm
    <3> HIDE DEF index
    <3>4. The(Indexed) = [i \in DOMAIN index.v |-> entry(index.v[i])]
      BY <3>2, Zenon DEF The, Some
    <3> QED BY <2>1, <3>3, <3>4, Zenon
  <2>4. TakenInv'
    BY <1>1, <2>1, <2>2, <2>3, <2>3a, Zenon DEF TakenInv
  <2>5. LookupInv'
    BY <1>1, <2>1 DEF LookupInv
  <2>6. pc' = "status" => SizesFit' /\ ManifestsFit'
    BY <2>1 DEF SizesFit, ManifestsFit
  <2> QED BY <2>1, <2>4, <2>5, <2>6, Zenon DEF OpenInv, Passed
<1> QED BY <1>2, <1>3, <1>4, ZenonT(30)

\* The lookup of h found f.
Records(h, f) ==
    /\ job'.todo = job.todo \ {h}
    /\ job'.found = [x \in DOMAIN job.found \cup {h} |-> IF x = h THEN f ELSE job.found[x]]
    /\ (f = Lookup(h) /\ faults' = faults) \/ f = Found(502, None)

\* One lookup: its result, or the failure of the call, is recorded.
LEMMA LookUpOutcome ==
  ASSUME AInv, LookUp
  PROVE  /\ pc \in {"sizes", "manifests"} /\ UNCHANGED <<req, node, pc, answer, cached, world>>
         /\ \E h \in job.todo : \E f : Records(h, f)
         /\ job'.entries = job.entries /\ job'.attribute = job.attribute
         /\ job'.claims = job.claims /\ job'.pointer = job.pointer
         /\ job'.credential = job.credential
<1>1. /\ pc \in {"sizes", "manifests"} /\ UNCHANGED <<req, node, pc, answer, cached, world>>
      /\ DOMAIN job = DOMAIN NewJob
  BY Zenon DEF LookUp, AInv, JobInv
<1> DEFINE Went(h, f) == job' = [job EXCEPT !.todo = @ \ {h}, !.found = Recorded(@, h, f)]
<1>2. \E h \in job.todo :
        \/ Went(h, Lookup(h)) /\ faults' = faults
        \/ Went(h, Found(502, None))
  BY ZenonT(30) DEF LookUp
<1>3. ASSUME NEW h \in job.todo, NEW f, Went(h, f)
      PROVE  /\ job'.todo = job.todo \ {h}
             /\ job'.found = [x \in DOMAIN job.found \cup {h} |->
                               IF x = h THEN f ELSE job.found[x]]
             /\ job'.entries = job.entries /\ job'.attribute = job.attribute
             /\ job'.claims = job.claims /\ job'.pointer = job.pointer
             /\ job'.credential = job.credential
  BY <1>1, <1>3, Zenon DEF NewJob, Recorded
<1> HIDE DEF Went
<1>4. PICK h \in job.todo :
        \/ Went(h, Lookup(h)) /\ faults' = faults
        \/ Went(h, Found(502, None))
  BY <1>2, Zenon
<1>5. Records(h, Lookup(h)) \/ Records(h, Found(502, None))
  BY <1>3, <1>4 DEF Records
<1>6. \E f : Records(h, f)
  BY <1>5, Zenon
<1>7. /\ job'.entries = job.entries /\ job'.attribute = job.attribute
      /\ job'.claims = job.claims /\ job'.pointer = job.pointer
      /\ job'.credential = job.credential
  BY <1>3, <1>4, ZenonT(30)
<1> QED BY <1>1, <1>6, <1>7, Zenon

\* One lookup.
LEMMA LookUpOpen == ASSUME AInv, OpenInv, LookUp PROVE OpenInv'
<1>1. /\ pc \in {"sizes", "manifests"} /\ UNCHANGED <<req, node, pc, answer, world>>
      /\ job'.entries = job.entries /\ job'.attribute = job.attribute
      /\ job'.claims = job.claims
  BY LookUpOutcome, Zenon
<1>2. PICK h, f : h \in job.todo /\ Records(h, f)
  BY LookUpOutcome, Zenon
<1>3. /\ job'.todo = job.todo \ {h}
      /\ job'.found = [x \in DOMAIN job.found \cup {h} |->
                        IF x = h THEN f ELSE job.found[x]]
      /\ h \in job.todo /\ f \in {Lookup(h), Found(502, None)}
  BY <1>2, Zenon DEF Records
<1>4. /\ UNCHANGED <<stored, described, Envelope, BodyStatus>>
      /\ RequestForm(req)' <=> RequestForm(req)
  BY <1>1, RequestFrame, Zenon DEF world
<1>5. TakenInv'
  BY <1>1, <1>3, <1>4, Zenon DEF OpenInv, TakenInv, Taken, Passed
<1>6. LookupInv'
  <2>1. PayloadHashes(job'.entries) \subseteq job'.todo \cup DOMAIN job'.found
    BY <1>1, <1>3 DEF OpenInv, LookupInv
  <2>2. /\ f.status \in {OK, 422, 502}
        /\ f.status = OK =>
            IF pc = "sizes" THEN h \in stored /\ f.v = Some(Blobs[h].size)
            ELSE /\ h \in described /\ f.v = read_manifest(Blobs[h].manifest) /\ f.v # None
    BY <1>3, <1>1 DEF Lookup, Found, OK, IsSome, None
  <2>3. ASSUME NEW x \in DOMAIN job'.found
        PROVE  /\ job'.found[x].status \in {OK, 422, 502}
               /\ job'.found[x].status = OK => FoundIs(x)'
    <3>1. CASE x # h
      <4>1. job'.found[x] = job.found[x]
        BY <1>3, <3>1, Zenon
      <4> QED BY <1>1, <1>3, <1>4, <3>1, <4>1 DEF OpenInv, LookupInv, FoundIs
    <3>2. CASE x = h
      <4>1. x = h /\ job'.found[x] = f
        BY <1>3, <3>2
      <4> QED BY <1>1, <1>4, <2>2, <4>1 DEF FoundIs
    <3> QED BY <3>1, <3>2, Zenon
  <2> QED BY <1>1, <2>1, <2>3, Zenon DEF LookupInv
<1>7. (SizesFit' <=> SizesFit) /\ (ManifestsFit' <=> ManifestsFit)
  BY <1>1, <1>4, Zenon DEF SizesFit, ManifestsFit
<1> QED BY <1>1, <1>5, <1>6, <1>7, Zenon DEF OpenInv, Passed


LOCAL INSTANCE WellFoundedInduction

\* Of the entries that are refused, one comes first.
LEMMA LeastOne ==
  ASSUME NEW S, S \subseteq Nat, S # {}
  PROVE  \E i \in S : \A j \in S : i <= j
<1> DEFINE R == OpToRel(<, Nat)
<1>1. IsWellFoundedOn(R, Nat)
  BY NatLessThanWellFounded, Zenon
<1>2. \A x, y \in Nat : x < y => <<x, y>> \in R
  BY Zenon DEF OpToRel
<1> HIDE DEF R
<1>3. PICK i \in S : \A j \in S : ~ (<<j, i>> \in R)
  BY <1>1, WFMin, Zenon
<1>4. \A j \in S : ~ (j < i)
  BY <1>2, <1>3, Zenon
<1>5. \A j \in S : i <= j
  BY <1>4
<1> QED BY <1>5, Zenon

\* What look_up answers or goes on with: an error, or lookups that all found
\* what their entry says.
LEMMA LookedUpOutcome ==
  ASSUME AInv, OpenInv, LookedUp
  PROVE  /\ pc \in {"sizes", "manifests"} /\ UNCHANGED <<req, node, asked, cached, faults, world>>
         /\ \/ \E status \in {422, 502} : Answer(status)
            \/ /\ \A i \in DOMAIN job.entries :
                    /\ job.entries[i].payloadHash \in DOMAIN job.found \ job.todo
                    /\ job.found[job.entries[i].payloadHash].status = OK
                    /\ FoundIs(job.entries[i].payloadHash)
                    /\ RecordingOk(job.entries[i])
               /\ Await(IF pc = "sizes" THEN "manifests" ELSE "status",
                        [job EXCEPT !.found = <<>>,
                                    !.todo = IF pc = "sizes" THEN PayloadHashes(job.entries) ELSE {}])
<1> DEFINE H(i) == job.entries[i].payloadHash
           at == {i \in DOMAIN job.entries : H(i) \in job.todo \/ job.found[H(i)].status # OK}
           first == CHOOSE i \in at : \A j \in at : i <= j
<1>1. /\ pc \in {"sizes", "manifests"} /\ UNCHANGED <<req, node, asked, cached, faults, world>>
  BY Zenon DEF LookedUp
<1>2. /\ DOMAIN job.entries \subseteq Nat
      /\ \A i \in DOMAIN job.entries : H(i) \in job.todo \cup DOMAIN job.found
      /\ \A h \in DOMAIN job.found :
            /\ job.found[h].status \in {OK, 422, 502}
            /\ job.found[h].status = OK => FoundIs(h)
  BY <1>1 DEF OpenInv, TakenInv, Taken, LookupInv, PayloadHashes
<1>3. Refusal = IF at = {} THEN None ELSE Some(first)
  BY Zenon DEF Refusal
<1>4. CASE at # {}
  <2>1. \E i \in at : \A j \in at : i <= j
    <3>1. at \subseteq Nat
      BY <1>2
    <3> HIDE DEF at
    <3> QED BY <1>4, <3>1, LeastOne, ZenonT(30)
  <2>2. first \in at
    BY <2>1, Zenon
  <2>3. Refusal = Some(first) /\ The(Refusal) = first /\ IsSome(Refusal)
    BY <1>3, <1>4, Zenon DEF Some, The, IsSome
  <2> HIDE DEF first
  <2>4. H(first) \notin job.todo /\ Answer(job.found[H(first)].status)
    BY <2>3, Zenon DEF LookedUp, Some
  <2>5. first \in DOMAIN job.entries /\ H(first) \in DOMAIN job.found
        /\ job.found[H(first)].status # OK
    BY <1>2, <2>2, <2>4
  <2>6. job.found[H(first)].status \in {422, 502}
    BY <1>2, <2>5
  <2>7. \E status \in {422, 502} : Answer(status)
    <3> DEFINE status == job.found[H(first)].status
    <3>1. Answer(status) /\ status \in {422, 502}
      BY <2>4, <2>6, Zenon
    <3> HIDE DEF status
    <3> QED BY <3>1
  <2> QED BY <1>1, <2>7, Zenon
<1>5. CASE at = {}
  <2>1. ~ IsSome(Refusal)
    BY <1>3, <1>5, Zenon DEF IsSome, None
  <2>2. ASSUME NEW i \in DOMAIN job.entries
        PROVE  H(i) \in DOMAIN job.found \ job.todo /\ job.found[H(i)].status = OK /\ FoundIs(H(i))
    <3>1. H(i) \notin job.todo /\ job.found[H(i)].status = OK
      BY <1>5, Zenon
    <3> QED BY <1>2, <3>1
  <2>3. CASE \E i \in DOMAIN job.entries : ~ RecordingOk(job.entries[i])
    <3>1. Answer(422)
      BY <2>1, <2>3, Zenon DEF LookedUp
    <3> QED BY <1>1, <3>1
  <2>4. CASE ~ \E i \in DOMAIN job.entries : ~ RecordingOk(job.entries[i])
    <3>1. Await(IF pc = "sizes" THEN "manifests" ELSE "status",
                [job EXCEPT !.found = <<>>,
                            !.todo = IF pc = "sizes" THEN PayloadHashes(job.entries) ELSE {}])
      BY <2>1, <2>4, Zenon DEF LookedUp
    <3> QED BY <1>1, <2>2, <2>4, <3>1
  <2> QED BY <2>3, <2>4, Zenon
<1> QED BY <1>4, <1>5, Zenon

\* The end of a round of lookups.
LEMMA LookedUpOpen == ASSUME AInv, OpenInv, LookedUp PROVE OpenInv'
<1>1. /\ pc \in {"sizes", "manifests"} /\ UNCHANGED <<req, node, world>>
      /\ DOMAIN job = DOMAIN NewJob
  BY Zenon DEF LookedUp, AInv, JobInv
<1> DEFINE Looked == \A i \in DOMAIN job.entries :
                       /\ FoundIs(job.entries[i].payloadHash)
                       /\ RecordingOk(job.entries[i])
<1>2. \/ \E status \in {422, 502} : Answer(status)
      \/ /\ Looked
         /\ Await(IF pc = "sizes" THEN "manifests" ELSE "status",
                  [job EXCEPT !.found = <<>>,
                              !.todo = IF pc = "sizes" THEN PayloadHashes(job.entries) ELSE {}])
  BY LookedUpOutcome, Zenon
<1>3. CASE \E status \in {422, 502} : Answer(status)
  <2>1. pc' = "done" /\ ~ Success'
    BY <1>3 DEF Answer, Answered, Success, OK
  <2> QED BY <1>1, <2>1, NotTaken, Zenon DEF Passed
<1>4. CASE /\ Looked
           /\ Await(IF pc = "sizes" THEN "manifests" ELSE "status",
                  [job EXCEPT !.found = <<>>,
                              !.todo = IF pc = "sizes" THEN PayloadHashes(job.entries) ELSE {}])
  <2>1. /\ job'.entries = job.entries /\ job'.attribute = job.attribute
        /\ job'.claims = job.claims /\ job'.found = <<>>
        /\ pc' = IF pc = "sizes" THEN "manifests" ELSE "status"
        /\ pc = "sizes" => job'.todo = PayloadHashes(job.entries)
    BY <1>1, <1>4, Zenon DEF Await, NewJob
  <2>2. UNCHANGED <<stored, described, Envelope, BodyStatus>>
        /\ (RequestForm(req)' <=> RequestForm(req))
    BY <1>1, RequestFrame, Zenon DEF world
  <2>3. TakenInv'
    BY <1>1, <2>1, <2>2, Zenon DEF OpenInv, TakenInv, Taken
  <2>4. LookupInv'
    BY <1>1, <2>1 DEF LookupInv
  <2>5. CASE pc = "sizes"
    <3>1. ASSUME NEW i \in DOMAIN job.entries
          PROVE  /\ job.entries[i].payloadHash \in stored
                 /\ Blobs[job.entries[i].payloadHash].size = job.entries[i].payloadSize
      <4>1. /\ FoundIs(job.entries[i].payloadHash)
            /\ RecordingOk(job.entries[i])
        BY <1>4, Zenon
      <4> QED BY <2>5, <4>1, Zenon DEF FoundIs, RecordingOk, Size, The, Some
    <3>2. SizesFit'
      BY <2>1, <2>2, <3>1, Zenon DEF SizesFit
    <3> QED BY <2>1, <2>3, <2>4, <2>5, <3>2, Zenon DEF OpenInv, Passed
  <2>6. CASE pc = "manifests"
    <3>1. ASSUME NEW i \in DOMAIN job.entries
          PROVE  /\ job.entries[i].payloadHash \in described
                 /\ has_attribute(Blobs[job.entries[i].payloadHash].manifest, The(job.attribute))
      <4> DEFINE h == job.entries[i].payloadHash
      <4>1. FoundIs(h) /\ RecordingOk(job.entries[i])
        BY <1>4, Zenon
      <4>2. h \in described /\ read_manifest(Blobs[h].manifest) # None
            /\ has_attribute(The(read_manifest(Blobs[h].manifest)), The(job.attribute))
        BY <2>6, <4>1, Zenon DEF FoundIs, RecordingOk, Size
      <4>3. The(read_manifest(Blobs[h].manifest)) = Blobs[h].manifest
        <5>1. The(read_manifest(Blobs[h].manifest)) \in read_manifest(Blobs[h].manifest)
          BY <4>2, TheOne, Zenon
        <5> QED BY <5>1, Zenon DEF read_manifest
      <4> QED BY <4>2, <4>3, Zenon
    <3>2. ManifestsFit'
      BY <2>1, <2>2, <3>1, Zenon DEF ManifestsFit
    <3>3. SizesFit'
      BY <2>1, <2>2, <2>6, Zenon DEF OpenInv, SizesFit
    <3> QED BY <2>1, <2>3, <2>4, <2>6, <3>2, <3>3, Zenon DEF OpenInv, Passed
  <2> QED BY <1>1, <2>5, <2>6, Zenon
<1> QED BY <1>2, <1>3, <1>4

\* The credential's status.
LEMMA StatusOpen == ASSUME AInv, OpenInv, Status PROVE OpenInv'
<1>1. /\ pc = "status" /\ UNCHANGED <<req, node, world>> /\ pc' = "done" /\ job' = job
  BY Zenon DEF Status, Answer, Answered
<1>2. UNCHANGED <<stored, described, Envelope, BodyStatus>>
      /\ (RequestForm(req)' <=> RequestForm(req))
  BY <1>1, RequestFrame, Zenon DEF world
<1>3. TakenInv' /\ LookupInv'
  BY <1>1, <1>2, Zenon DEF OpenInv, TakenInv, Taken, LookupInv
<1>4. SizesFit' /\ ManifestsFit'
  BY <1>1, <1>2, Zenon DEF OpenInv, SizesFit, ManifestsFit
<1> QED BY <1>3, <1>4, Zenon DEF OpenInv

\* Recordings are stored and described for good.
LEMMA WorldOpen ==
  ASSUME OpenInv, Tick \/ Rotate \/ Moderate \/ Ingest \/ UNCHANGED vars
  PROVE  OpenInv'
<1>1. UNCHANGED <<req, node, pc, job, answer>>
  BY Zenon DEF Tick, Rotate, Moderate, Ingest, vars, handler
<1>2. stored \subseteq stored' /\ described \subseteq described'
  BY Zenon DEF Tick, Rotate, Moderate, Ingest, vars, world
<1>3. UNCHANGED <<Envelope, BodyStatus>> /\ (RequestForm(req)' <=> RequestForm(req))
      /\ (Passed({"put"})' <=> Passed({"put"}))
  BY <1>1, RequestFrame, Zenon DEF Passed, Success
<1>4. TakenInv'
  BY <1>1, <1>3, Zenon DEF OpenInv, TakenInv, Taken
<1>5. LookupInv'
  BY <1>1, <1>2 DEF OpenInv, LookupInv, FoundIs
<1>6. (SizesFit => SizesFit') /\ (ManifestsFit => ManifestsFit')
  BY <1>1, <1>2, Zenon DEF SizesFit, ManifestsFit
<1> QED BY <1>1, <1>3, <1>4, <1>5, <1>6, Zenon DEF OpenInv


\* A list the policy spells is one list.
LEMMA OneList == \A policy, key : IsOption(BodyList(policy, key))
BY Zenon DEF IsOption, BodyList, Some, None

\* An archive has one manifest.
LEMMA OneManifest ==
  ASSUME NEW a, \A n \in DOMAIN a.members : IsOption(a.members[n].manifest)
  PROVE  /\ IsOption(validate_tdf_structure(a))
         /\ \A m \in validate_tdf_structure(a) :
                \E n \in DOMAIN a.members : m \in a.members[n].manifest
<1>1. IsOption(ManifestName(a)) /\ ManifestName(a) \subseteq DOMAIN a.members
  BY Zenon DEF IsOption, ManifestName, Some
<1>2. validate_tdf_structure(a) \subseteq ManifestIn(a)
  BY Zenon DEF validate_tdf_structure
<1>3. \A m \in ManifestIn(a) : \E n \in ManifestName(a) : m \in a.members[n].manifest
  BY Zenon DEF ManifestIn
<1> QED BY <1>1, <1>2, <1>3 DEF IsOption

\* A catalog has one attribute: the creator's own, or a campaign's.
LEMMA OneAttribute ==
  ASSUME RequestForm(req), req.route = "put", BodyStatus = OK
  PROVE  /\ IsOption(Envelope)
         /\ \A fqn \in Envelope :
                fqn \in Seq(STRING) /\ (IsSome(Campaign(fqn)) \/ Creator(fqn, req.sub))
<1> DEFINE field == Field(req.body.value, "document")
           d == field.v
           Spelled(m, fqn) == \E l \in BodyList(m.policy, "dataAttributes") :
                                \E a \in Entries(l) : Len(l) = 1 /\ a.form = "fqn" /\ fqn = a.fqn
<1>1. /\ req.body.syntax /\ Struct(req.body.value, PutRequest) /\ Document # None
  BY BodyTaken, Zenon
<1>2. d \in b64(field, MaxCatalog)
  BY <1>1, Zenon DEF Document, b64, None, Some
<1>3. DocumentForm(d)
  BY <1>1, <1>2, Zenon DEF RequestForm
<1> HIDE DEF field, d
<1>4. /\ IsOption(validate_tdf_structure(d))
      /\ \A m \in validate_tdf_structure(d) :
            \E n \in DOMAIN d.members : m \in d.members[n].manifest
  BY <1>3, OneManifest, Zenon DEF DocumentForm
<1>5. ASSUME NEW fqn \in Envelope
      PROVE  \E m \in validate_tdf_structure(d) : m \in read_manifest(m) /\ fqn \in check_envelope(m, req.sub)
  <2>1. PICK x \in validate_tdf_structure(d) :
            \E m \in read_manifest(x) : fqn \in check_envelope(m, req.sub)
    BY Zenon DEF Envelope, envelope_attribute, d, field
  <2> QED BY <2>1, Zenon DEF read_manifest
<1>6. ASSUME NEW m \in validate_tdf_structure(d), m \in read_manifest(m),
             NEW l \in BodyList(m.policy, "dataAttributes")
      PROVE  /\ DOMAIN l = 1 .. Len(l)
             /\ \A x \in Entries(l) : x.form = "fqn" => x.fqn \in Seq(STRING)
  <2>1. PICK n \in DOMAIN d.members : m \in d.members[n].manifest
    BY <1>4, Zenon
  <2>2. m \in UNION {read_manifest(x) : x \in d.members[n].manifest}
    BY <1>6, <2>1, Zenon
  <2> QED BY <1>3, <2>2, Zenon DEF DocumentForm
<1>7. ASSUME NEW m, NEW fqn \in check_envelope(m, req.sub)
      PROVE  Spelled(m, fqn) /\ (IsSome(Campaign(fqn)) \/ Creator(fqn, req.sub))
  BY Zenon DEF check_envelope
<1>8. ASSUME NEW x \in Envelope, NEW y \in Envelope PROVE x = y
  <2>1. PICK m \in validate_tdf_structure(d) :
            m \in read_manifest(m) /\ Spelled(m, x) /\ Spelled(m, y)
    BY <1>4, <1>5, <1>7 DEF IsOption
  <2>2. PICK l \in BodyList(m.policy, "dataAttributes") :
            /\ Len(l) = 1
            /\ \E a \in Entries(l) : x = a.fqn
            /\ \E a \in Entries(l) : y = a.fqn
    BY <2>1, OneList, Zenon DEF IsOption
  <2>3. DOMAIN l = {1}
    BY <1>6, <2>1, <2>2
  <2> QED BY <2>2, <2>3, Zenon DEF Entries
<1>9. ASSUME NEW fqn \in Envelope
      PROVE  fqn \in Seq(STRING) /\ (IsSome(Campaign(fqn)) \/ Creator(fqn, req.sub))
  <2>1. PICK m \in validate_tdf_structure(d) :
            m \in read_manifest(m) /\ fqn \in check_envelope(m, req.sub)
    BY <1>5, Zenon
  <2>2. Spelled(m, fqn) /\ (IsSome(Campaign(fqn)) \/ Creator(fqn, req.sub))
    BY <1>7, <2>1, Zenon
  <2> QED BY <1>6, <2>1, <2>2, Zenon
<1> QED BY <1>8, <1>9, Zenon DEF IsOption

\* An attribute that names a creator is the creator attribute followed by it.
LEMMA CreatorIs ==
  ASSUME NEW fqn \in Seq(STRING), NEW sub, Creator(fqn, sub)
  PROVE  fqn = CreatorAttribute \o sub
<1>1. /\ Len(fqn) > 2 /\ SubSeq(fqn, 1, 2) = CreatorAttribute
      /\ SubSeq(fqn, 3, Len(fqn)) = sub
  BY Zenon DEF Creator, ValueOf, Some, None
<1>2. fqn = SubSeq(fqn, 1, 2) \o SubSeq(fqn, 3, Len(fqn))
  BY <1>1
<1> QED BY <1>1, <1>2, Zenon


\* Every step keeps the invariant.
LEMMA OpenStep == ASSUME AInv, AInv', OpenInv, [Next]_vars PROVE OpenInv'
<1>1. CASE Begin \/ Token \/ Device \/ Decide \/ ReadPointer \/ ReadAttribute \/ Fetch
  <2>1. UNCHANGED req /\ pc \in Early \cup {"fetch"}
    BY <1>1, Zenon DEF Begin, Token, Device, Decide, ReadPointer, ReadAttribute, Fetch, Early
  <2>2. CASE req.route # "put"
    <3>1. pc' \notin Publishes /\ ~ Passed({"put"})'
      BY <2>1, <2>2, Zenon DEF AInv, RouteInv, Passed
    <3> QED BY <2>1, <2>2, <3>1, NotTaken, Zenon DEF Publishes
  <2>3. CASE req.route = "put"
    <3>1. BeforeBody
      BY <1>1, <2>3, EarlyPut, Zenon
    <3>2. job.found = <<>>
      BY <2>1, <2>3, Zenon DEF OpenInv, LookupInv, Early
    <3>3. pc' \notin {"credential", "sizes", "manifests", "status"} /\ ~ Passed({"put"})'
      BY <3>1, Zenon DEF BeforeBody, Early, Passed
    <3> QED BY <2>1, <3>1, <3>2, <3>3, NotTaken, Zenon DEF BeforeBody
  <2> QED BY <2>2, <2>3, Zenon
<1> QED BY <1>1, BodyOpen, CredentialOpen, LookUpOpen, LookedUpOpen, StatusOpen, WorldOpen, Zenon DEF Next

\* A request that just came satisfies it.
LEMMA OpenInit == Init => OpenInv
<1> SUFFICES ASSUME Init PROVE OpenInv
  BY Zenon
<1>1. pc = "start" /\ job = NewJob /\ RequestForm(req)
  BY RequestsAssumption, Zenon DEF Init
<1> QED BY <1>1, Zenon DEF OpenInv, TakenInv, Taken, LookupInv, Passed, NewJob

\* Whatever is published, stored and ingested, and however calls fail
\* meanwhile: a catalog that was accepted carries the publisher's own campaign
\* or creator attribute, and each recording it indexes is stored at the size
\* stated with a manifest that carries that attribute (check_envelope,
\* owns_campaign, check_payloads).
THEOREM CatalogsOpen == Spec => []CatalogOpenable
<1>1. AInv /\ OpenInv /\ [Next]_vars => AInv' /\ OpenInv'
  BY AdmissionStep, OpenStep, Zenon
<1>2. AInv /\ OpenInv => CatalogOpenable
  <2> SUFFICES ASSUME OpenInv, Done("put"), Success, NEW fqn \in job.attribute
               PROVE  /\ \/ fqn = CreatorAttribute \o req.sub
                         \/ \E id \in ValueOf(fqn, CampaignAttribute) : owns_campaign(The(job.claims), id)
                      /\ \A i \in DOMAIN job.entries :
                           LET e == job.entries[i] IN
                           /\ e.payloadHash \in stored \cap described
                           /\ Blobs[e.payloadHash].size = e.payloadSize
                           /\ \E l \in BodyList(Blobs[e.payloadHash].manifest.policy, "dataAttributes") :
                               \E j \in DOMAIN l : fqn \in FqnsOf(l[j])
    BY Zenon DEF CatalogOpenable
  <2>1. Passed({"put"}) /\ req.route = "put"
    BY Zenon DEF Passed, Done
  <2>2. /\ RequestForm(req) /\ BodyStatus = OK /\ job.attribute = Envelope
        /\ CampaignOk(The(job.claims), The(Envelope)) /\ SizesFit /\ ManifestsFit
    BY <2>1, Zenon DEF OpenInv, TakenInv, Taken
  <2>3. /\ IsOption(Envelope) /\ fqn \in Seq(STRING)
        /\ IsSome(Campaign(fqn)) \/ Creator(fqn, req.sub)
    BY <2>1, <2>2, OneAttribute, Zenon
  <2>4. fqn = The(Envelope) /\ fqn = The(job.attribute)
    BY <2>2, <2>3, OnlyOne, Zenon
  <2>5. \/ fqn = CreatorAttribute \o req.sub
        \/ \E id \in ValueOf(fqn, CampaignAttribute) : owns_campaign(The(job.claims), id)
    <3>1. CASE Creator(fqn, req.sub)
      BY <2>3, <3>1, CreatorIs, Zenon
    <3>2. CASE IsSome(Campaign(fqn))
      BY <2>2, <2>4, <3>2, Zenon DEF Campaign, CampaignOk, IsSome
    <3> QED BY <2>3, <3>1, <3>2, Zenon
  <2>6. ASSUME NEW i \in DOMAIN job.entries
        PROVE  LET e == job.entries[i] IN
               /\ e.payloadHash \in stored \cap described
               /\ Blobs[e.payloadHash].size = e.payloadSize
               /\ \E l \in BodyList(Blobs[e.payloadHash].manifest.policy, "dataAttributes") :
                   \E j \in DOMAIN l : fqn \in FqnsOf(l[j])
    <3> DEFINE h == job.entries[i].payloadHash
    <3>1. h \in stored \cap described /\ Blobs[h].size = job.entries[i].payloadSize
      BY <2>2, Zenon DEF SizesFit, ManifestsFit
    <3>2. has_attribute(Blobs[h].manifest, fqn)
      BY <2>2, <2>4, Zenon DEF ManifestsFit
    <3> HIDE DEF h
    <3>3. \E l \in BodyList(Blobs[h].manifest.policy, "dataAttributes") :
            \E a \in Entries(l) : fqn \in FqnsOf(a)
      BY <3>2 DEF has_attribute, extract_attribute_fqns
    <3>4. \E l \in BodyList(Blobs[h].manifest.policy, "dataAttributes") :
            \E j \in DOMAIN l : fqn \in FqnsOf(l[j])
      BY <3>3, Zenon DEF Entries
    <3> QED BY <3>1, <3>4, Zenon DEF h
  <2> QED BY <2>5, <2>6, Zenon
<1> QED BY AdmissionInit, OpenInit, <1>1, <1>2, PTL DEF Spec

=============================================================================
