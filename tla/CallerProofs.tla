---------------------------- MODULE CallerProofs ----------------------------
(***************************************************************************)
(* Proofs about whom Admission admits: they presented a token signed by the *)
(* provider for them (SignedInv), and what the decision service is asked is *)
(* about them (CallerInv).                                                 *)
(***************************************************************************)
EXTENDS AdmissionProofs

(***************************************************************************)
(* Signatures.  What the token and the bundle are verified for is a matter *)
(* of the request and of the keys the IdP ever published.                  *)
(***************************************************************************)
TokenSigned(sub) == The(bearer).by \in IdpKeys /\ Texts(The(bearer), "sub") = Some(sub)

\* The attested passkey signed the pointer that names the document.
BundleSigned ==
    LET attestation == TheBundle.credential.v
        client == TheBundle.assertion.clientDataJSON.v
        signature == TheBundle.assertion.signature.v
        pointer == TheBundle.pointer.v.json
    IN  /\ attestation.by \in IdpKeys
        /\ Texts(attestation, "sub") = Some(req.sub)
        /\ \E p \in attestation.payload : \E k \in Claim(p.entries, "publicKey", "cose_key") :
                signature.by \in p256_from_cose_key(k)
        /\ signature.over[2] = Sha256(client)
        /\ client.challenge = Some(Sha256(TheBundle.pointer.v))
        /\ Field(pointer, "owner") = req.sub
        /\ Field(pointer, "catalogHash") = Field(req.body.value, "document").v.hash

\* The endpoint signed for itself, this token and a current time.
Possession ==
    LET Sent(key) == Field(req.body.value, key) IN
    /\ Sent("signature").by = Sent("endpointId")
    /\ Sent("signature").over = <<Sent("endpointId"), The(bearer), Sent("timestamp")>>
    /\ \/ Sent("timestamp") \in FirstNow - SessionSkew .. now + SessionSkew
       \/ now - Sent("timestamp") \in Half .. Half + MaxTicks

\* The keys the node holds are the IdP's, and the clock is within its bounds.
KeysInv ==
    /\ \A k \in DOMAIN cached : cached[k] \in IdpKeys
    /\ \A k \in DOMAIN published : published[k] \in IdpKeys
    /\ now \in FirstNow .. FirstNow + MaxTicks

\* What is looked at before the token.
Presented ==
    /\ req.route \in {"session", "put", "get", "operator"} => bearer # None
    /\ req.route = "session" => Field(req.body.value, "timestamp") \in Int64

SignedInv ==
    /\ KeysInv
    /\ pc \notin {"start", "done"} => Presented
    /\ req.route \in {"session", "put"} /\ pc \in {"device", "decide"} =>
        TokenSigned(The(job.claims).sub)
    /\ pc \in Publishes \/ Passed({"put"}) => TokenSigned(req.sub)
    /\ Taken => BundleSigned
    /\ Passed({"session"}) =>
        /\ Possession
        /\ \E sub : TokenSigned(sub) /\ \A s \in job.session : s.subject = sub

\* i64 arithmetic near the ends of its range.
LEMMA Modulo ==
  ASSUME NEW m \in Nat \ {0}, NEW x \in Int
  PROVE  /\ x \in 0 .. m - 1 => x % m = x
         /\ x \in m .. 2 * m - 1 => x % m = x - m
<1>1. ASSUME x \in 0 .. m - 1 PROVE x % m = x
  BY <1>1
<1>2. ASSUME x \in m .. 2 * m - 1 PROVE x % m = x - m
  BY <1>2
<1> QED BY <1>1, <1>2, Zenon

\* So a sum of i64s wraps at most once: within the range it is itself, above
\* it is lower by the whole width.
LEMMA Wraps ==
  ASSUME NEW n \in Int
  PROVE  /\ n \in - Half .. Half - 1 => Wrapped(n) = n
         /\ n \in Half .. 3 * Half - 1 => Wrapped(n) = n - 2 * Half
<1>1. Half \in Nat \ {0} /\ 2 * Half \in Nat \ {0} /\ n + Half \in Int
  BY HalfAssumption
<1> DEFINE m == 2 * Half
           x == n + Half
<1>2. /\ n \in - Half .. Half - 1 => x \in 0 .. m - 1
      /\ n \in Half .. 3 * Half - 1 => x \in m .. 2 * m - 1
  BY <1>1
<1>3. /\ n \in - Half .. Half - 1 => x % m = x
      /\ n \in Half .. 3 * Half - 1 => x % m = x - m
  <2>1. m \in Nat \ {0} /\ x \in Int
    BY <1>1, Zenon
  <2> HIDE DEF m, x
  <2> QED BY <1>2, <2>1, Modulo, Zenon
<1> QED BY <1>1, <1>2, <1>3 DEF Wrapped

\* The distance of a timestamp from the clock is small when the timestamp is
\* near, and for the one whose distance has no absolute value.
LEMMA Near ==
  ASSUME KeysInv, NEW t \in Int64, ~ (Abs64(Wrapped(now - t)) > SessionSkew)
  PROVE  \/ t \in FirstNow - SessionSkew .. now + SessionSkew
         \/ now - t \in Half .. Half + MaxTicks
<1> DEFINE d == now - t
<1>1. /\ Half \in Nat \ {0} /\ {SessionSkew, FirstNow, MaxTicks} \subseteq Nat
      /\ now \in FirstNow .. FirstNow + MaxTicks /\ now + SessionSkew < Half
      /\ t \in - Half .. Half - 1 /\ d \in Int
  BY HalfAssumption, AdmissionAssumption, ClockAssumption DEF KeysInv, Int64
<1>2. CASE d < Half
  <2>1. Wrapped(d) = d
    BY <1>1, <1>2, Wraps
  <2>2. CASE d < 0
    <3>1. Wrapped(- d) = - d
      BY <1>1, <2>2, Wraps
    <3>2. Abs64(d) = - d
      BY <2>2, <3>1, Zenon DEF Abs64
    <3>3. ~ (- d > SessionSkew)
      BY <2>1, <3>2, Zenon
    <3> QED BY <1>1, <2>2, <3>3
  <2>3. CASE ~ (d < 0)
    <3>1. Abs64(d) = d
      BY <2>3, Zenon DEF Abs64
    <3> QED BY <1>1, <2>1, <2>3, <3>1
  <2> QED BY <2>2, <2>3, Zenon
<1>3. CASE d > Half
  <2>1. Wrapped(d) = d - 2 * Half /\ d - 2 * Half < 0 /\ 2 * Half - d \in Int
    BY <1>1, <1>3, Wraps
  <2>2. Wrapped(2 * Half - d) = 2 * Half - d
    BY <1>1, <1>3, <2>1, Wraps
  <2>3. - (d - 2 * Half) = 2 * Half - d
    BY <1>1
  <2>4. Abs64(d - 2 * Half) = 2 * Half - d
    BY <2>1, <2>2, <2>3, Zenon DEF Abs64
  <2> QED BY <1>1, <1>3, <2>1, <2>4
<1>4. CASE d = Half
  BY <1>1, <1>4
<1> QED BY <1>1, <1>2, <1>3, <1>4

\* A proof of possession that is not taken is refused.
LEMMA PossessionRefuses ==
  ASSUME NEW endpoint, NEW timestamp, NEW signature
  PROVE  verify_possession(endpoint, timestamp, signature) \in {OK, 400, 403}
<1> DEFINE checks == << <<Abs64(Wrapped(now - timestamp)) > SessionSkew, 400>>,
                        <<~ signature.hex, 400>>,
                        <<~ (/\ signature.by = endpoint
                             /\ signature.over = session_message(endpoint, The(bearer), timestamp)),
                          403>> >>
           S == {400, 403}
<1>1. verify_possession(endpoint, timestamp, signature) = FirstOf(checks)
  BY Zenon DEF verify_possession
<1>2. DOMAIN checks \subseteq 1 .. 4 /\ \A i \in DOMAIN checks : checks[i][2] \in S
  OBVIOUS
<1> HIDE DEF checks, S
<1>3. FirstOf(checks) \in S \cup {OK}
  BY <1>2, FirstOfIn, Zenon
<1> QED BY <1>1, <1>3 DEF S


\* What open_session checked of a proof of possession.
LEMMA PossessionChecked ==
  ASSUME KeysInv, Field(req.body.value, "timestamp") \in Int64,
         verify_possession(Field(req.body.value, "endpointId"), Field(req.body.value, "timestamp"),
                           Field(req.body.value, "signature")) = OK
  PROVE  Possession
<1> DEFINE Sent(key) == Field(req.body.value, key)
           by == /\ Sent("signature").by = Sent("endpointId")
                 /\ Sent("signature").over =
                        session_message(Sent("endpointId"), The(bearer), Sent("timestamp"))
           far == Abs64(Wrapped(now - Sent("timestamp"))) > SessionSkew
           checks == << <<far, 400>>, <<~ Sent("signature").hex, 400>>, <<~ by, 403>> >>
<1>1. /\ DOMAIN checks \subseteq 1 .. 4 /\ \A i \in DOMAIN checks : checks[i][2] # OK
      /\ {1, 3} \subseteq DOMAIN checks
  BY DEF OK
<1>2. FirstOf(checks) = OK
  BY Zenon DEF verify_possession
<1>3. checks[1][1] = far /\ checks[3][1] = ~ by
  BY Zenon
<1> HIDE DEF checks, by, far
<1>4. ~ far /\ by
  BY <1>1, <1>2, <1>3, FirstOfOK, Zenon
<1>5. \/ Sent("timestamp") \in FirstNow - SessionSkew .. now + SessionSkew
      \/ now - Sent("timestamp") \in Half .. Half + MaxTicks
  BY <1>4, Near, Zenon DEF far
<1> QED BY <1>4, <1>5, Zenon DEF Possession, by, session_message

\* The subject and the passkey of an attestation.
LEMMA CredentialIs ==
  ASSUME NEW m, IsOption(m.payload), NEW iss, NEW at, NEW c \in VerifiedCredential(m, iss, at)
  PROVE  /\ Texts(m, "sub") = Some(c.sub)
         /\ \E p \in m.payload : \E k \in Claim(p.entries, "publicKey", "cose_key") :
                c.public_key \in p256_from_cose_key(k)
<1>1. PICK p \in m.payload : c \in parse_credential(p)
  BY Zenon DEF VerifiedCredential
<1> DEFINE sub == Claim(p.entries, "sub", "text")
           key == Claim(p.entries, "publicKey", "cose_key")
<1>2. /\ CredentialOk(p.entries) /\ c.sub = The(sub)
      /\ c.public_key = The(p256_from_cose_key(The(key)))
  BY <1>1 DEF parse_credential, CredentialTypes, None, Some
<1>3. /\ NoRepeats(p.entries)
      /\ {e.k : e \in Entries(p.entries)} = DOMAIN CredentialTypes
      /\ \A e \in Entries(p.entries) : e.t = CredentialTypes[e.k]
      /\ \A k \in key : IsSome(p256_from_cose_key(k))
  BY <1>2, Zenon DEF CredentialOk
<1>4. sub # None /\ key # None
  <2>1. PICK e \in Entries(p.entries) : e.k = "sub"
    BY <1>3, Zenon DEF CredentialTypes
  <2>2. PICK f \in Entries(p.entries) : f.k = "publicKey"
    BY <1>3, Zenon DEF CredentialTypes
  <2>3. e.t = "text" /\ f.t = "cose_key"
    BY <1>3, <2>1, <2>2 DEF CredentialTypes
  <2>4. e.v \in sub /\ f.v \in key
    BY <2>1, <2>2, <2>3, Zenon DEF Claim
  <2> QED BY <2>4, Zenon DEF None
<1>5. IsOption(sub)
  BY <1>3, OneClaim, Zenon
<1>6. m.payload = {p}
  BY Zenon DEF IsOption
<1>7. Texts(m, "sub") = sub
  BY <1>6, Zenon DEF Texts
<1>8. sub = Some(The(sub)) /\ The(key) \in key
  <2> HIDE DEF sub, key
  <2> QED BY <1>4, <1>5, TheOne, OnlyOne, Zenon
<1>9. c.public_key \in p256_from_cose_key(The(key))
  <2> HIDE DEF key
  <2> QED BY <1>2, <1>3, <1>8, TheOne, Zenon DEF IsSome, None
<1> QED BY <1>2, <1>7, <1>8, <1>9, Zenon

\* A publish that goes on to its lookups has a bundle that is signed for it.
LEMMA BundleChecked ==
  ASSUME KeysInv, RequestForm(req), req.route = "put", BodyStatus = OK, Vouched(Attested),
         DocumentStatus(ThePointer) = OK, NEW c \in Credentialed
  PROVE  BundleSigned
<1>1. /\ AttestationOf(TheBundle) # None /\ Struct(req.body.value, PutRequest)
      /\ PointerFor(TheBundle, req.sub) # None
      /\ req.body.syntax /\ parse_bundle(Member(req.body.value, "bundle")) # None
  BY BodyTaken, Zenon
<1>2. Attested \in AttestationOf(TheBundle) /\ ThePointer \in PointerFor(TheBundle, req.sub)
  BY <1>1, TheOne, Zenon DEF Attested, ThePointer
<1>3. Attested = TheBundle.credential.v
  BY <1>2, Zenon DEF AttestationOf, b64, Some, None
<1>4. IsOption(Attested.payload)
  <2>1. TheBundle \in parse_bundle(Member(req.body.value, "bundle"))
    BY <1>1, TheOne, Zenon DEF TheBundle
  <2> QED BY <1>1, <1>2, <2>1, Zenon DEF RequestForm
<1>5. Attested.by \in IdpKeys
  BY Zenon DEF Vouched, KeysInv
<1> DEFINE bytes == TheBundle.pointer.v
<1>6. ThePointer \in parse_pointer(bytes) /\ ThePointer.owner = req.sub
  BY <1>2, Zenon DEF PointerFor, b64, Some, None
<1>7. /\ Field(bytes.json, "owner") = ThePointer.owner
      /\ Field(bytes.json, "catalogHash") = ThePointer.catalogHash
  BY <1>6, Zenon DEF parse_pointer, PointerFields, Some, None
<1>8. NamesDocument(ThePointer)
  BY DocumentTaken, Zenon
<1>9. c \in VerifiedCredential(Attested, node.issuer, job.at)
      /\ BundleOk(TheBundle, ThePointer, c, node.rp)
  BY Zenon DEF Credentialed
<1>10. /\ Texts(Attested, "sub") = Some(c.sub)
       /\ \E p \in Attested.payload : \E k \in Claim(p.entries, "publicKey", "cose_key") :
            c.public_key \in p256_from_cose_key(k)
  BY <1>4, <1>9, CredentialIs, Zenon
<1>11. /\ c.sub = ThePointer.owner
       /\ verify_assertion(bytes, TheBundle.assertion, c.public_key, node.rp)
  BY <1>9, Zenon DEF BundleOk, check_credential
<1>12. /\ TheBundle.assertion.clientDataJSON.v.challenge = Some(Sha256(bytes))
       /\ TheBundle.assertion.signature.v.by = c.public_key
       /\ TheBundle.assertion.signature.v.over[2] = Sha256(TheBundle.assertion.clientDataJSON.v)
  BY <1>11 DEF verify_assertion, ClientDataOk
<1> QED BY <1>3, <1>5, <1>6, <1>7, <1>8, <1>10, <1>11, <1>12, Zenon DEF BundleSigned, NamesDocument

\* The checks before the token.
LEMMA BeforeTokenTaken ==
  ASSUME BeforeToken = OK
  PROVE  /\ bearer # None
         /\ req.route = "session" => Field(req.body.value, "timestamp") \in Int64
<1> DEFINE fits == \/ req.route = "session" /\ Struct(req.body.value, SessionFields)
                   \/ req.route = "operator" /\ ActionRequest
           extracted == IF req.route \in {"session", "operator"} THEN Extracted(fits) ELSE OK
           checks == << <<req.route = "operator" /\ node.operators = {}, 503>>,
                        <<bearer = None, 401>> >>
<1>1. /\ DOMAIN checks \subseteq 1 .. 4 /\ \A i \in DOMAIN checks : checks[i][2] # OK
      /\ 2 \in DOMAIN checks
  BY DEF OK
<1>2. extracted = OK /\ FirstOf(checks) = OK
  BY Zenon DEF BeforeToken
<1>3. checks[2][1] = (bearer = None)
  BY Zenon
<1>4. bearer # None
  <2> HIDE DEF checks
  <2> QED BY <1>1, <1>2, <1>3, FirstOfOK, Zenon
<1>5. ASSUME req.route = "session" PROVE Field(req.body.value, "timestamp") \in Int64
  <2> DEFINE tried == << <<~ req.body.json, 415>>, <<~ req.body.syntax, 400>>, <<~ fits, 422>> >>
  <2>1. /\ DOMAIN tried \subseteq 1 .. 4 /\ \A i \in DOMAIN tried : tried[i][2] # OK
        /\ 3 \in DOMAIN tried
    BY DEF OK
  <2>2. FirstOf(tried) = OK
    BY <1>2, <1>5 DEF Extracted
  <2>3. tried[3][1] = ~ fits
    BY Zenon
  <2>4. fits
    <3> HIDE DEF tried, fits
    <3> QED BY <2>1, <2>2, <2>3, FirstOfOK, Zenon
  <2>5. Struct(req.body.value, SessionFields)
    BY <1>5, <2>4, Zenon
  <2>6. \E e \in Entries(req.body.value.v) : e.k = "timestamp"
    BY <2>5, Zenon DEF Struct, SessionFields
  <2>7. /\ Member(req.body.value, "timestamp") \in Entries(req.body.value.v)
        /\ Member(req.body.value, "timestamp").k = "timestamp"
    BY <2>6, Zenon DEF Member
  <2> QED BY <2>5, <2>7 DEF Struct, SessionFields, Fits, Field
<1> QED BY <1>4, <1>5, Zenon

\* The node holds no key but the IdP's, and the clock stays within its bounds.
LEMMA KeysStep == ASSUME KeysInv, [Next]_vars PROVE KeysInv'
<1>1. CASE Tick
  BY <1>1, AdmissionAssumption DEF Tick, KeysInv, handler
<1>2. CASE Rotate
  BY <1>2, Zenon DEF Rotate, KeysInv, handler, IdpKeys
<1>3. CASE /\ UNCHANGED <<published, now>>
           /\ cached' \in {cached, published}
  BY <1>3, Zenon DEF KeysInv
<1>4. ASSUME Device PROVE UNCHANGED <<published, now>> /\ cached' \in {cached, published}
  <2>1. UNCHANGED <<published, now>>
    BY <1>4, Zenon DEF Device, world
  <2>2. \E o \in Verifications(Head(job.rest), IsCwt(Head(job.rest))) : cached' = o.cache
    BY <1>4, Zenon DEF Device, Verifying
  <2> QED BY <2>1, <2>2, Verifies, Zenon
<1>5. ASSUME Token \/ Credential
      PROVE  UNCHANGED <<published, now>> /\ cached' \in {cached, published}
  BY <1>5, TokenOutcome, CredentialOutcome, ZenonT(30) DEF world
<1>6. ASSUME \/ Begin \/ Decide \/ ReadPointer \/ ReadAttribute \/ Fetch \/ Body \/ LookUp
             \/ LookedUp \/ Status \/ Moderate \/ Ingest \/ UNCHANGED vars
      PROVE  UNCHANGED <<published, now, cached>>
  BY <1>6, Zenon DEF Begin, Decide, ReadPointer, ReadAttribute, Fetch, Body, LookUp, LookedUp, Status,
              Moderate, Ingest, vars, handler, world
<1> QED BY <1>1, <1>2, <1>3, <1>4, <1>5, <1>6, Zenon DEF Next

\* What is signed is a matter of the request.
LEMMA SignedFrame ==
  ASSUME UNCHANGED req
  PROVE  /\ bearer' = bearer
         /\ Presented' <=> Presented
         /\ BundleSigned' <=> BundleSigned
         /\ now' = now => (Possession' <=> Possession)
<1>1. bearer' = bearer
  BY Zenon DEF bearer
<1>2. Presented' <=> Presented
  BY <1>1, Zenon DEF Presented
<1>3. BundleSigned' <=> BundleSigned
  <2>1. TheBundle' = TheBundle
    BY Zenon DEF TheBundle
  <2> QED BY <2>1, Zenon DEF BundleSigned
<1>4. now' = now => (Possession' <=> Possession)
  BY <1>1, Zenon DEF Possession
<1> QED BY <1>1, <1>2, <1>3, <1>4, Zenon

\* A refusal says nothing.
LEMMA RefusedSigned ==
  ASSUME KeysInv', pc' = "done", ~ Success' PROVE SignedInv'
  BY Zenon DEF SignedInv, Taken, Passed, Publishes

\* Nor does a step of the other routes.
LEMMA OtherSigned ==
  ASSUME SignedInv, KeysInv', AInv', UNCHANGED req, req.route \notin {"session", "put"},
         pc' \notin {"start", "done"} => Presented
  PROVE  SignedInv'
<1>1. pc' \notin Publishes /\ ~ Passed({"put"})' /\ ~ Passed({"session"})' /\ ~ Taken'
  BY Zenon DEF AInv, RouteInv, Passed, Publishes, Taken
<1> QED BY <1>1, SignedFrame, Zenon DEF SignedInv

\* Whoever is admitted by a verified token holds the key of the endpoint, or
\* publishes in their own name.
LEMMA AdmitsSigned ==
  ASSUME AInv, KeysInv, KeysInv', UNCHANGED <<req, node, now>>, Presented,
         req.route \in {"session", "put"},
         NEW claims, TokenSigned(claims.sub), NEW chain, Admitted(claims, chain)
  PROVE  SignedInv'
<1>1. DOMAIN job = DOMAIN NewJob
  BY Zenon DEF AInv, JobInv
<1>2. CASE req.route = "put"
  <2>1. CASE answer' \in {403, 415} /\ pc' = "done"
    BY <2>1, RefusedSigned DEF Success, OK
  <2>2. CASE pc' = "body" /\ req.sub = claims.sub
    <3>1. TokenSigned(req.sub)'
      BY <2>2, SignedFrame, Zenon DEF TokenSigned
    <3> QED BY <1>2, <2>2, <3>1, SignedFrame, Zenon DEF SignedInv, Taken, Passed
  <2> QED BY <1>2, <2>1, <2>2, PublishingOutcome DEF Admitted
<1>3. CASE req.route = "session"
  <2> DEFINE endpoint == Field(req.body.value, "endpointId")
             checked == verify_possession(endpoint, Field(req.body.value, "timestamp"),
                                          Field(req.body.value, "signature"))
             status == IF endpoint \notin Endpoints THEN 400 ELSE checked
             session == [endpoint |-> endpoint, subject |-> claims.sub,
                         chain |-> {strip_tokens(c) : c \in chain}]
  <2>1. IF status # OK THEN Answer(status)
        ELSE Answered(201, [job EXCEPT !.session = Some(session)])
    BY <1>3, Zenon DEF Admitted, OpenSession
  <2>2. checked \in {OK, 400, 403}
    BY PossessionRefuses
  <2>3. session.subject = claims.sub
    BY Zenon
  <2> HIDE DEF session, checked
  <2>4. CASE status # OK
    <3>1. pc' = "done" /\ answer' \in {400, 403}
      BY <2>1, <2>2, <2>4 DEF Answer, Answered
    <3> QED BY <3>1, RefusedSigned DEF Success, OK
  <2>5. CASE status = OK
    <3>1. pc' = "done" /\ job'.session = {session}
      BY <1>1, <2>1, <2>5 DEF Answered, NewJob, Some
    <3>2. Possession
      BY <1>3, <2>5, PossessionChecked DEF Presented, checked, OK
    <3>3. TokenSigned(claims.sub)'
      BY SignedFrame, Zenon DEF TokenSigned
    <3>4. \E sub : TokenSigned(sub)' /\ \A s \in job'.session : s.subject = sub
      BY <2>3, <3>1, <3>3, Zenon
    <3>5. ~ Passed({"put"})' /\ ~ Taken' /\ Possession'
      BY <1>3, <3>1, <3>2, SignedFrame, Zenon DEF Passed, Taken
    <3> QED BY <3>1, <3>4, <3>5, Zenon DEF SignedInv, Publishes
  <2> QED BY <2>4, <2>5, Zenon
<1> QED BY <1>2, <1>3, Zenon

\* The caller of the token is refused or admitted.
Settled(claims) == (pc' = "done" /\ ~ Success') \/ \E chain : Admitted(claims, chain)

\* The entitlement of the token alone settles the caller: admitted or 403.
LEMMA LocalSettles ==
  ASSUME NEW claims, NEW local, NEW chain, LocalAnswer(claims, local, chain)
  PROVE  Settled(claims)
<1>1. Admitted(claims, chain) \/ Answer(403)
  BY Zenon DEF LocalAnswer
<1> QED BY <1>1 DEF Settled, Answer, Answered, Success, OK

\* A chain that could not be built settles the caller: refused, or in shadow
\* as the token alone says.
LEMMA NoChainSettles ==
  ASSUME NEW claims, NEW local, NEW status, ~ (status \in {200, 201, 304}),
         NoChain(claims, local, status)
  PROVE  Settled(claims)
<1>1. LocalAnswer(claims, local, None) \/ Answer(status)
  BY Zenon DEF NoChain
<1> QED BY <1>1, LocalSettles DEF Settled, Answer, Answered, Success, OK

\* A verified publisher is settled, or waits for its device or its decision
\* with the claims of its token.
LEMMA PublisherSettles ==
  ASSUME AInv, NEW claims, Publisher(claims)
  PROVE  \/ Settled(claims)
         \/ pc' \in {"device", "decide"} /\ job'.claims = Some(claims)
<1> DEFINE local == ~ is_suspended(claims.sub)
                    /\ node.entitlement \subseteq Entries(claims.arkavo_entitlements)
           held == [job EXCEPT !.local = local]
<1>1. \/ Answer(403)
      \/ LocalAnswer(claims, local, None)
      \/ Devices(claims, held)
  BY Zenon DEF Publisher
<1>2. DOMAIN held = DOMAIN NewJob
  BY Zenon DEF AInv, JobInv
<1> HIDE DEF local, held
<1>3. CASE Devices(claims, held)
  <2>1. \/ NoChain(claims, held.local, 400)
        \/ pc' \in {"device", "decide"} /\ job'.claims = Some(claims)
    BY <1>2, <1>3, Zenon DEF Devices, Await, NewJob
  <2> QED BY <2>1, NoChainSettles
<1> QED BY <1>1, <1>3, LocalSettles DEF Settled, Answer, Answered, Success, OK

\* A publisher is settled with, or waits with the claims of the token.
LEMMA EarlySigned ==
  ASSUME AInv, AInv', SignedInv, KeysInv', UNCHANGED <<req, node, now>>, Presented,
         req.route \in {"session", "put"},
         NEW claims, TokenSigned(claims.sub),
         \/ Settled(claims)
         \/ pc' \in {"device", "decide"} /\ The(job'.claims) = claims
  PROVE  SignedInv'
<1>1. CASE Settled(claims)
  <2>1. CASE pc' = "done" /\ ~ Success'
    BY <2>1, RefusedSigned, Zenon
  <2>2. ASSUME NEW chain, Admitted(claims, chain) PROVE SignedInv'
    BY <2>2, AdmitsSigned, Zenon DEF SignedInv
  <2> QED BY <1>1, <2>1, <2>2, Zenon DEF Settled
<1>2. CASE pc' \in {"device", "decide"} /\ The(job'.claims) = claims
  <2>1. TokenSigned(The(job.claims).sub)'
    BY <1>2, SignedFrame, Zenon DEF TokenSigned
  <2> QED BY <1>2, <2>1, SignedFrame, Zenon DEF SignedInv, Taken, Passed, Publishes
<1> QED BY <1>1, <1>2, Zenon

\* The verified token names the subject of its claims.
LEMMA TokenIsSigned ==
  ASSUME OpenInv, KeysInv, bearer # None, Vouched(The(bearer)), NEW iss, NEW aud, NEW at,
         NEW c \in VerifiedClaims(The(bearer), iss, aud, at)
  PROVE  TokenSigned(c.sub)
<1>1. The(bearer) \in bearer
  BY TheOne, Zenon
<1>2. IsOption(The(bearer).payload)
  BY <1>1, OneBearer, Zenon DEF OpenInv, TakenInv
<1>3. The(bearer).by \in IdpKeys
  BY Zenon DEF Vouched, KeysInv
<1> QED BY <1>2, <1>3, VerifiedSub, Zenon DEF TokenSigned

\* The checks before the token answer with an error or hand the token on.
LEMMA BeginSigned == ASSUME AInv, AInv', SignedInv, KeysInv', Begin PROVE SignedInv'
<1>1. UNCHANGED <<req, node>> /\ pc = "start" /\ req.route \in Routes
  BY Zenon DEF Begin, AInv, RouteInv
<1>2. CASE req.route \in {"session", "put", "get", "operator"}
  <2>1. AnswerOr(BeforeToken, "token", [job EXCEPT !.at = now])
    BY <1>2, Zenon DEF Begin
  <2>2. CASE BeforeToken # OK
    BY <2>1, <2>2, BeforeTokenRefuses, RefusedSigned DEF AnswerOr, Answer, Answered, Success, OK
  <2>3. CASE BeforeToken = OK
    <3>1. pc' = "token"
      BY <2>1, <2>3, Zenon DEF AnswerOr, Await
    <3>2. Presented
      BY <2>3, BeforeTokenTaken, Zenon DEF Presented
    <3> QED BY <1>1, <3>1, <3>2, SignedFrame, Zenon DEF SignedInv, Taken, Passed, Publishes
  <2> QED BY <2>2, <2>3, Zenon
<1>3. CASE req.route \notin {"session", "put", "get", "operator"}
  BY <1>1, <1>3, OtherSigned, Zenon DEF Presented
<1> QED BY <1>2, <1>3, Zenon

\* The verification of the token: only a signed one gets past it.
LEMMA TokenStepSigned ==
  ASSUME AInv, AInv', OpenInv, SignedInv, KeysInv', Token PROVE SignedInv'
<1> DEFINE V == VerifiedClaims(The(bearer), node.issuer, Audience, job.at)
<1>1. /\ pc = "token" /\ UNCHANGED <<req, node, now>> /\ Presented
      /\ req.route \in {"session", "put", "get", "operator"}
  BY Zenon DEF Token, AInv, RouteInv, SignedInv, world
<1>2. CASE req.route \notin {"session", "put"}
  BY <1>1, <1>2, OtherSigned, Zenon
<1>3. CASE req.route \in {"session", "put"}
  <2>1. \/ Answer(502) \/ Answer(401)
        \/ Vouched(The(bearer)) /\ \E c \in V : WithClaims(c)
    BY TokenOutcome, Zenon
  <2> HIDE DEF V
  <2>2. CASE Answer(502) \/ Answer(401)
    BY <2>2, RefusedSigned DEF Answer, Answered, Success, OK
  <2>3. ASSUME Vouched(The(bearer)), NEW c \in V, WithClaims(c) PROVE SignedInv'
    <3>1. TokenSigned(c.sub)
      BY <1>1, <2>3, TokenIsSigned, Zenon DEF V, Presented, SignedInv
    <3>2. Publisher(c) \/ Admitted(c, None)
      BY <1>3, <2>3, ZenonT(30) DEF WithClaims, AInv, RouteInv
    <3>3. \/ Settled(c)
          \/ pc' \in {"device", "decide"} /\ job'.claims = Some(c)
      BY <3>2, PublisherSettles, Zenon DEF Settled
    <3>4. The(Some(c)) = c
      BY Zenon DEF The, Some
    <3> QED BY <1>1, <1>3, <3>1, <3>3, <3>4, EarlySigned, Zenon
  <2> QED BY <2>1, <2>2, <2>3, Zenon
<1> QED BY <1>2, <1>3, Zenon

\* The device and the decision admit no other caller than the token's.
LEMMA DecideSigned ==
  ASSUME AInv, AInv', SignedInv, KeysInv', Device \/ Decide PROVE SignedInv'
<1> DEFINE claims == The(job.claims)
<1>1. /\ pc \in {"device", "decide"} /\ UNCHANGED <<req, node, now>> /\ Presented
      /\ req.route \in {"session", "put", "get"} /\ DOMAIN job = DOMAIN NewJob
  BY Zenon DEF Device, Decide, AInv, RouteInv, JobInv, SignedInv, world
<1>2. CASE req.route \notin {"session", "put"}
  BY <1>1, <1>2, OtherSigned, Zenon
<1>3. CASE req.route \in {"session", "put"}
  <2>1. TokenSigned(claims.sub)
    BY <1>1, <1>3, Zenon DEF SignedInv
  <2>2. \/ Settled(claims)
        \/ pc' \in {"device", "decide"} /\ The(job'.claims) = claims
    <3>1. CASE Device
      <4>1. \/ NoChain(claims, job.local, 401)
            \/ /\ pc' \in {"decide", "device"}
               /\ \E entity : job' = [job EXCEPT !.rest = Tail(@), !.chain = Append(@, entity)]
        BY <3>1, Zenon DEF Device, Await
      <4>2. ASSUME NEW entity, job' = [job EXCEPT !.rest = Tail(@), !.chain = Append(@, entity)]
            PROVE  job'.claims = job.claims
        BY <1>1, <4>2, Zenon DEF NewJob
      <4>3. CASE NoChain(claims, job.local, 401)
        BY <4>3, NoChainSettles
      <4> QED BY <4>1, <4>2, <4>3, ZenonT(30)
    <3>2. CASE Decide
      <4>1. \/ Permitted
            \/ NotPermitted(403)
            \/ NotPermitted(502) \/ NotPermitted(503)
        BY <3>2, Zenon DEF Decide
      <4>2. ASSUME NEW status \in {403, 502, 503}, NotPermitted(status) PROVE Settled(claims)
        <5>1. NoChain(claims, job.local, status) /\ ~ (status \in {200, 201, 304})
          BY <4>2 DEF NotPermitted, NoChain
        <5> QED BY <5>1, NoChainSettles
      <4>3. CASE Permitted
        <5>1. \/ LocalAnswer(claims, job.local, Some(Chain))
              \/ Admitted(claims, Some(Chain))
          BY <1>3, <4>3, Zenon DEF Permitted
        <5> HIDE DEF claims
        <5> QED BY <5>1, LocalSettles, Zenon DEF Settled
      <4> QED BY <4>1, <4>2, <4>3
    <3> QED BY <3>1, <3>2, Zenon
  <2> HIDE DEF claims
  <2> QED BY <1>1, <1>3, <2>1, <2>2, EarlySigned, Zenon
<1> QED BY <1>2, <1>3, Zenon

\* The rest of a publish is for the subject admitted before.
LEMMA LateSigned ==
  ASSUME AInv, OpenInv, SignedInv, KeysInv',
         Body \/ Credential \/ LookUp \/ LookedUp \/ Status
  PROVE  SignedInv'
<1>1. /\ pc \in Publishes /\ req.route = "put" /\ UNCHANGED <<req, node, now>>
      /\ Presented /\ TokenSigned(req.sub)
  BY ZenonT(30) DEF Body, Credential, LookUp, LookedUp, Status, AInv, RouteInv, SignedInv, Publishes, world
<1>2. TokenSigned(req.sub)' /\ Presented' /\ ~ Passed({"session"})'
  BY <1>1, SignedFrame, Zenon DEF TokenSigned, Passed
<1>3. pc' \in {"done"} \cup Publishes
  <2>1. CASE Body \/ Status
    BY <2>1, Zenon DEF Body, Status, AnswerOr, Answer, Answered, Await, Publishes
  <2>2. CASE Credential
    BY <2>2, CredentialOutcome, Zenon DEF Answer, Answered, Await, Publishes
  <2>3. CASE LookUp
    BY <1>1, <2>3, LookUpOutcome, Zenon
  <2>4. CASE LookedUp
    BY <2>4, LookedUpOutcome, Zenon DEF Answer, Answered, Await, Publishes
  <2> QED BY <2>1, <2>2, <2>3, <2>4, Zenon
<1>4. Taken' => BundleSigned'
  <2>1. CASE Body
    <3>1. pc' = "credential" \/ ~ Success'
      BY <2>1, BodyRefuses DEF Body, AnswerOr, Answer, Answered, Await, Success, OK
    <3> QED BY <1>3, <2>1, <3>1, Zenon DEF Body, AnswerOr, Answer, Answered, Await, Taken, Passed
  <2>2. CASE Credential
    <3>1. \/ \E status \in {502, 422, 403} : Answer(status)
          \/ /\ Vouched(Attested) /\ DocumentStatus(ThePointer) = OK
             /\ \E found \in SUBSET Credentialed : found # None
      BY <2>2, CredentialOutcome, ZenonT(30)
    <3>2. ASSUME NEW status \in {502, 422, 403}, Answer(status) PROVE ~ Taken'
      BY <3>2 DEF Answer, Answered, Success, OK, Taken, Passed
    <3>3. ASSUME Vouched(Attested), DocumentStatus(ThePointer) = OK,
                 NEW found \in SUBSET Credentialed, found # None
          PROVE  BundleSigned'
      <4>1. PICK c \in Credentialed : TRUE
        BY <3>3, Zenon DEF None
      <4>2. RequestForm(req) /\ BodyStatus = OK
        BY <2>2, ZenonT(30) DEF OpenInv, TakenInv, Credential
      <4>3. BundleSigned
        BY <1>1, <3>3, <4>1, <4>2, BundleChecked, Zenon DEF SignedInv
      <4> QED BY <1>1, <4>3, SignedFrame, Zenon
    <3> QED BY <3>1, <3>2, <3>3
  <2>3. CASE LookUp \/ LookedUp \/ Status
    <3>1. Taken
      BY <2>3, ZenonT(30) DEF LookUp, LookedUp, Status, Taken
    <3> QED BY <1>1, <3>1, SignedFrame, Zenon DEF SignedInv
  <2> QED BY <2>1, <2>2, <2>3, Zenon
<1> QED BY <1>2, <1>3, <1>4, Zenon DEF SignedInv, Publishes

\* What happens around a request changes nothing it was admitted by.
LEMMA WorldSigned ==
  ASSUME SignedInv, KeysInv', Tick \/ Rotate \/ Moderate \/ Ingest \/ UNCHANGED vars
  PROVE  SignedInv'
<1>1. UNCHANGED <<req, node, pc, job, answer>> /\ (pc = "done" => now' = now)
  BY Zenon DEF Tick, Rotate, Moderate, Ingest, Changing, Waiting, vars, handler, world
<1>2. /\ \A routes : Passed(routes)' <=> Passed(routes)
      /\ Taken' <=> Taken
  BY <1>1, Zenon DEF Passed, Success, Taken
<1>3. \A sub : TokenSigned(sub) => (The(bearer').by \in IdpKeys /\ Texts(The(bearer'), "sub") = Some(sub))
  BY <1>1, SignedFrame, Zenon DEF TokenSigned
<1>4. ASSUME Passed({"session"})
      PROVE  /\ Possession'
             /\ \E sub : TokenSigned(sub)' /\ \A s \in job'.session : s.subject = sub
  <2>1. Possession' /\ job' = job
    BY <1>1, <1>4, SignedFrame, Zenon DEF SignedInv, Passed
  <2>2. PICK sub : TokenSigned(sub) /\ \A s \in job.session : s.subject = sub
    BY <1>4, Zenon DEF SignedInv
  <2>3. TokenSigned(sub)'
    BY <1>3, <2>2, Zenon DEF TokenSigned
  <2> QED BY <2>1, <2>2, <2>3, Zenon
<1>5. /\ TokenSigned(req.sub) => TokenSigned(req.sub)'
      /\ TokenSigned(The(job.claims).sub) => TokenSigned(The(job.claims).sub)'
  BY <1>1, SignedFrame, Zenon DEF TokenSigned
<1> QED BY <1>1, <1>2, <1>4, <1>5, SignedFrame, Zenon DEF SignedInv

\* A request that just came satisfies the invariant.
LEMMA SignedInit == Init => SignedInv
<1> SUFFICES ASSUME Init PROVE SignedInv
  BY Zenon
<1>1. pc = "start" /\ now = FirstNow /\ published = Keys /\ cached \in {Keys, <<>>}
  BY Zenon DEF Init
<1>2. KeysInv
  BY <1>1, AdmissionAssumption DEF KeysInv, IdpKeys
<1> QED BY <1>1, <1>2, Zenon DEF SignedInv, Taken, Passed, Publishes

\* Every step keeps it.
LEMMA SignedStep ==
  AInv /\ OpenInv /\ SignedInv /\ [Next]_vars => AInv' /\ OpenInv' /\ SignedInv'
<1> SUFFICES ASSUME AInv, OpenInv, SignedInv, [Next]_vars
             PROVE  AInv' /\ OpenInv' /\ SignedInv'
  BY Zenon
<1>1. AInv' /\ OpenInv' /\ KeysInv'
  BY AdmissionStep, OpenStep, KeysStep, Zenon DEF SignedInv
<1>2. CASE ReadPointer \/ ReadAttribute \/ Fetch
  <2>1. /\ UNCHANGED req /\ req.route \notin {"session", "put"}
        /\ Presented
    BY <1>2, Zenon DEF ReadPointer, ReadAttribute, Fetch, AInv, RouteInv, SignedInv
  <2> QED BY <1>1, <2>1, OtherSigned, Zenon
<1> QED BY <1>1, <1>2, BeginSigned, TokenStepSigned, DecideSigned, LateSigned, WorldSigned, Zenon
        DEF Next

\* A published catalog is one its owner signed: the token and the attestation
\* carry the IdP's signature and name the same subject, and the attested
\* passkey signed client data whose challenge is the pointer that names this
\* very document (verify_with, verify_bundle, step 4 of put_catalog).  A
\* session's endpoint signed for itself, this token and a current time
\* (verify_possession), except for the one timestamp whose distance from the
\* clock has no absolute value in an i64.
THEOREM AdmissionsAreSigned == Spec => []AdmittedIsSigned
<1>1. SignedInv => AdmittedIsSigned
  <2> SUFFICES ASSUME SignedInv, pc = "done", Success PROVE AdmittedIsSigned
    BY Zenon DEF AdmittedIsSigned, Done
  <2>1. CASE req.route = "put"
    <3>1. TokenSigned(req.sub) /\ BundleSigned
      BY <2>1, Zenon DEF SignedInv, Taken, Passed
    <3> QED BY <2>1, <3>1, Zenon DEF AdmittedIsSigned, Done, TokenSigned, BundleSigned
  <2>2. CASE req.route = "session"
    <3>1. Possession
      BY <2>2, Zenon DEF SignedInv, Passed
    <3>2. PICK sub : TokenSigned(sub) /\ \A s \in job.session : s.subject = sub
      BY <2>2, Zenon DEF SignedInv, Passed
    <3> QED BY <2>2, <3>1, <3>2, Zenon DEF AdmittedIsSigned, Done, TokenSigned, Possession
  <2>3. CASE req.route \notin {"put", "session"}
    BY <2>3, Zenon DEF AdmittedIsSigned, Done
  <2> QED BY <2>1, <2>2, <2>3, Zenon
<1> QED BY AdmissionInit, OpenInit, SignedInit, SignedStep, <1>1, PTL DEF Spec

-----------------------------------------------------------------------------
(***************************************************************************)
(* The caller.  What the decision service is asked about is the chain the  *)
(* handler built from the token and one device after the other, and the    *)
(* environment of the node.                                                *)
(***************************************************************************)
\* The claims the handler goes on with are the token's.
Claimed == Texts(The(bearer), "sub") = Some(The(job.claims).sub)

\* The chain so far: the person, then a device for every token verified; the
\* rest of the tokens is left.
Chained ==
    LET n == Len(job.chain) IN
    /\ job.chain \in Seq(Entries(job.chain)) /\ n > 0
    /\ job.chain[1] = subject_entity(The(job.claims), The(bearer))
    /\ \A i \in 2 .. n :
        job.chain[i].kind = "device" /\ job.chain[i].token = Some(req.devices[i - 1])
    /\ job.rest \in Seq(Entries(req.devices))
    /\ n + Len(job.rest) = Len(req.devices) + 1
    /\ \A i \in 1 .. Len(job.rest) : job.rest[i] = req.devices[n - 1 + i]
    /\ (pc = "decide") <=> (job.rest = <<>>)

\* The inductive invariant.
CallerInv ==
    /\ NodeForm(node)
    /\ pc \in {"pointer", "attribute", "device", "decide"} => Claimed
    /\ pc \in {"device", "decide"} => Chained
    /\ \A i \in DOMAIN asked : AboutTheCaller(asked[i].body)

\* What the chains need of counting: nothing, one element, a stretch.
Counts ==
    /\ Cardinality({}) = 0 /\ \A x : Cardinality({x}) = 1
    /\ \A a, b \in Nat : Cardinality(a .. b) = IF a > b THEN 0 ELSE (b - a) + 1

\* The entities of a kind fill one stretch of a chain.
Fills(c, kind, a, b) ==
    a .. b \subseteq DOMAIN c /\ \A i \in DOMAIN c : c[i].kind = kind <=> i \in a .. b

\* What the request builders find of a kind that fills one stretch of the
\* chain is that stretch.
LEMMA OfKindStretch ==
  ASSUME Counts, NEW c, NEW kind, NEW a \in Nat \ {0}, NEW b \in Nat, a <= b + 1,
         Fills(c, kind, a, b)
  PROVE  /\ DOMAIN OfKind(c, kind) = 1 .. (b - a) + 1
         /\ \A n \in 1 .. (b - a) + 1 : OfKind(c, kind)[n] = c[(a - 1) + n]
<1> DEFINE places == {i \in DOMAIN c : c[i].kind = kind}
           At(n) == CHOOSE i \in places : Cardinality({j \in places : j <= i}) = n
<1>1. OfKind(c, kind) = [n \in 1 .. Cardinality(places) |-> c[At(n)]]
  BY Zenon DEF OfKind
<1>2. places = a .. b
  BY Zenon DEF Fills
<1> HIDE DEF places
<1>3. Cardinality(places) = (b - a) + 1
  <2>1. Cardinality(a .. b) = IF a > b THEN 0 ELSE (b - a) + 1
    BY Zenon DEF Counts
  <2> QED BY <1>2, <2>1
<1>4. ASSUME NEW i \in a .. b PROVE Cardinality({j \in places : j <= i}) = (i - a) + 1
  <2>1. {j \in places : j <= i} = a .. i
    BY <1>2
  <2>2. Cardinality(a .. i) = IF a > i THEN 0 ELSE (i - a) + 1
    BY DEF Counts
  <2>3. Cardinality(a .. i) = (i - a) + 1
    BY <2>2
  <2> QED BY <2>1, <2>3, Zenon
<1>5. ASSUME NEW n \in 1 .. (b - a) + 1 PROVE At(n) = (a - 1) + n
  <2>1. (a - 1) + n \in a .. b /\ (((a - 1) + n) - a) + 1 = n
    OBVIOUS
  <2>2. Cardinality({j \in places : j <= (a - 1) + n}) = n
    BY <1>4, <2>1, Zenon
  <2>3. \E i \in places : Cardinality({j \in places : j <= i}) = n
    BY <1>2, <2>1, <2>2, Zenon
  <2>4. At(n) \in places /\ Cardinality({j \in places : j <= At(n)}) = n
    BY <2>3, Zenon
  <2> HIDE DEF At
  <2>5. At(n) \in a .. b /\ (At(n) - a) + 1 = n
    BY <1>2, <1>4, <2>4, Zenon
  <2> QED BY <2>5
<1> HIDE DEF At
<1> QED BY <1>1, <1>3, <1>5, Zenon

\* The person's entity names the subject of the claims.
LEMMA SubjectClaims ==
  ASSUME NEW pe, NEW token
  PROVE  /\ subject_entity(pe, token).kind = "subject"
         /\ subject_entity(pe, token).token = Some(token)
         /\ subject_entity(pe, token).claims["sub"] = pe.sub
<1> DEFINE pairs == {<<"sub", pe.sub>>, <<"iss", pe.iss>>}
        \cup Pairs("patreon_user_id", pe.patreon_user_id)
        \cup Pairs("email", pe.email)
        \cup Pairs("email_verified", pe.email_verified)
        \cup Pairs("idp", pe.idp)
        \cup Pairs("arkavo_account_id", pe.arkavo_account_id)
        \cup Pairs("arkavo_roles", pe.arkavo_roles)
        \cup Pairs("arkavo_entitlements", {pe.arkavo_entitlements} \ {<<>>})
        \cup Pairs("client_id", pe.client_id)
        \cup Pairs("arkavo_patreon", pe.arkavo_patreon)
<1>1. subject_entity(pe, token) = [kind |-> "subject", token |-> Some(token),
                                   claims |-> ObjectOf(pairs)]
  BY Zenon DEF subject_entity
<1>2. <<"sub", pe.sub>> \in pairs
  BY Zenon
<1>3. ASSUME NEW p \in pairs, p[1] = "sub" PROVE p[2] = pe.sub
  BY <1>3 DEF Pairs
<1> HIDE DEF pairs
<1>4. "sub" \in {p[1] : p \in pairs}
  BY <1>2
<1>5. ObjectOf(pairs)["sub"] = (CHOOSE p \in pairs : p[1] = "sub")[2]
  BY <1>4, Zenon DEF ObjectOf
<1>6. (CHOOSE p \in pairs : p[1] = "sub") \in pairs /\ (CHOOSE p \in pairs : p[1] = "sub")[1] = "sub"
  BY <1>2
<1>7. ObjectOf(pairs)["sub"] = pe.sub
  BY <1>3, <1>5, <1>6, Zenon
<1> QED BY <1>1, <1>7

\* A sequence and one element after it.
LEMMA OneMore ==
  ASSUME NEW S, NEW s \in Seq(S), NEW x \in S
  PROVE  /\ s \o <<x>> = Append(s, x)
         /\ Append(s, x) \in Seq(S) /\ Len(Append(s, x)) = Len(s) + 1
         /\ DOMAIN Append(s, x) = 1 .. Len(s) + 1
         /\ \A i \in 1 .. Len(s) : Append(s, x)[i] = s[i]
         /\ Append(s, x)[Len(s) + 1] = x
OBVIOUS

\* The chain that is asked about: the handler's, and the environment.
LEMMA ChainForm ==
  ASSUME Counts, NodeForm(node), RequestForm(req), Chained, pc = "decide"
  PROVE  LET n == Len(req.devices) + 1
             e == Cardinality(node.environment)
         IN  /\ Len(req.devices) \in Nat /\ e \in {0, 1}
             /\ DOMAIN Chain = 1 .. n + e /\ Len(Chain) = n + e
             /\ Chain[1] = subject_entity(The(job.claims), The(bearer))
             /\ \A i \in 2 .. n : /\ Chain[i].kind = "device"
                                  /\ Chain[i].token = Some(req.devices[i - 1])
             /\ \A i \in n + 1 .. n + e : Chain[i].kind = "environment"
<1> DEFINE n == Len(req.devices) + 1
           e == Cardinality(node.environment)
           tail == IF IsSome(node.environment)
                   THEN <<environment_entity(The(node.environment))>> ELSE <<>>
<1>1. Len(req.devices) \in Nat /\ Len(job.chain) = n /\ job.chain \in Seq(Entries(job.chain))
  <2>1. req.devices \in Seq(Entries(req.devices))
    BY Zenon DEF RequestForm
  <2>2. job.rest = <<>> /\ Len(job.chain) + Len(job.rest) = n /\ job.chain \in Seq(Entries(job.chain))
    BY Zenon DEF Chained
  <2> QED BY <2>1, <2>2
<1>2. \/ e = 0 /\ tail = <<>>
      \/ e = 1 /\ tail = <<environment_entity(The(node.environment))>>
  <2>1. CASE node.environment = None
    BY <2>1, Zenon DEF Counts, IsSome, None
  <2>2. CASE node.environment # None
    <3>1. The(node.environment) \in node.environment /\ IsOption(node.environment)
      BY <2>2, TheOne, Zenon DEF NodeForm
    <3>2. node.environment = {The(node.environment)}
      BY <3>1, OnlyOne, Zenon DEF Some
    <3> HIDE DEF tail
    <3>3. Cardinality({The(node.environment)}) = 1
      BY Zenon DEF Counts
    <3> QED BY <2>2, <3>2, <3>3, Zenon DEF IsSome, None, tail
  <2> QED BY <2>1, <2>2, Zenon
<1>3. Chain = job.chain \o tail
  BY Zenon DEF Chain
<1>4. /\ job.chain[1] = subject_entity(The(job.claims), The(bearer))
      /\ \A i \in 2 .. n : /\ job.chain[i].kind = "device"
                           /\ job.chain[i].token = Some(req.devices[i - 1])
  BY <1>1, Zenon DEF Chained
<1>5. environment_entity(The(node.environment)).kind = "environment"
  BY Zenon DEF environment_entity
<1> DEFINE entity == environment_entity(The(node.environment))
           S == Entries(job.chain) \cup {entity}
<1> HIDE DEF n, e, tail, entity
<1>6. job.chain \in Seq(S) /\ n \in Nat \ {0}
  BY <1>1 DEF n
<1>7. CASE e = 0 /\ tail = <<>>
  <2>1. Chain = job.chain
    BY <1>3, <1>6, <1>7
  <2> QED BY <1>1, <1>4, <1>6, <1>7, <2>1 DEF n, e
<1>8. CASE e = 1 /\ tail = <<entity>>
  <2>1. Chain = job.chain \o <<entity>> /\ entity \in S
    BY <1>3, <1>8, Zenon
  <2>2. /\ Len(Chain) = n + 1 /\ DOMAIN Chain = 1 .. n + 1
        /\ \A i \in 1 .. n : Chain[i] = job.chain[i]
        /\ Chain[n + 1] = entity
    <3> HIDE DEF S
    <3>1. Chain = Append(job.chain, entity)
      BY <1>6, <2>1, OneMore
    <3>2. /\ Len(Append(job.chain, entity)) = Len(job.chain) + 1
          /\ DOMAIN Append(job.chain, entity) = 1 .. Len(job.chain) + 1
          /\ \A i \in 1 .. Len(job.chain) : Append(job.chain, entity)[i] = job.chain[i]
          /\ Append(job.chain, entity)[Len(job.chain) + 1] = entity
      BY <1>6, <2>1, OneMore
    <3> QED BY <1>1, <3>1, <3>2, Zenon
  <2>3. Chain[1] = job.chain[1] /\ \A i \in 2 .. n : Chain[i] = job.chain[i]
    BY <1>6, <2>2
  <2>4. \A i \in n + 1 .. n + e : Chain[i].kind = "environment"
    BY <1>5, <1>6, <1>8, <2>2 DEF entity
  <2> QED BY <1>1, <1>4, <1>8, <2>2, <2>3, <2>4, Zenon DEF n, e
<1> QED BY <1>2, <1>7, <1>8, Zenon DEF entity

\* The devices that follow the person are found in their order.
LEMMA DevicesOf ==
  ASSUME Counts, NEW c, NEW n \in Nat \ {0}, Fills(c, "device", 2, n)
  PROVE  /\ DOMAIN OfKind(c, "device") = 1 .. n - 1
         /\ \A i \in 1 .. n - 1 : OfKind(c, "device")[i] = c[1 + i]
<1>1. 2 \in Nat \ {0} /\ n \in Nat /\ 2 <= n + 1 /\ (n - 2) + 1 = n - 1
  OBVIOUS
<1>2. /\ DOMAIN OfKind(c, "device") = 1 .. (n - 2) + 1
      /\ \A i \in 1 .. (n - 2) + 1 : OfKind(c, "device")[i] = c[(2 - 1) + i]
  BY <1>1, OfKindStretch
<1>3. \A i \in 1 .. n - 1 : (2 - 1) + i = 1 + i
  OBVIOUS
<1> QED BY <1>1, <1>2, <1>3, Zenon

\* What the request builders find in a chain of a person, devices and perhaps
\* an environment.
LEMMA KindsOf ==
  ASSUME Counts, NEW chain, NEW n \in Nat \ {0}, NEW e \in {0, 1}, DOMAIN chain = 1 .. n + e,
         chain[1].kind = "subject",
         \A i \in 2 .. n : chain[i].kind = "device",
         \A i \in n + 1 .. n + e : chain[i].kind = "environment"
  PROVE  /\ OfKind(chain, "subject")[1] = chain[1]
         /\ DOMAIN OfKind(chain, "device") = 1 .. n - 1
         /\ \A i \in 1 .. n - 1 : OfKind(chain, "device")[i] = chain[1 + i]
         /\ DOMAIN OfKind(chain, "environment") = 1 .. e
<1>1. \A i \in DOMAIN chain : i = 1 \/ i \in 2 .. n \/ i \in n + 1 .. n + e
  OBVIOUS
<1>2. OfKind(chain, "subject")[1] = chain[1]
  <2>1. Fills(chain, "subject", 1, 1)
    BY <1>1 DEF Fills
  <2> QED BY <2>1, OfKindStretch
<1>3. /\ DOMAIN OfKind(chain, "device") = 1 .. n - 1
      /\ \A i \in 1 .. n - 1 : OfKind(chain, "device")[i] = chain[1 + i]
  <2>1. Fills(chain, "device", 2, n)
    BY <1>1 DEF Fills
  <2> QED BY <2>1, DevicesOf, Zenon
<1>4. DOMAIN OfKind(chain, "environment") = 1 .. e
  <2>1. Fills(chain, "environment", n + 1, n + e)
    BY <1>1 DEF Fills
  <2>2. /\ n + 1 \in Nat \ {0} /\ n + e \in Nat /\ n + 1 <= (n + e) + 1
        /\ ((n + e) - (n + 1)) + 1 = e
    OBVIOUS
  <2> QED BY <2>1, <2>2, OfKindStretch
<1> QED BY <1>2, <1>3, <1>4, Zenon

\* What either client posts is about this caller: the token's person, every
\* device and the environment, and the resource the handler opens.
LEMMA PostedIsOurs ==
  ASSUME Counts, NodeForm(node), RequestForm(req), bearer # None, Claimed, Chained, pc = "decide",
         req.route \in {"session", "put", "get"}
  PROVE  AboutTheCaller(Posted)
<1> DEFINE n == Len(req.devices) + 1
           e == Cardinality(node.environment)
           sub == The(job.claims).sub
           id == IF req.route = "get" THEN The(job.hash) ELSE The(Texts(The(bearer), "sub"))
           person == subject_entity(The(job.claims), The(bearer))
           d == DecisionRequest
<1>1. /\ Len(req.devices) \in Nat /\ e \in {0, 1}
      /\ DOMAIN Chain = 1 .. n + e /\ Len(Chain) = n + e
      /\ Chain[1] = person
      /\ \A i \in 2 .. n : Chain[i].kind = "device" /\ Chain[i].token = Some(req.devices[i - 1])
      /\ \A i \in n + 1 .. n + e : Chain[i].kind = "environment"
  BY ChainForm, Zenon
<1>2. /\ person.kind = "subject" /\ person.token = Some(The(bearer)) /\ person.claims["sub"] = sub
  BY SubjectClaims, Zenon
<1>3. Texts(The(bearer), "sub") = Some(sub) /\ The(Texts(The(bearer), "sub")) = sub
  BY Zenon DEF Claimed, The, Some
<1>4. bearer = Some(The(bearer))
  BY OneBearer, TheOne, OnlyOne, Zenon
<1>5. /\ d.chain = Chain /\ d.resources = << <<Resource[1], <<Resource[2]>> >> >>
      /\ Resource[1] = id
  BY <1>3, Zenon DEF DecisionRequest, Resource
<1> HIDE DEF n, e, sub, id, person, d
<1>6. n \in Nat \ {0} /\ Len(req.devices) = n - 1 /\ n - 1 \in Nat
  BY <1>1 DEF n
<1>7. /\ OfKind(d.chain, "subject")[1] = person
      /\ DOMAIN OfKind(d.chain, "device") = 1 .. n - 1
      /\ \A i \in 1 .. n - 1 : OfKind(d.chain, "device")[i] = Chain[1 + i]
      /\ DOMAIN OfKind(d.chain, "environment") = 1 .. e
  <2>1. /\ n \in Nat \ {0} /\ e \in {0, 1} /\ DOMAIN Chain = 1 .. n + e
        /\ Chain[1] = person /\ Chain[1].kind = "subject"
    BY <1>1, <1>2, <1>6, Zenon
  <2>2. /\ \A i \in 2 .. n : Chain[i].kind = "device"
        /\ \A i \in n + 1 .. n + e : Chain[i].kind = "environment"
    BY <1>1, Zenon
  <2> HIDE DEF Chain
  <2>3. /\ OfKind(Chain, "subject")[1] = Chain[1]
        /\ DOMAIN OfKind(Chain, "device") = 1 .. n - 1
        /\ \A i \in 1 .. n - 1 : OfKind(Chain, "device")[i] = Chain[1 + i]
        /\ DOMAIN OfKind(Chain, "environment") = 1 .. e
    BY <2>1, <2>2, KindsOf, Zenon
  <2>4. d.chain = Chain
    BY <1>5, Zenon
  <2> QED BY <2>1, <2>3, <2>4, Zenon
<1>8. CASE node.protocol = "authzen"
  <2> DEFINE devices == OfKind(d.chain, "device")
             sent == [i \in DOMAIN devices |-> allowlist_device(devices[i])]
             body == build_authzen_request(d)
             theirs == IF IsSome(body.devices) THEN The(body.devices)
                       ELSE IF IsSome(body.device) THEN <<The(body.device)>> ELSE <<>>
             Environment(i) == allowlist_environment(OfKind(d.chain, "environment")[i].claims)
  <2>1. Posted = body
    BY <1>8, Zenon DEF Posted, d
  <2>2. /\ body.subject = authzen_subject(person)
        /\ body.device = (IF Len(sent) = 1 THEN Some(sent[1]) ELSE None)
        /\ body.devices = (IF Len(sent) > 1 THEN Some(sent) ELSE None)
        /\ body.environment = {Environment(i) : i \in DOMAIN OfKind(d.chain, "environment") \cap {1}}
        /\ body.evaluations = [i \in DOMAIN d.resources |->
                                [type |-> d.type, id |-> d.resources[i][1],
                                 fqns |-> d.resources[i][2]]]
    BY <1>7, Zenon DEF build_authzen_request
  <2>3. /\ DOMAIN sent = 1 .. n - 1
        /\ \A i \in 1 .. n - 1 : sent[i].token = Some(req.devices[i])
    <3>1. DOMAIN devices = 1 .. n - 1 /\ \A i \in 1 .. n - 1 : devices[i] = Chain[1 + i]
      BY <1>7, Zenon
    <3>2. ASSUME NEW i \in 1 .. n - 1 PROVE Chain[1 + i].token = Some(req.devices[i])
      <4>1. 1 + i \in 2 .. n /\ (1 + i) - 1 = i
        BY <1>6
      <4> QED BY <1>1, <4>1, Zenon
    <3> HIDE DEF devices
    <3> QED BY <3>1, <3>2, Zenon DEF allowlist_device
  <2>4. sent \in Seq({sent[i] : i \in 1 .. n - 1}) /\ Len(sent) = n - 1
    <3>1. sent = [i \in 1 .. n - 1 |-> sent[i]]
      BY <2>3, Zenon
    <3> HIDE DEF sent
    <3> QED BY <1>6, <3>1
  <2> HIDE DEF sent, body, Environment
  <2>5. theirs = sent
    <3>1. CASE n - 1 > 1
      BY <2>2, <2>4, <3>1, Zenon DEF IsSome, Some, The
    <3>2. CASE n - 1 = 1
      <4>1. body.devices = None /\ body.device = Some(sent[1])
        BY <2>2, <2>4, <3>2
      <4>2. theirs = <<sent[1]>>
        BY <4>1, Zenon DEF IsSome, Some, The, None
      <4> QED BY <2>4, <3>2, <4>2
    <3>3. CASE n - 1 = 0
      <4>1. body.devices = None /\ body.device = None
        BY <2>2, <2>4, <3>3
      <4>2. theirs = <<>>
        BY <4>1, Zenon DEF IsSome, None
      <4> QED BY <2>4, <3>3, <4>2
    <3> QED BY <1>6, <3>1, <3>2, <3>3
  <2>6. [i \in DOMAIN theirs |-> theirs[i].token] = [i \in DOMAIN req.devices |-> Some(req.devices[i])]
    <3>1. DOMAIN req.devices = 1 .. n - 1
      BY <1>6 DEF RequestForm
    <3> HIDE DEF theirs
    <3> QED BY <2>3, <2>5, <3>1, Zenon
  <2>7. Cardinality(body.environment) = Cardinality(node.environment)
    <3>1. CASE e = 0
      <4>1. body.environment = {}
        BY <1>7, <2>2, <3>1
      <4> QED BY <3>1, <4>1, Zenon DEF Counts, e
    <3>2. CASE e = 1
      <4>1. body.environment = {Environment(1)}
        BY <1>7, <2>2, <3>2
      <4>2. Cardinality({Environment(1)}) = 1
        BY Zenon DEF Counts
      <4> QED BY <3>2, <4>1, <4>2, Zenon DEF e
    <3> QED BY <1>1, <3>1, <3>2, Zenon
  <2>8. Len(body.evaluations) = 1 /\ body.evaluations[1].id = id
    <3>1. DOMAIN d.resources = 1 .. 1 /\ d.resources[1][1] = id
      BY <1>5
    <3>2. body.evaluations = [i \in 1 .. 1 |-> [type |-> d.type, id |-> d.resources[i][1],
                                                fqns |-> d.resources[i][2]]]
      BY <2>2, <3>1, Zenon
    <3>3. body.evaluations \in Seq({body.evaluations[1]})
      BY <3>2
    <3> QED BY <3>1, <3>2, <3>3
  <2>9. \A p \in body.subject.patreon :
            "campaign_id" \in DOMAIN p => JsonText(p, "role") = Some(<<"creator">>)
    <3> SUFFICES ASSUME NEW p \in body.subject.patreon, "campaign_id" \in DOMAIN p
                 PROVE  JsonText(p, "role") = Some(<<"creator">>)
      BY Zenon
    <3> DEFINE whole == person.claims["arkavo_patreon"]
    <3>1. p = sanitize_patreon(whole)
      BY <2>2 DEF authzen_subject, Some, None
    <3> HIDE DEF whole
    <3>2. JsonText(whole, "role") = Some(<<"creator">>)
      BY <3>1, Zenon DEF sanitize_patreon, Kept, PatreonAllowed
    <3>3. "role" \in DOMAIN whole
      BY <3>2, Zenon DEF JsonText, Some, None
    <3>4. "role" \in DOMAIN p /\ p["role"] = whole["role"]
      BY <3>1, <3>3, Zenon DEF sanitize_patreon, Kept, PatreonAllowed
    <3> QED BY <3>2, <3>3, <3>4, Zenon DEF JsonText
  <2>10. Some(body.subject.id) = Texts(The(bearer), "sub")
    BY <1>2, <1>3, <2>2 DEF authzen_subject
  <2> QED BY <1>8, <2>1, <2>6, <2>7, <2>8, <2>9, <2>10, Zenon DEF AboutTheCaller, id
<1>9. CASE node.protocol # "authzen" /\ node.tokenMode
  <2> DEFINE body == [tokens |-> Some(The(bearer)), chains |-> None, action |-> d.action,
                      resources |-> d.resources]
  <2>1. build_request(d, TRUE) = {body}
    BY <1>2, <1>5, <1>7, Zenon DEF build_request, Some
  <2>2. Posted = body
    BY <1>9, <2>1, Zenon DEF Posted, The, d
  <2>3. Posted.tokens = bearer /\ Posted.resources[1][1] = id
    BY <1>4, <1>5, <2>2
  <2> QED BY <1>9, <2>3, Zenon DEF AboutTheCaller, NodeForm, id
<1>10. CASE node.protocol # "authzen" /\ ~ node.tokenMode
  <2> DEFINE entities == [i \in DOMAIN Chain |->
                            [id |-> i, category |-> Category(Chain[i]), claims |-> Chain[i].claims]]
             body == [tokens |-> None, chains |-> Some(entities), action |-> d.action,
                      resources |-> d.resources]
  <2>1. build_request(d, FALSE) = {body}
    BY <1>5, Zenon DEF build_request, Some
  <2>2. node.tokenMode = FALSE
    BY <1>10, Zenon DEF NodeForm
  <2>3. Posted = body
    BY <1>10, <2>1, <2>2, Zenon DEF Posted, The, d
  <2>4. entities[1].claims = person.claims /\ Len(entities) = n + e
    <3>1. DOMAIN entities = 1 .. n + e /\ n + e \in Nat /\ 1 \in 1 .. n + e
      BY <1>1, <1>6
    <3>2. entities = [i \in 1 .. n + e |-> entities[i]]
      BY <3>1, Zenon
    <3>3. entities[1].claims = person.claims
      BY <1>1, <3>1, Zenon
    <3> HIDE DEF entities
    <3> QED BY <3>1, <3>2, <3>3
  <2> HIDE DEF entities
  <2>5. The(Posted.chains) = entities /\ Posted.resources[1][1] = id
    BY <1>5, <2>3 DEF The, Some
  <2>6. n + e = 1 + Len(req.devices) + Cardinality(node.environment)
    BY <1>1 DEF n, e
  <2> QED BY <1>2, <1>3, <1>10, <2>2, <2>4, <2>5, <2>6, Zenon DEF AboutTheCaller, NodeForm, id
<1> QED BY <1>8, <1>9, <1>10, Zenon DEF NodeForm

\* The token of a request that stays is the same.
LEMMA SameBearer == ASSUME UNCHANGED req PROVE bearer' = bearer
BY Zenon DEF bearer

\* What was asked about this caller stays about this caller while the request,
\* the node and the catalog a reader opens do.
LEMMA StaysOurs ==
  ASSUME UNCHANGED <<req, node>>, req.route = "get" => job'.hash = job.hash,
         NEW i, NEW body, AboutTheCaller(body), asked'[i].body = body
  PROVE  AboutTheCaller(asked[i].body)'
BY SameBearer, Zenon DEF AboutTheCaller

\* A settled caller has an answer, or goes on to publish.
LEMMA SettledPlace ==
  ASSUME NEW claims, Settled(claims)
  PROVE  pc' \in {"done", "body"}
<1>1. ASSUME NEW chain, OpenSession(claims, chain) PROVE pc' = "done"
  BY <1>1, Zenon DEF OpenSession, Answer, Answered
<1>2. ASSUME Publishing(claims) PROVE pc' \in {"done", "body"}
  BY <1>2, Zenon DEF Publishing, AnswerOr, Await, Answer, Answered
<1> QED BY <1>1, <1>2, Zenon DEF Settled, Admitted

\* A handler that has asked nothing and leaves the chain alone.
LEMMA NothingAsked ==
  ASSUME NodeForm(node), asked = <<>>, UNCHANGED <<node, asked>>,
         pc' \notin {"pointer", "attribute", "device", "decide"}
  PROVE  CallerInv'
<1>1. NodeForm(node)'
  BY Zenon DEF NodeForm, IsOption
<1> QED BY <1>1 DEF CallerInv

\* The claims of the token are those the chain starts from (verified_devices).
LEMMA StartsChain ==
  ASSUME NodeForm(node), RequestForm(req), asked = <<>>, UNCHANGED <<req, node, asked>>,
         NEW claims, Texts(The(bearer), "sub") = Some(claims.sub),
         NEW held, DOMAIN held = DOMAIN NewJob, Devices(claims, held)
  PROVE  CallerInv'
<1>1. CASE NoChain(claims, held.local, 400)
  <2>1. Settled(claims)
    BY <1>1, NoChainSettles
  <2> QED BY <2>1, SettledPlace, NothingAsked, Zenon
<1>2. CASE ~ NoChain(claims, held.local, 400)
  <2> DEFINE person == subject_entity(claims, The(bearer))
  <2>1. /\ pc' = IF req.devices = <<>> THEN "decide" ELSE "device"
        /\ job'.claims = Some(claims) /\ job'.rest = req.devices /\ job'.chain = <<person>>
    BY <1>2, Zenon DEF Devices, Await, NewJob
  <2>2. req.devices \in Seq(Entries(req.devices))
    BY Zenon DEF RequestForm
  <2>3. Entries(req.devices)' = Entries(req.devices) /\ The(job.claims)' = claims
    BY <2>1, Zenon DEF Entries, The, Some
  <2>4. person \in Entries(job.chain)'
    BY <2>1 DEF Entries
  <2>5. Claimed'
    BY <2>1, <2>3, SameBearer, Zenon DEF Claimed, Texts
  <2>6. Chained'
    <3> HIDE DEF person
    <3>1. /\ job'.chain \in Seq(Entries(job.chain)') /\ Len(job'.chain) = 1
          /\ job'.chain[1] = person
      BY <2>1, <2>4
    <3>2. person = subject_entity(The(job.claims), The(bearer))'
      BY <2>3, SameBearer, Zenon DEF person
    <3>3. (pc' = "decide") <=> (job'.rest = <<>>)
      BY <2>1, Zenon
    <3>4. /\ job'.rest \in Seq(Entries(req.devices)')
          /\ 1 + Len(job'.rest) = Len(req'.devices) + 1
          /\ \A i \in 1 .. Len(job'.rest) : job'.rest[i] = req'.devices[1 - 1 + i]
      BY <2>1, <2>2, <2>3
    <3> QED BY <3>1, <3>2, <3>3, <3>4 DEF Chained
  <2>7. NodeForm(node)'
    BY Zenon DEF NodeForm, IsOption
  <2> QED BY <2>5, <2>6, <2>7 DEF CallerInv
<1> QED BY <1>1, <1>2, Zenon

\* The claims a handler goes on with are those of the token it verified.
LEMMA TokenCaller ==
  ASSUME AInv, OpenInv, SignedInv, CallerInv, Token
  PROVE  CallerInv'
<1>1. /\ pc = "token" /\ UNCHANGED <<req, node, asked>> /\ asked = <<>>
      /\ NodeForm(node) /\ RequestForm(req) /\ DOMAIN job = DOMAIN NewJob
      /\ req.route \in {"session", "put", "get", "operator"} /\ bearer # None
  BY TokenOutcome, Zenon
     DEF AInv, AskInv, JobInv, RouteInv, Early, OpenInv, TakenInv, SignedInv, Presented, CallerInv
<1>2. CASE Answer(502) \/ Answer(401)
  BY <1>1, <1>2, NothingAsked, Zenon DEF Answer, Answered
<1>3. ASSUME NEW c \in VerifiedClaims(The(bearer), node.issuer, Audience, job.at), WithClaims(c)
      PROVE  CallerInv'
  <2>1. Texts(The(bearer), "sub") = Some(c.sub)
    <3>1. IsOption(The(bearer).payload)
      BY <1>1, OneBearer, TheOne, Zenon
    <3> QED BY <3>1, VerifiedSub, Zenon
  <2>2. CASE req.route = "operator"
    BY <1>1, <1>3, <2>2, NothingAsked, Zenon DEF WithClaims, Answered
  <2>3. CASE req.route = "get"
    <3>1. \/ pc' = "done"
          \/ pc' = "pointer" /\ job' = [job EXCEPT !.claims = Some(c)]
      BY <1>3, <2>3, Zenon DEF WithClaims, Reader, AnswerOr, Await, Answer, Answered
    <3>2. CASE pc' = "pointer" /\ job' = [job EXCEPT !.claims = Some(c)]
      <4>1. The(job.claims)' = c
        BY <1>1, <3>2, Zenon DEF NewJob, The, Some
      <4>2. Claimed' /\ NodeForm(node)'
        BY <1>1, <2>1, <4>1, SameBearer, Zenon DEF Claimed, Texts, NodeForm, IsOption
      <4> QED BY <1>1, <3>2, <4>2 DEF CallerInv
    <3> QED BY <1>1, <3>1, <3>2, NothingAsked, Zenon
  <2>4. CASE req.route \in {"session", "put"} /\ node.gated
    <3> DEFINE local == ~ is_suspended(c.sub)
                        /\ node.entitlement \subseteq Entries(c.arkavo_entitlements)
               held == [job EXCEPT !.local = local]
    <3>1. Answer(403) \/ LocalAnswer(c, local, None) \/ Devices(c, held)
      BY <1>3, <2>4, Zenon DEF WithClaims, Publisher
    <3>2. DOMAIN held = DOMAIN NewJob
      BY <1>1, Zenon
    <3> HIDE DEF local, held
    <3>3. CASE Answer(403)
      BY <1>1, <3>3, NothingAsked, Zenon DEF Answer, Answered
    <3>4. CASE LocalAnswer(c, local, None)
      BY <1>1, <3>4, LocalSettles, SettledPlace, NothingAsked, Zenon
    <3>5. CASE Devices(c, held)
      BY <1>1, <2>1, <3>2, <3>5, StartsChain, Zenon
    <3> QED BY <3>1, <3>3, <3>4, <3>5, Zenon
  <2>5. CASE req.route = "put" /\ ~ node.gated
    <3>1. Settled(c)
      BY <1>3, <2>5, Zenon DEF WithClaims, Settled
    <3> QED BY <1>1, <3>1, SettledPlace, NothingAsked, Zenon
  <2>6. req.route = "session" => node.gated
    BY Zenon DEF AInv, RouteInv
  <2> QED BY <1>1, <2>2, <2>3, <2>4, <2>5, <2>6, Zenon
<1> QED BY <1>2, <1>3, TokenOutcome, Zenon

\* The reads of a catalog's pointer and attribute keep the reader's claims.
LEMMA ReadCaller ==
  ASSUME AInv, OpenInv, CallerInv, ReadPointer \/ ReadAttribute
  PROVE  CallerInv'
<1>1. /\ pc \in {"pointer", "attribute"} /\ UNCHANGED <<req, node, asked>> /\ asked = <<>>
      /\ NodeForm(node) /\ RequestForm(req) /\ DOMAIN job = DOMAIN NewJob /\ Claimed
  BY Zenon DEF ReadPointer, ReadAttribute, AInv, AskInv, JobInv, Early, OpenInv, TakenInv, CallerInv
<1>2. CASE ReadPointer
  <2>1. \/ pc' = "done"
        \/ pc' = "attribute" /\ job' = [job EXCEPT !.hash = Some(Catalogs[req.sub].hash)]
    BY <1>2, Zenon DEF ReadPointer, AnswerOr, Await, Answer, Answered
  <2>2. CASE /\ pc' = "attribute" /\ job' = [job EXCEPT !.hash = Some(Catalogs[req.sub].hash)]
    <3>1. job'.claims = job.claims
      BY <1>1, <2>2, Zenon DEF NewJob
    <3>2. Claimed' /\ NodeForm(node)'
      BY <1>1, <3>1, SameBearer, Zenon DEF Claimed, Texts, NodeForm, IsOption
    <3> QED BY <1>1, <2>2, <3>2 DEF CallerInv
  <2> QED BY <1>1, <2>1, <2>2, NothingAsked, Zenon
<1>3. CASE ReadAttribute
  <2> DEFINE held == [job EXCEPT !.attribute = Catalogs[req.sub].attribute]
  <2>1. pc' = "done" \/ Devices(The(job.claims), held)
    BY <1>3, Zenon DEF ReadAttribute, Answer, Answered
  <2>2. DOMAIN held = DOMAIN NewJob
    BY <1>1, Zenon
  <2> HIDE DEF held
  <2>3. CASE Devices(The(job.claims), held)
    <3>1. Texts(The(bearer), "sub") = Some(The(job.claims).sub)
      BY <1>1, Zenon DEF Claimed
    <3> QED BY <1>1, <2>2, <2>3, <3>1, StartsChain, Zenon
  <2> QED BY <1>1, <2>1, <2>3, NothingAsked, Zenon
<1> QED BY <1>2, <1>3, Zenon

\* A sequence is one of its own entries.
LEMMA OwnEntries ==
  ASSUME NEW S, NEW s \in Seq(S)
  PROVE  s \in Seq(Entries(s))
BY DEF Entries

\* The one sequence without entries.
LEMMA LengthZero == ASSUME NEW S, NEW s \in Seq(S) PROVE (Len(s) = 0) <=> (s = <<>>)
OBVIOUS

\* A place of a chain that grew by one is the last, or was there before.
LEMMA LastOrBefore ==
  \A k \in Nat : \A i \in 2 .. k + 1 : i = k + 1 \/ (i \in 2 .. k /\ i \in 1 .. k)
OBVIOUS

\* A device that is verified is the next of the chain and of the tokens.
LEMMA DeviceCaller ==
  ASSUME AInv, OpenInv, CallerInv, Device
  PROVE  CallerInv'
<1>1. /\ pc = "device" /\ UNCHANGED <<req, node, asked>> /\ asked = <<>>
      /\ NodeForm(node) /\ RequestForm(req) /\ DOMAIN job = DOMAIN NewJob /\ Claimed /\ Chained
  BY Zenon DEF Device, AInv, AskInv, JobInv, Early, OpenInv, TakenInv, CallerInv
<1>2. \/ NoChain(The(job.claims), job.local, 401)
      \/ /\ pc' = IF Len(job.rest) = 1 THEN "decide" ELSE "device"
         /\ \E c : job' = [job EXCEPT !.rest = Tail(@),
                                      !.chain = Append(@, device_entity(c, Head(job.rest)))]
  BY Zenon DEF Device, Await
<1>3. CASE NoChain(The(job.claims), job.local, 401)
  <2>1. Settled(The(job.claims))
    BY <1>3, NoChainSettles
  <2> QED BY <1>1, <2>1, SettledPlace, NothingAsked, Zenon
<1>4. ASSUME pc' = IF Len(job.rest) = 1 THEN "decide" ELSE "device",
             NEW c, job' = [job EXCEPT !.rest = Tail(@),
                                       !.chain = Append(@, device_entity(c, Head(job.rest)))]
      PROVE  CallerInv'
  <2> DEFINE x == device_entity(c, Head(job.rest))
             chain == job.chain
             rest == job.rest
             S == Entries(chain) \cup {x}
  <2>1. /\ job'.chain = Append(chain, x) /\ job'.rest = Tail(rest) /\ job'.claims = job.claims
    BY <1>1, <1>4, Zenon DEF NewJob
  <2>2. /\ chain \in Seq(Entries(chain)) /\ Len(chain) \in Nat \ {0}
        /\ rest \in Seq(Entries(req.devices)) /\ rest # <<>> /\ Len(rest) \in Nat \ {0}
        /\ Len(chain) + Len(rest) = Len(req.devices) + 1
        /\ \A i \in 1 .. Len(rest) : rest[i] = req.devices[Len(chain) - 1 + i]
    <3>1. chain \in Seq(Entries(chain)) /\ Len(chain) > 0
      BY <1>1, Zenon DEF Chained
    <3>2. rest \in Seq(Entries(req.devices)) /\ rest # <<>>
      BY <1>1, Zenon DEF Chained
    <3>3. /\ Len(chain) + Len(rest) = Len(req.devices) + 1
          /\ \A i \in 1 .. Len(rest) : rest[i] = req.devices[Len(chain) - 1 + i]
      BY <1>1, Zenon DEF Chained
    <3> HIDE DEF chain, rest
    <3>4. Len(chain) \in Nat \ {0}
      BY <3>1
    <3>5. Len(rest) \in Nat \ {0}
      BY <3>2
    <3> QED BY <3>1, <3>2, <3>3, <3>4, <3>5, Zenon
  <2>3. x.kind = "device" /\ x.token = Some(rest[1])
    BY <2>2 DEF device_entity
  <2>4. /\ chain[1] = subject_entity(The(job.claims), The(bearer))
        /\ \A i \in 2 .. Len(chain) :
             chain[i].kind = "device" /\ chain[i].token = Some(req.devices[i - 1])
    BY <1>1, Zenon DEF Chained
  <2>5. Entries(req.devices)' = Entries(req.devices)
    BY <1>1, Zenon DEF Entries
  <2> HIDE DEF x, chain, rest
  <2>6. chain \in Seq(S) /\ x \in S
    BY <2>2
  <2>7. /\ Append(chain, x) \in Seq(S) /\ Len(Append(chain, x)) = Len(chain) + 1
        /\ \A i \in 1 .. Len(chain) : Append(chain, x)[i] = chain[i]
        /\ Append(chain, x)[Len(chain) + 1] = x
    BY <2>6, OneMore
  <2>8. /\ Tail(rest) \in Seq(Entries(req.devices)) /\ Len(Tail(rest)) = Len(rest) - 1
        /\ \A i \in 1 .. Len(rest) - 1 : Tail(rest)[i] = rest[i + 1]
        /\ (Len(rest) = 1) <=> (Tail(rest) = <<>>)
    <3>1. rest \in Seq(Entries(req.devices)) /\ rest # <<>>
      BY <2>2, Zenon
    <3>2. Tail(rest) \in Seq(Entries(req.devices)) /\ Len(Tail(rest)) = Len(rest) - 1
      BY <3>1
    <3>3. \A i \in 1 .. Len(rest) - 1 : Tail(rest)[i] = rest[i + 1]
      BY <3>1
    <3>4. (Len(Tail(rest)) = 0) <=> (Tail(rest) = <<>>)
      BY <3>2, LengthZero, Zenon
    <3> QED BY <2>2, <3>2, <3>3, <3>4
  <2>9. Append(chain, x) \in Seq(Entries(Append(chain, x)))
    BY <2>7, OwnEntries, Zenon
  <2>10. Entries(job.chain)' = Entries(Append(chain, x))
    BY <2>1, Zenon DEF Entries
  <2>11. \A i \in 2 .. Len(chain) + 1 :
           /\ Append(chain, x)[i].kind = "device"
           /\ Append(chain, x)[i].token = Some(req.devices[i - 1])
    <3>1. Append(chain, x)[Len(chain) + 1].token = Some(req.devices[(Len(chain) + 1) - 1])
      BY <2>2, <2>3, <2>7
    <3>2. \A i \in 2 .. Len(chain) + 1 :
            i = Len(chain) + 1 \/ (i \in 2 .. Len(chain) /\ i \in 1 .. Len(chain))
      <4>1. Len(chain) \in Nat
        BY <2>2, Zenon
      <4> QED BY <4>1, LastOrBefore, Zenon
    <3> QED BY <2>3, <2>4, <2>7, <3>1, <3>2, Zenon
  <2>12. Chained'
    <3>1. /\ job'.chain \in Seq(Entries(job.chain)') /\ Len(job'.chain) = Len(chain) + 1
          /\ Len(job'.chain) > 0
      BY <2>1, <2>2, <2>7, <2>9, <2>10
    <3>2. job'.chain[1] = subject_entity(The(job.claims), The(bearer))'
      BY <1>1, <2>1, <2>2, <2>4, <2>7, SameBearer
    <3>3. \A i \in 2 .. Len(job'.chain) :
            job'.chain[i].kind = "device" /\ job'.chain[i].token = Some(req'.devices[i - 1])
      BY <1>1, <2>1, <2>11, <3>1, Zenon
    <3>4. /\ job'.rest \in Seq(Entries(req.devices)')
          /\ Len(job'.chain) + Len(job'.rest) = Len(req'.devices) + 1
      <4>1. (Len(chain) + 1) + (Len(rest) - 1) = Len(req.devices) + 1
        <5>1. Len(chain) \in Nat /\ Len(rest) \in Nat
          BY <2>2, Zenon
        <5>2. (Len(chain) + 1) + (Len(rest) - 1) = Len(chain) + Len(rest)
          BY <5>1
        <5> QED BY <2>2, <5>2, Zenon
      <4>2. job'.rest \in Seq(Entries(req.devices)') /\ Len(job'.rest) = Len(rest) - 1
        BY <2>1, <2>5, <2>8, Zenon
      <4> QED BY <1>1, <3>1, <4>1, <4>2, Zenon
    <3>5. \A i \in 1 .. Len(job'.rest) : job'.rest[i] = req'.devices[Len(job'.chain) - 1 + i]
      <4>1. ASSUME NEW i \in 1 .. Len(rest) - 1
            PROVE  Tail(rest)[i] = req.devices[((Len(chain) + 1) - 1) + i]
        <5>1. Tail(rest)[i] = rest[i + 1] /\ i + 1 \in 1 .. Len(rest)
          BY <2>2, <2>8
        <5>2. rest[i + 1] = req.devices[(Len(chain) - 1) + (i + 1)]
          BY <2>2, <5>1, Zenon
        <5>3. (Len(chain) - 1) + (i + 1) = ((Len(chain) + 1) - 1) + i
          BY <2>2
        <5> QED BY <5>1, <5>2, <5>3, Zenon
      <4> QED BY <1>1, <2>1, <2>8, <3>1, <4>1, Zenon
    <3>6. (pc' = "decide") <=> (job'.rest = <<>>)
      BY <1>4, <2>1, <2>8, Zenon DEF rest
    <3> QED BY <3>1, <3>2, <3>3, <3>4, <3>5, <3>6, Zenon DEF Chained
  <2>13. Claimed' /\ NodeForm(node)'
    BY <1>1, <2>1, SameBearer, Zenon DEF Claimed, Texts, NodeForm, IsOption
  <2> QED BY <1>1, <2>12, <2>13 DEF CallerInv
<1> QED BY <1>2, <1>3, <1>4, Zenon

\* What is posted is about the caller, and stays so whatever is answered.
LEMMA DecideCaller ==
  ASSUME Counts, AInv, OpenInv, SignedInv, CallerInv, Decide
  PROVE  CallerInv'
<1>1. /\ pc = "decide" /\ UNCHANGED <<req, node>> /\ asked = <<>>
      /\ NodeForm(node) /\ RequestForm(req) /\ Claimed /\ Chained
      /\ req.route \in {"session", "put", "get"} /\ bearer # None
  BY Zenon DEF Decide, AInv, AskInv, RouteInv, Early, OpenInv, TakenInv, SignedInv, Presented, CallerInv
<1>2. \/ \E permit : asked' = Append(asked, [body |-> Posted, permit |-> permit])
      \/ asked' = asked
  BY Zenon DEF Decide
<1>3. Permitted \/ \E status : NotPermitted(status)
  BY ZenonT(30) DEF Decide
<1>4. pc' \in {"done", "body"} /\ (req.route = "get" => job' = job)
  <2>1. \/ pc' = "done" /\ job' = job
        \/ /\ req.route # "get"
           /\ Settled(The(job.claims))
    <3>1. CASE Permitted
      <4>1. \/ Answer(OK)
            \/ req.route # "get" /\ LocalAnswer(The(job.claims), job.local, Some(Chain))
            \/ req.route # "get" /\ Admitted(The(job.claims), Some(Chain))
        BY <3>1, Zenon DEF Permitted
      <4> QED BY <4>1, LocalSettles, Zenon DEF Settled, Answer, Answered
    <3>2. ASSUME NEW status, NotPermitted(status)
          PROVE  \/ pc' = "done" /\ job' = job
                 \/ req.route # "get" /\ Settled(The(job.claims))
      <4>1. \/ Answer(status)
            \/ req.route # "get" /\ LocalAnswer(The(job.claims), job.local, None)
        BY <3>2, Zenon DEF NotPermitted, Shadow
      <4> QED BY <4>1, LocalSettles, Zenon DEF Answer, Answered
    <3> QED BY <1>3, <3>1, <3>2, Zenon
  <2> QED BY <2>1, SettledPlace, Zenon
<1>5. AboutTheCaller(Posted)
  BY <1>1, PostedIsOurs, Zenon
<1>6. ASSUME NEW i \in DOMAIN asked' PROVE AboutTheCaller(asked[i].body)'
  <2>1. asked'[i].body = Posted
    BY <1>1, <1>2
  <2> QED BY <1>1, <1>4, <1>5, <2>1, StaysOurs, Zenon
<1>7. NodeForm(node)'
  BY <1>1, Zenon DEF NodeForm, IsOption
<1> QED BY <1>4, <1>6, <1>7, Zenon DEF CallerInv

\* Nothing is asked later, and nothing the questions were about changes.
LEMMA LateCaller ==
  ASSUME AInv, CallerInv,
         \/ Begin \/ Fetch \/ Body \/ Credential \/ LookUp \/ LookedUp \/ Status
         \/ Tick \/ Rotate \/ Moderate \/ Ingest \/ UNCHANGED vars
  PROVE  CallerInv'
<1>1. NodeForm(node)
  BY Zenon DEF CallerInv
<1>2. CASE Begin
  <2>1. UNCHANGED <<node, asked>> /\ asked = <<>>
    BY <1>2, Zenon DEF Begin, AInv, AskInv, Early
  <2>2. req.route \in {"session", "put", "get", "operator", "document", "blob", "ingest"}
    BY Zenon DEF AInv, RouteInv, Routes
  <2>3. pc' \in {"done", "token", "fetch"}
    BY <1>2, <2>2, Zenon DEF Begin, AnswerOr, Await, Answer, Answered
  <2> QED BY <1>1, <2>1, <2>3, NothingAsked, Zenon
<1>3. CASE Fetch \/ Body \/ Credential \/ LookUp \/ LookedUp \/ Status
  <2>1. UNCHANGED <<req, node, asked>> /\ pc \notin Early \cup {"done"}
    BY <1>3, ZenonT(30) DEF Fetch, Body, Credential, LookUp, LookedUp, Status, Early
  <2>2. pc' \in {"done", "credential", "sizes", "manifests", "status"}
    <3>1. CASE Fetch
      <4>1. req.route \in {"document", "blob"}
        BY <3>1, Zenon DEF Fetch, AInv, RouteInv
      <4> QED BY <3>1, <4>1, Zenon DEF Fetch, Answer, Answered
    <3>2. CASE Body
      BY <3>2, Zenon DEF Body, AnswerOr, Await, Answer, Answered
    <3>3. CASE Credential
      BY <3>3, ZenonT(30) DEF Credential, Answer, Answered, Await
    <3>4. CASE LookUp \/ LookedUp \/ Status
      BY <3>4, Zenon DEF LookUp, LookedUp, Status, Answer, Answered, Await
    <3> QED BY <1>3, <3>1, <3>2, <3>3, <3>4, Zenon
  <2>3. req.route # "get"
    BY <2>1, Zenon DEF AInv, RouteInv
  <2>4. ASSUME NEW i \in DOMAIN asked' PROVE AboutTheCaller(asked[i].body)'
    <3>1. AboutTheCaller(asked[i].body) /\ asked'[i].body = asked[i].body
      BY <2>1, Zenon DEF CallerInv
    <3> QED BY <2>1, <2>3, <3>1, StaysOurs, Zenon
  <2>5. NodeForm(node)'
    BY <1>1, <2>1, Zenon DEF NodeForm, IsOption
  <2> QED BY <2>2, <2>4, <2>5, Zenon DEF CallerInv
<1>4. CASE Tick \/ Rotate \/ Moderate \/ Ingest \/ UNCHANGED vars
  <2>1. UNCHANGED <<req, node, pc, job, asked>>
    BY <1>4, Zenon DEF Tick, Rotate, Moderate, Ingest, vars, handler
  <2>2. ASSUME NEW i \in DOMAIN asked' PROVE AboutTheCaller(asked[i].body)'
    <3>1. AboutTheCaller(asked[i].body) /\ asked'[i].body = asked[i].body
      BY <2>1, Zenon DEF CallerInv
    <3> QED BY <2>1, <3>1, StaysOurs, Zenon
  <2>3. (Claimed' <=> Claimed) /\ (Chained' <=> Chained) /\ NodeForm(node)'
    BY <1>1, <2>1, SameBearer DEF Claimed, Chained, Texts, Entries, NodeForm, IsOption
  <2> QED BY <2>1, <2>2, <2>3, Zenon DEF CallerInv
<1> QED BY <1>2, <1>3, <1>4, Zenon

INSTANCE FiniteSetTheorems

\* Counting is so.
LEMMA CountsHold == Counts
<1>1. \A a, b \in Nat : Cardinality(a .. b) = IF a > b THEN 0 ELSE (b - a) + 1
  BY FS_Interval
<1> QED BY <1>1, FS_EmptySet, FS_Singleton, Zenon DEF Counts

\* Whatever requests come and however the world changes meanwhile, what the
\* decision service is asked is about this caller: the person of the token,
\* every device presented and the node's environment, none left out or made
\* up, and the resource the handler is about to open; and nothing it decides
\* on happens without its permit (verified_devices, build_authzen_request,
\* build_request, decide_reader, publisher_with_chain).
THEOREM DecisionsAreAboutTheCaller == Spec => []DecisionAboutTheCaller
<1>1. Init => CallerInv
  <2> SUFFICES ASSUME Init PROVE CallerInv
    BY Zenon
  <2>1. pc = "start" /\ asked = <<>> /\ NodeForm(node)
    BY NodesAssumption, Zenon DEF Init
  <2> QED BY <2>1 DEF CallerInv
<1>2. AInv /\ OpenInv /\ SignedInv /\ CallerInv /\ [Next]_vars => CallerInv'
  BY TokenCaller, ReadCaller, DeviceCaller, DecideCaller, LateCaller, CountsHold, Zenon DEF Next
<1>3. AInv /\ CallerInv => DecisionAboutTheCaller
  BY Zenon DEF AInv, CallerInv, DecisionAboutTheCaller
<1> QED BY AdmissionInit, OpenInit, SignedInit, SignedStep, <1>1, <1>2, <1>3, PTL DEF Spec
=============================================================================
