----------------------------- MODULE Admission -----------------------------
(***************************************************************************)
(* How the node judges one request, from its headers to the answer or to   *)
(* the point where the state it changes is another module's: POST          *)
(* /publish/sessions (then module PublishSessions), PUT and GET            *)
(* /v2/catalogs/{sub} (module CatalogPublish), the operator's PUT          *)
(* /moderation/suspensions/{subject} (module Moderation), GET              *)
(* /catalog-documents/{hash}, GET /blobs/{hash}, and the validation of a   *)
(* pushed archive (module PushIngest).                                     *)
(*                                                                         *)
(* Sources: publisher_with_chain, operator and open_session of             *)
(* src/src/moderation.rs, src/src/tags_api.rs, src/src/catalogs_api.rs and *)
(* src/src/catalogs_v2_api.rs.  A step ends where the handler awaits a     *)
(* call: the key set, the decision service, S3 or the IdP's credential     *)
(* status.  Between two steps the clock advances, keys rotate, operators   *)
(* suspend and block, credentials are revoked and recordings are ingested. *)
(***************************************************************************)
EXTENDS EntityChain, Bundles, Envelopes

CONSTANTS
    Cases,           \* the requests that are tried, each with the node's
                     \* configuration and what is barred and stored
    Keys,            \* the key set the IdP publishes first (kid -> key)
    NextKeys,        \* the key set it publishes after a rotation
    Barrable,        \* what may be barred: pairs <<kind, what>>
    Credentials,     \* passkey credentials the IdP knows (id -> subject)
    Catalogs,        \* stored pointers (subject -> [hash, attribute])
    Documents,       \* stored catalog documents (hash -> optional owner)
    Blobs,           \* recordings (hash -> [size, manifest])
    Endpoints,       \* well-formed endpoint IDs
    SessionSkew,     \* SESSION_SKEW_SECS
    MaxReason,       \* MAX_REASON_CHARS, in parts
    FirstNow,        \* the first clock reading
    MaxTicks,        \* bound: how far the clock advances
    MaxChanges,      \* bound: how often the rest of the world changes
    MaxFaults        \* bound: how many calls fail

ASSUME AdmissionAssumption ==
    {SessionSkew, MaxReason, FirstNow, MaxTicks, MaxChanges, MaxFaults} \subseteq Nat

\* The clock is far from the end of an i64.
ASSUME ClockAssumption == FirstNow + MaxTicks + SessionSkew < Half

\* The routes of the API, and the validation of a push.  Those of the
\* moderation router are only mounted on a gated node.
Routes == {"session", "put", "get", "operator", "document", "blob", "ingest"}

ASSUME CasesAssumption ==
    \A i \in DOMAIN Cases :
        /\ Cases[i].req.route \in Routes
        /\ Cases[i].req.route \in {"session", "operator"} => Cases[i].node.gated

PutRequest == [document |-> "string", bundle |-> "object", index |-> "any"]

\* A node speaks one of the two protocols and knows at most one environment.
NodeForm(n) ==
    /\ n.protocol \in {"authzen", "opentdf"} /\ n.tokenMode \in BOOLEAN
    /\ IsOption(n.environment)

ASSUME NodesAssumption == \A i \in DOMAIN Cases : NodeForm(Cases[i].node)

\* The form of a request: it has at most one bearer token and a list of
\* devices, a message at most one payload, an array is a sequence, and
\* archives are laid out as their formats say.
RequestForm(r) ==
    /\ IsOption(r.authorization)
    /\ \A h \in r.authorization :
        IsOption(h.token) /\ \A m \in h.token : IsOption(m.payload)
    /\ r.devices \in Seq(Entries(r.devices))
    /\ r.route = "put" /\ r.body.syntax /\ Struct(r.body.value, PutRequest) =>
        /\ \A b \in parse_bundle(Member(r.body.value, "bundle")) :
            \A m \in AttestationOf(b) : IsOption(m.payload)
        /\ \A d \in b64(Field(r.body.value, "document"), MaxCatalog) : DocumentForm(d)
        /\ LET index == Member(r.body.value, "index")
           IN  index.t = "array" => DOMAIN index.v \subseteq Nat
    /\ r.route = "ingest" => ArchiveForm(r.archive)

ASSUME RequestsAssumption == \A i \in DOMAIN Cases : RequestForm(Cases[i].req)

VARIABLES
    req,       \* the request
    node,      \* the node's configuration
    pc,        \* the await the handler is at
    job,       \* what the handler holds
    answer,    \* the status it answered, 0 before
    asked,     \* the decision requests posted, each with its answer
    cached,    \* the node's copy of the key set
    faults,    \* the calls that failed
    now,       \* the clock
    published, \* the IdP's key set
    bars,      \* <<kind, what>>: suspended, hidden, blocked and revoked
    stored,    \* hashes of the ingested recordings
    described, \* hashes whose manifest is stored
    changes,   \* how often the world changed
    always,    \* bars in force at every moment since the request came
    ever       \* bars in force at some moment since then

handler == <<req, node, pc, job, answer, asked, cached, faults>>
world == <<now, published, bars, stored, described, changes, always, ever>>
vars == <<handler, world>>

-----------------------------------------------------------------------------
OK == 200

\* The clock reading the handler verifies with, the caller's claims, the
\* device tokens left to verify, the chain so far, the local check's answer,
\* the session it opens, the catalog's hash and attribute, the pointer, the
\* index and the credential of a publish, and the lookups left and done.
NewJob ==
    [at |-> FirstNow, claims |-> None, rest |-> <<>>, chain |-> <<>>, local |-> FALSE,
     session |-> None, hash |-> None, attribute |-> None, pointer |-> None,
     entries |-> <<>>, credential |-> None, todo |-> {}, found |-> <<>>]

Init ==
    /\ \E i \in DOMAIN Cases :
        /\ req = Cases[i].req /\ node = Cases[i].node
        /\ bars = Cases[i].bars
        /\ stored = Cases[i].stored /\ described = Cases[i].described
    /\ pc = "start" /\ job = NewJob /\ answer = 0 /\ asked = <<>> /\ faults = {}
    /\ now = FirstNow
    /\ published = Keys /\ cached \in {Keys, <<>>}
    /\ changes = 0 /\ always = bars /\ ever = bars

-----------------------------------------------------------------------------
\* The handler answers, or holds what it has and awaits the next call.
Answered(status, held) == pc' = "done" /\ answer' = status /\ job' = held
Answer(status) == Answered(status, job)
Await(next, held) == pc' = next /\ job' = held /\ UNCHANGED answer
AnswerOr(status, next, held) == IF status # OK THEN Answer(status) ELSE Await(next, held)

\* The first refusal of a list of checks, each <<refused, status>>.
FirstOf(checks) ==
    LET failed == {i \in DOMAIN checks : checks[i][1]}
    IN  IF failed = {} THEN OK
        ELSE checks[CHOOSE i \in failed : \A j \in failed : i <= j][2]

\* A call to S3, the decision service or the IdP that fails.
Fails(call) == Cardinality(faults) < MaxFaults /\ faults' = faults \cup {call}

\* Mutated form of is_suspended: the subject is compared as it is spelled.
is_suspended_as_spelled(sub) == <<"suspended", sub>> \in bars

is_suspended(sub) == <<"suspended", subject_id_bind(sub)>> \in bars
catalog_hidden(sub) == <<"hidden", subject_id_bind(sub)>> \in bars

\* An ungated node loads no moderation records.
is_blocked(hash) == node.gated /\ <<"blocked", hash>> \in bars
owner_hidden(owner) == node.gated /\ \E o \in owner : catalog_hidden(o)

\* The token of an Authorization header [ascii, scheme, token].
bearer ==
    UNION {h.token : h \in {x \in req.authorization : x.ascii /\ x.scheme = "Bearer "}}

(***************************************************************************)
(* verify_sign1.  The header is checked first; a kid that is not cached    *)
(* makes the node fetch the key set, unless it did so a moment ago.        *)
(***************************************************************************)
Outcome(keys, m, fault) ==
    [cache |-> keys, fault |-> fault, unavailable |-> FALSE,
     holds |-> m.kid \in DOMAIN keys /\ Signed(m, keys[m.kid])]

verify_sign1(m) ==
    IF m.kid \in DOMAIN cached THEN {Outcome(cached, m, {})}
    ELSE {Outcome(published, m, {}), Outcome(cached, m, {"recent"}),
          [cache |-> cached, fault |-> {"keys"}, unavailable |-> TRUE, holds |-> FALSE]}

\* One verification the handler awaits, unless the message is refused before
\* the key is looked for.
Verifications(m, wellFormed) ==
    LET refused == [cache |-> cached, fault |-> {}, unavailable |-> FALSE, holds |-> FALSE]
    IN  IF wellFormed /\ HeaderOk(m) THEN verify_sign1(m) ELSE {refused}

Verifying(o) ==
    /\ cached' = o.cache
    /\ o.fault # {} => Cardinality(faults) < MaxFaults
    /\ faults' = faults \cup o.fault

-----------------------------------------------------------------------------
(***************************************************************************)
(* Operators: the check of the moderation API, and that of a catalog read. *)
(***************************************************************************)
ServiceAccount(claims) ==
    \E roles \in claims.arkavo_roles : <<"service-account">> \in Entries(roles)

Client(claims) == StripPrefix("client:", claims.sub) \ {<<>>}

operator(claims) ==
    \E client \in Client(claims) :
        ServiceAccount(claims) /\ client \in claims.aud /\ client \in node.operators

\* Mutated form of is_operator: the token may be for another audience.
is_operator_anywhere(claims) ==
    /\ node.gated
    /\ \E client \in Client(claims) : client \in node.operators /\ ServiceAccount(claims)

is_operator(claims) ==
    /\ node.gated
    /\ \E client \in Client(claims) :
        client \in node.operators /\ client \in claims.aud /\ ServiceAccount(claims)

\* The JSON body [json, syntax, value] of a route that is handed it parsed.
Extracted(fits) ==
    FirstOf(<< <<~ req.body.json, 415>>, <<~ req.body.syntax, 400>>, <<~ fits, 422>> >>)

ActionRequest ==
    LET Has(key, type) == key \in DOMAIN req.body.value => req.body.value[key].t \in type
    IN  /\ DOMAIN req.body.value \subseteq {"reason", "reportId", "hideCatalog"}
        /\ "reason" \in DOMAIN req.body.value
        /\ Has("reason", {"text"}) /\ Has("reportId", {"text", "null"})
        /\ Has("hideCatalog", {"bool"})

\* The reason is trimmed before it is measured.
checked_reason(body) ==
    LET text == body["reason"].v
        solid == {i \in DOMAIN text : text[i] # " "}
    IN  /\ solid # {}
        /\ \A i, j \in solid : j - i < MaxReason

\* The limit and alphabet of an identifier.
valid_subject(s) == valid_identifier(s, MaxOwner)

checked_report_id(body) ==
    "reportId" \in DOMAIN body /\ body["reportId"].t = "text" =>
        valid_subject(body["reportId"].v)

\* What is left of suspend before its records are written (module Moderation).
SuspendStatus(claims) ==
    FirstOf(<< <<~ operator(claims), 403>>,
               <<~ valid_subject(subject_id_bind(req.sub)), 400>>,
               <<~ checked_reason(req.body.value), 400>>,
               <<~ checked_report_id(req.body.value), 400>> >>)

-----------------------------------------------------------------------------
(***************************************************************************)
(* Once the publisher is admitted: the proof of possession of a session,   *)
(* or the next checks of a publish.  i64 arithmetic wraps in the release   *)
(* build.                                                                  *)
(***************************************************************************)
Wrapped(n) == ((n + Half) % (2 * Half)) - Half
Abs64(n) == IF n < 0 THEN Wrapped(-n) ELSE n

SessionFields == [endpointId |-> "string", timestamp |-> "i64", signature |-> "string"]

session_message(endpoint, token, timestamp) == <<endpoint, token, timestamp>>

\* The signature [hex, by, over].
verify_possession(endpoint, timestamp, signature) ==
    FirstOf(<< <<Abs64(Wrapped(now - timestamp)) > SessionSkew, 400>>,
               <<~ signature.hex, 400>>,
               <<~ (/\ signature.by = endpoint
                    /\ signature.over = session_message(endpoint, The(bearer), timestamp)),
                 403>> >>)

\* open_session: the session keeps the chain without its tokens.
OpenSession(claims, chain) ==
    LET endpoint == Field(req.body.value, "endpointId")
        status == IF endpoint \notin Endpoints THEN 400
                  ELSE verify_possession(endpoint, Field(req.body.value, "timestamp"),
                                         Field(req.body.value, "signature"))
        session == [endpoint |-> endpoint, subject |-> claims.sub,
                    chain |-> {strip_tokens(c) : c \in chain}]
    IN  IF status # OK THEN Answer(status)
        ELSE Answered(201, [job EXCEPT !.session = Some(session)])

\* Step 1 of put_catalog ends here: the subject, byte for byte, and the type.
Publishing(claims) ==
    AnswerOr(FirstOf(<< <<req.sub # claims.sub, 403>>, <<~ req.body.json, 415>> >>),
             "body", [job EXCEPT !.claims = Some(claims)])

\* chain is what the decision service permitted, if it was asked.
Admitted(claims, chain) ==
    IF req.route = "session" THEN OpenSession(claims, chain) ELSE Publishing(claims)

-----------------------------------------------------------------------------
(***************************************************************************)
(* publisher_with_chain after the token is verified.  In shadow the local  *)
(* answer is enforced, whatever becomes of the chain and the decision.     *)
(***************************************************************************)
LocalAnswer(claims, local, chain) == IF local THEN Admitted(claims, chain) ELSE Answer(403)

Shadow == req.route # "get" /\ node.decisions = "shadow"

\* The chain is refused: the local answer in shadow, or the refusal.
NoChain(claims, local, status) ==
    IF Shadow THEN LocalAnswer(claims, local, None) ELSE Answer(status)

\* The length is checked before any device is verified.
Devices(claims, held) ==
    IF TooLong(req.devices, node.environment) THEN NoChain(claims, held.local, 400)
    ELSE Await(IF req.devices = <<>> THEN "decide" ELSE "device",
               [held EXCEPT !.at = now, !.claims = Some(claims), !.rest = req.devices,
                            !.chain = <<subject_entity(claims, The(bearer))>>])

Publisher(claims) ==
    LET suspended == is_suspended(claims.sub)
        local == ~ suspended /\ node.entitlement \subseteq Entries(claims.arkavo_entitlements)
    IN  IF \/ StartsWith("client:", claims.sub)
           \/ suspended /\ node.decisions # "shadow"
        THEN Answer(403)
        ELSE IF node.decisions = "local" THEN LocalAnswer(claims, local, None)
        ELSE Devices(claims, [job EXCEPT !.local = local])

\* get_pointer up to the pointer's read.
Reader(claims) ==
    AnswerOr(FirstOf(<< <<~ valid_identifier(req.sub, MaxOwner), 400>>,
                        <<owner_hidden(Some(req.sub)), 404>> >>),
             "pointer", [job EXCEPT !.claims = Some(claims)])

WithClaims(claims) ==
    CASE req.route = "operator" -> Answered(SuspendStatus(claims), [job EXCEPT !.claims = Some(claims)])
      [] req.route = "get" -> Reader(claims)
      [] req.route \in {"session", "put"} /\ node.gated -> Publisher(claims)
      [] req.route = "put" /\ ~ node.gated -> Admitted(claims, None)

-----------------------------------------------------------------------------
\* The checks of each route before its first call.
OnHash == FirstOf(<< <<~ is_lower_hex_hash(req.hash), 400>>, <<is_blocked(req.hash), 404>> >>)

BeforeToken ==
    LET fits == \/ req.route = "session" /\ Struct(req.body.value, SessionFields)
                \/ req.route = "operator" /\ ActionRequest
        extracted == IF req.route \in {"session", "operator"} THEN Extracted(fits) ELSE OK
    IN  IF extracted # OK THEN extracted
        ELSE FirstOf(<< <<req.route = "operator" /\ node.operators = {}, 503>>,
                        <<bearer = None, 401>> >>)

\* A pushed archive is validated in one go.
ArchiveStatus == IF IsSome(validate_archive(req.archive, node.validation)) THEN OK ELSE 422

Begin ==
    /\ pc = "start"
    /\ CASE req.route \in {"session", "put", "get", "operator"} ->
                AnswerOr(BeforeToken, "token", [job EXCEPT !.at = now])
         [] req.route \in {"document", "blob"} -> AnswerOr(OnHash, "fetch", job)
         [] req.route = "ingest" -> Answer(ArchiveStatus)
    /\ UNCHANGED <<req, node, asked, cached, faults, world>>

\* Only a publisher's token must name an audience, and only on a gated node.
Audience == IF req.route \in {"session", "put"} /\ node.gated THEN node.audience ELSE None

Token ==
    LET m == The(bearer)
        After(o) ==
            LET claims == {c \in VerifiedClaims(m, node.issuer, Audience, job.at) : o.holds}
            IN  IF o.unavailable THEN Answer(502)
                ELSE IF claims = None THEN Answer(401)
                ELSE WithClaims(The(claims))
    IN  /\ pc = "token"
        /\ \E o \in Verifications(m, IsCwt(m)) : Verifying(o) /\ After(o)
        /\ UNCHANGED <<req, node, asked, world>>

\* verified_devices: the next X-Entity-Token.  A key set that cannot be
\* fetched refuses the device like any other failure.
Device ==
    LET m == Head(job.rest)
        person == The(job.claims)
        After(o) ==
            LET claims == {c \in VerifiedDevice(m, node.issuer, job.at) :
                            o.holds /\ Bound(c, person)}
            IN  IF claims = None THEN NoChain(person, job.local, 401)
                ELSE Await(IF Len(job.rest) = 1 THEN "decide" ELSE "device",
                           [job EXCEPT !.rest = Tail(@),
                                       !.chain = Append(@, device_entity(The(claims), m))])
    IN  /\ pc = "device"
        /\ \E o \in Verifications(m, IsCwt(m)) : Verifying(o) /\ After(o)
        /\ UNCHANGED <<req, node, asked, world>>

-----------------------------------------------------------------------------
(***************************************************************************)
(* The decision: PublishDecider::ask for a publisher, decide_reader for a  *)
(* reader.  The AuthZEN client's answers are paired with the resources in  *)
(* module Decisions; the OpenTDF client's name them.                       *)
(***************************************************************************)
Chain ==
    job.chain \o (IF IsSome(node.environment)
                  THEN <<environment_entity(The(node.environment))>> ELSE <<>>)

Resource ==
    IF req.route = "get" THEN <<The(job.hash), The(job.attribute)>>
    ELSE <<The(job.claims).sub, node.publisher>>

DecisionRequest ==
    [chain |-> Chain,
     action |-> IF req.route = "get" THEN node.action ELSE "publish",
     type |-> IF req.route = "get" THEN "catalog_item" ELSE "publisher",
     resources |-> << <<Resource[1], <<Resource[2]>> >> >>]

Posted ==
    IF node.protocol = "authzen" THEN build_authzen_request(DecisionRequest)
    ELSE The(build_request(DecisionRequest, node.tokenMode))

\* What an OpenTDF service may answer about one resource.
ConnectAnswers(id) ==
    LET Says(i, d) == [id |-> i, decision |-> d]
        one == {Says(id, "DECISION_PERMIT"), Says(id, "DECISION_DENY"),
                Says(<<"another">>, "DECISION_PERMIT")}
    IN  {<<>>} \cup {<<a>> : a \in one} \cup {<<a, b>> : a, b \in one}

Answers(id) ==
    IF node.protocol = "authzen" THEN BOOLEAN
    ELSE {ConnectPermits(a, id) : a \in ConnectAnswers(id)}

Permitted ==
    IF req.route = "get" THEN Answer(OK)
    ELSE IF Shadow THEN LocalAnswer(The(job.claims), job.local, Some(Chain))
    ELSE Admitted(The(job.claims), Some(Chain))

\* Mutated form of NotPermitted: pdp falls back to the local answer too.
NotPermittedFallsBack(status) ==
    IF req.route # "get" THEN LocalAnswer(The(job.claims), job.local, None) ELSE Answer(status)

NotPermitted(status) ==
    IF Shadow THEN LocalAnswer(The(job.claims), job.local, None) ELSE Answer(status)

Decide ==
    /\ pc = "decide"
    /\ \/ \E permit \in Answers(Resource[1]) :
            /\ asked' = Append(asked, [body |-> Posted, permit |-> permit])
            /\ IF permit THEN Permitted ELSE NotPermitted(403)
            /\ UNCHANGED faults
       \/ /\ Fails("decision")
          /\ NotPermitted(IF req.route = "get" THEN 502 ELSE 503)
          /\ UNCHANGED asked
    /\ UNCHANGED <<req, node, cached, world>>

-----------------------------------------------------------------------------
(***************************************************************************)
(* get_pointer.  The attribute of a catalog already read is cached (module *)
(* CatalogPublish).                                                        *)
(***************************************************************************)
ReadPointer ==
    /\ pc = "pointer"
    /\ \/ /\ IF req.sub \notin DOMAIN Catalogs THEN Answer(404)
             ELSE LET hash == Catalogs[req.sub].hash
                  IN  AnswerOr(IF is_blocked(hash) THEN 404 ELSE OK,
                               "attribute", [job EXCEPT !.hash = Some(hash)])
          /\ UNCHANGED faults
       \/ Fails("store") /\ Answer(502)
    /\ UNCHANGED <<req, node, asked, cached, world>>

ReadAttribute ==
    /\ pc = "attribute"
    /\ \/ /\ LET attribute == Catalogs[req.sub].attribute IN
                IF attribute = None THEN Answer(404)
                ELSE IF is_operator(The(job.claims)) THEN Answer(OK)
                ELSE IF ~ node.provider THEN Answer(502)
                ELSE Devices(The(job.claims), [job EXCEPT !.attribute = attribute])
          /\ UNCHANGED faults
       \/ Fails("store") /\ Answer(502)
    /\ UNCHANGED <<req, node, asked, cached, world>>

\* get_catalog_document (a HEAD when the client revalidates) and get_blob.
Fetch ==
    /\ pc = "fetch"
    /\ \/ /\ CASE req.route = "document" ->
                    Answer(IF req.hash \notin DOMAIN Documents THEN 404
                           ELSE IF owner_hidden(Documents[req.hash]) THEN 404
                           ELSE IF req.revalidates THEN 304 ELSE OK)
               [] req.route = "blob" -> Answer(IF req.hash \in stored THEN OK ELSE 404)
          /\ UNCHANGED faults
       \/ Fails("store") /\ Answer(502)
    /\ UNCHANGED <<req, node, asked, cached, world>>

-----------------------------------------------------------------------------
(***************************************************************************)
(* put_catalog, steps 2 to 6; what it writes is module CatalogPublish.     *)
(***************************************************************************)
Document == b64(Field(req.body.value, "document"), MaxCatalog)
TheBundle == The(parse_bundle(Member(req.body.value, "bundle")))

\* The body is read only now; the duplicate keys are looked for before the
\* typed parse.
BodyStatus ==
    IF req.body.read # "whole" THEN (IF req.body.read = "too large" THEN 413 ELSE 400)
    ELSE IF ~ (/\ req.body.syntax
               /\ NoDuplicateKeys(req.body.value)
               /\ Struct(req.body.value, PutRequest)
               /\ IsSome(parse_bundle(Member(req.body.value, "bundle"))))
    THEN 400
    ELSE FirstOf(<< <<Document = None, 422>>,
                    <<PointerFor(TheBundle, req.sub) = None, 422>>,
                    <<AttestationOf(TheBundle) = None, 422>> >>)

Body ==
    /\ pc = "body"
    /\ AnswerOr(BodyStatus, "credential", [job EXCEPT !.at = now])
    /\ UNCHANGED <<req, node, asked, cached, faults, world>>

\* Steps 4 and 5 up to the lookups.  A publish without entries looks up
\* nothing.
NamesDocument(pointer) ==
    /\ Field(req.body.value, "document").v.hash = pointer.catalogHash
    /\ Field(req.body.value, "document").len = pointer.catalogSize

Indexed == parse_index(Member(req.body.value, "index"))
PayloadHashes(entries) == {entries[i].payloadHash : i \in DOMAIN entries}

DocumentStatus(pointer) ==
    LET document == Field(req.body.value, "document").v
        attribute == envelope_attribute(document, req.sub)
    IN  IF ~ NamesDocument(pointer) \/ attribute = None THEN 422
        ELSE IF ~ CampaignOk(The(job.claims), The(attribute)) THEN 403
        ELSE IF Indexed = None THEN 422
        ELSE IF \E h \in {document.hash} \cup PayloadHashes(The(Indexed)) : is_blocked(h)
        THEN 403 ELSE OK

Credential ==
    LET m == The(AttestationOf(TheBundle))
        pointer == The(PointerFor(TheBundle, req.sub))
        After(o) ==
            LET credential == {c \in VerifiedCredential(m, node.issuer, job.at) :
                                o.holds /\ BundleOk(TheBundle, pointer, c, node.rp)}
                status == IF o.unavailable THEN 502
                          ELSE IF credential = None THEN 422
                          ELSE DocumentStatus(pointer)
                entries == The(Indexed)
                document == Field(req.body.value, "document").v
            IN  IF status # OK THEN Answer(status)
                ELSE Await(IF entries = <<>> THEN "status" ELSE "sizes",
                           [job EXCEPT !.pointer = Some(pointer), !.credential = credential,
                                       !.attribute = envelope_attribute(document, req.sub),
                                       !.entries = entries,
                                       !.todo = PayloadHashes(entries)])
    IN  /\ pc = "credential"
        /\ \E o \in Verifications(m, TRUE) : Verifying(o) /\ After(o)
        /\ UNCHANGED <<req, node, asked, world>>

(***************************************************************************)
(* check_payloads: the sizes of the recordings, then their manifests.      *)
(* look_up makes the calls of one round at the same time and stops at the  *)
(* first refusal in the order of the entries.                              *)
(***************************************************************************)
Found(status, v) == [status |-> status, v |-> v]

Lookup(h) ==
    IF pc = "sizes"
    THEN (IF h \in stored THEN Found(OK, Some(Blobs[h].size)) ELSE Found(422, None))
    ELSE IF h \in described /\ IsSome(read_manifest(Blobs[h].manifest))
         THEN Found(OK, read_manifest(Blobs[h].manifest)) ELSE Found(422, None)

Recorded(found, h, result) ==
    [x \in DOMAIN found \cup {h} |-> IF x = h THEN result ELSE found[x]]

LookUp ==
    /\ pc \in {"sizes", "manifests"}
    /\ \E h \in job.todo :
        \/ /\ job' = [job EXCEPT !.todo = @ \ {h}, !.found = Recorded(@, h, Lookup(h))]
           /\ UNCHANGED faults
        \/ /\ Fails("store")
           /\ job' = [job EXCEPT !.todo = @ \ {h}, !.found = Recorded(@, h, Found(502, None))]
    /\ UNCHANGED <<req, node, pc, answer, asked, cached, world>>

\* The first entry whose lookup is not done, or was refused.
Refusal ==
    LET at == {i \in DOMAIN job.entries :
                \/ job.entries[i].payloadHash \in job.todo
                \/ job.found[job.entries[i].payloadHash].status # OK}
    IN  IF at = {} THEN None ELSE Some(CHOOSE i \in at : \A j \in at : i <= j)

Size(e) == The(job.found[e.payloadHash].v)
RecordingOk(e) ==
    IF pc = "sizes" THEN Size(e) = e.payloadSize ELSE has_attribute(Size(e), The(job.attribute))

LookedUp ==
    /\ pc \in {"sizes", "manifests"}
    /\ \A i \in Refusal : job.entries[i].payloadHash \notin job.todo
    /\ IF IsSome(Refusal)
       THEN Answer(job.found[job.entries[The(Refusal)].payloadHash].status)
       ELSE IF \E i \in DOMAIN job.entries : ~ RecordingOk(job.entries[i]) THEN Answer(422)
       ELSE Await(IF pc = "sizes" THEN "manifests" ELSE "status",
                  [job EXCEPT !.found = <<>>,
                              !.todo = IF pc = "sizes" THEN PayloadHashes(job.entries) ELSE {}])
    /\ UNCHANGED <<req, node, asked, cached, faults, world>>

\* IdpCredentialStatus::check, or none on a node configured without it.
StatusOf(id) ==
    IF \/ id \notin DOMAIN Credentials
       \/ <<"revoked", id>> \in bars
       \/ Credentials[id] # req.sub
    THEN 403 ELSE OK

Status ==
    /\ pc = "status"
    /\ \/ /\ Answer(IF node.status THEN StatusOf(The(job.credential).credential_id) ELSE OK)
          /\ UNCHANGED faults
       \/ node.status /\ Fails("status") /\ Answer(502)
    /\ UNCHANGED <<req, node, asked, cached, world>>

-----------------------------------------------------------------------------
(***************************************************************************)
(* The world while the handler waits.                                      *)
(***************************************************************************)
Waiting == pc # "done"

Tick ==
    /\ Waiting /\ now < FirstNow + MaxTicks
    /\ now' = now + 1
    /\ UNCHANGED <<handler, published, bars, stored, described, changes, always, ever>>

Changing == Waiting /\ changes < MaxChanges /\ changes' = changes + 1

Rotate ==
    /\ Changing /\ published # NextKeys
    /\ published' = NextKeys
    /\ UNCHANGED <<handler, now, bars, stored, described, always, ever>>

\* An operator bars or lifts, the owner of a passkey revokes it.
Moderate ==
    /\ Changing
    /\ \E b \in Barrable :
        /\ bars' = IF b \in bars THEN bars \ {b} ELSE bars \cup {b}
        /\ b[1] = "revoked" => b \notin bars
    /\ always' = always \cap bars' /\ ever' = ever \cup bars'
    /\ UNCHANGED <<handler, now, published, stored, described>>

\* A recording is stored before its manifest.
Ingest ==
    /\ Changing
    /\ \E h \in DOMAIN Blobs :
        \/ h \notin stored /\ stored' = stored \cup {h} /\ UNCHANGED described
        \/ h \in stored \ described /\ described' = described \cup {h} /\ UNCHANGED stored
    /\ UNCHANGED <<handler, now, published, bars, always, ever>>

Next ==
    \/ Begin \/ Token \/ Device \/ Decide \/ ReadPointer \/ ReadAttribute \/ Fetch
    \/ Body \/ Credential \/ LookUp \/ LookedUp \/ Status
    \/ Tick \/ Rotate \/ Moderate \/ Ingest

Spec == Init /\ [][Next]_vars

-----------------------------------------------------------------------------
(***************************************************************************)
(* Properties.                                                             *)
(***************************************************************************)
Done(route) == pc = "done" /\ req.route = route
Success == answer \in {OK, 201, 304}

Texts(m, key) == UNION {Claim(p.entries, key, "text") : p \in m.payload}
IdpKeys == {Keys[k] : k \in DOMAIN Keys} \cup {NextKeys[k] : k \in DOMAIN NextKeys}

\* A published catalog is one its owner signed: the token and the attestation
\* carry the IdP's signature and name the same subject, and the attested
\* passkey signed client data whose challenge is the pointer that names this
\* very document (verify_with, verify_bundle, step 4 of put_catalog).  A
\* session's endpoint signed for itself, this token and a current time
\* (verify_possession), except for the one timestamp whose distance from the
\* clock has no absolute value in an i64.
AdmittedIsSigned ==
    LET token == The(bearer)
        bundle == TheBundle
        attestation == bundle.credential.v
        client == bundle.assertion.clientDataJSON.v
        signature == bundle.assertion.signature.v
        pointer == bundle.pointer.v.json
        Sent(key) == Field(req.body.value, key)
    IN  /\ Done("put") /\ Success =>
            /\ {token.by, attestation.by} \subseteq IdpKeys
            /\ Texts(token, "sub") = Some(req.sub)
            /\ Texts(attestation, "sub") = Some(req.sub)
            /\ \E p \in attestation.payload : \E k \in Claim(p.entries, "publicKey", "cose_key") :
                    signature.by \in p256_from_cose_key(k)
            /\ signature.over[2] = Sha256(client)
            /\ client.challenge = Some(Sha256(bundle.pointer.v))
            /\ Field(pointer, "owner") = req.sub
            /\ Field(pointer, "catalogHash") = Sent("document").v.hash
        /\ Done("session") /\ Success =>
            /\ token.by \in IdpKeys
            /\ \A s \in job.session : Texts(token, "sub") = Some(s.subject)
            /\ Sent("signature").by = Sent("endpointId")
            /\ Sent("signature").over = <<Sent("endpointId"), token, Sent("timestamp")>>
            /\ \/ Sent("timestamp") \in FirstNow - SessionSkew .. now + SessionSkew
               \/ now - Sent("timestamp") \in Half .. Half + MaxTicks

\* A call that failed (a key set fetched a moment ago is not one).
Failed == faults \cap {"keys", "decision", "store", "status"}

\* Nobody who may is turned away: a request with nothing wrong in it, tokens
\* near the end of their life and limits that are just reached included, is
\* refused only when a call failed, something was barred while it was
\* handled, the keys were rotated or the decision service said no.  For a
\* failed call the answer is a 5xx, except that a device's key set is answered
\* 401 and that shadow enforces its local answer.
HonestAdmitted ==
    pc = "done" /\ req.honest /\ ~ Success =>
        /\ \/ faults # {} \/ ever # {} \/ published # Keys
           \/ \E i \in DOMAIN asked : ~ asked[i].permit
        /\ Failed # {} /\ ever = {} /\ published = Keys =>
            Shadow \/ answer >= 500 \/ (answer = 401 /\ job.rest # <<>>)

\* The bars that concern a request.
Concerning ==
    LET subjects == {subject_id_bind(s) : s \in UNION {Texts(m, "sub") : m \in bearer}}
        payloads == {job.entries[i].payloadHash : i \in DOMAIN job.entries}
    IN  (IF node.gated
         THEN CASE req.route = "session" -> {<<"suspended", s>> : s \in subjects}
                [] req.route = "put" ->
                    {<<"suspended", s>> : s \in subjects}
                    \cup {<<"blocked", h>> : h \in payloads \cup {p.catalogHash : p \in job.pointer}}
                [] req.route = "get" ->
                    {<<"hidden", subject_id_bind(req.sub)>>} \cup {<<"blocked", h>> : h \in job.hash}
                [] req.route = "document" ->
                    {<<"blocked", req.hash>>}
                    \cup {<<"hidden", subject_id_bind(o)>> :
                            o \in IF req.hash \in DOMAIN Documents THEN Documents[req.hash] ELSE {}}
                [] req.route = "blob" -> {<<"blocked", req.hash>>}
                [] OTHER -> {}
         ELSE {})
        \cup {<<"revoked", c.credential_id>> : c \in {d \in job.credential : node.status}}

\* What is barred from before a request to its answer is not admitted,
\* whatever the request awaits in between and however its subject is spelled
\* (is_suspended, is_blocked, catalog_hidden, IdpCredentialStatus::check).
RefusedWhileBarred == pc = "done" /\ Success => always \cap Concerning = {}

\* Whether the decision request in body is about this caller: the person of
\* the token, every device presented and the node's environment, none left
\* out or made up, and the resource the handler is about to open.
AboutTheCaller(body) ==
    LET id == IF req.route = "get" THEN The(job.hash) ELSE The(Texts(The(bearer), "sub"))
        sent == IF IsSome(body.devices) THEN The(body.devices)
                ELSE IF IsSome(body.device) THEN <<The(body.device)>> ELSE <<>>
    IN  CASE node.protocol = "authzen" ->
                /\ Some(body.subject.id) = Texts(The(bearer), "sub")
                /\ [i \in DOMAIN sent |-> sent[i].token] = [i \in DOMAIN req.devices |-> Some(req.devices[i])]
                /\ Cardinality(body.environment) = Cardinality(node.environment)
                /\ Len(body.evaluations) = 1 /\ body.evaluations[1].id = id
                /\ \A p \in body.subject.patreon :
                    "campaign_id" \in DOMAIN p => JsonText(p, "role") = Some(<<"creator">>)
          [] node.protocol = "opentdf" /\ node.tokenMode ->
                body.tokens = bearer /\ body.resources[1][1] = id
          [] node.protocol = "opentdf" /\ ~ node.tokenMode ->
                /\ Len(The(body.chains)) = 1 + Len(req.devices) + Cardinality(node.environment)
                /\ Some(The(body.chains)[1].claims["sub"]) = Texts(The(bearer), "sub")
                /\ body.resources[1][1] = id

\* Whether it is the decision service that decides on this request: on every
\* reader but an operator, and on the publishers of a node in pdp mode.
Decided ==
    \/ req.route = "get" /\ ~ \E c \in job.claims : node.gated /\ operator(c)
    \/ req.route \in {"session", "put"} /\ node.gated /\ node.decisions = "pdp"

Permit == \E i \in DOMAIN asked : asked[i].permit

\* The service's permit comes first: without one no catalog opens, no publisher
\* is admitted in pdp mode, and no session keeps a chain (decide_reader,
\* publisher_with_chain, is_operator).
PermittedFirst ==
    /\ pc = "done" /\ Success /\ Decided => Permit
    /\ \A s \in job.session : IsSome(s.chain) => Permit

\* Who decides: a catalog opens, and in pdp mode a publisher is admitted,
\* only once the decision service permitted a request about this caller; an
\* operator alone is not decided on, by the rule the moderation API has too;
\* and a session keeps a chain only when it was permitted (decide_reader,
\* publisher_with_chain, is_operator).
DecisionAboutTheCaller ==
    /\ \A i \in DOMAIN asked : AboutTheCaller(asked[i].body)
    /\ PermittedFirst

\* A call that fails opens nothing: whatever it was for, and however many
\* lookups of the same round succeeded, the request is refused, except that
\* shadow enforces its local answer (the error arms of every call).
FaultsFailClosed == pc = "done" /\ Success => Failed = {} \/ Shadow

\* A published catalog can be opened by whoever can open its recordings: its
\* attribute is the publisher's own campaign or creator attribute, and every
\* indexed recording is stored at its size with a manifest that carries the
\* attribute (check_envelope, owns_campaign, check_payloads).
CatalogOpenable ==
    Done("put") /\ Success =>
        \A fqn \in job.attribute :
            /\ \/ fqn = CreatorAttribute \o req.sub
               \/ \E id \in ValueOf(fqn, CampaignAttribute) : owns_campaign(The(job.claims), id)
            /\ \A i \in DOMAIN job.entries :
                LET e == job.entries[i] IN
                /\ e.payloadHash \in stored \cap described
                /\ Blobs[e.payloadHash].size = e.payloadSize
                /\ \E l \in BodyList(Blobs[e.payloadHash].manifest.policy, "dataAttributes") :
                    \E j \in DOMAIN l : fqn \in FqnsOf(l[j])

\* Whatever end record the ZIP reader settles on, opening an archive whose
\* counts were checked never makes it reserve memory for more members than
\* the limit (check_zip64_entry_counts); and an accepted archive has, besides
\* its manifest, a payload that inflates to the size its directory states
\* with the right checksum (validate_archive).
ArchiveIsSound ==
    LET a == req.archive IN
    /\ req.route = "ingest" /\ EntryCountsOk(a) => \A n \in Reserved(a) : n <= MaxMembers
    /\ Done("ingest") /\ Success =>
        /\ a.len <= node.validation.max_blob_bytes
        /\ Cardinality(DOMAIN a.members) <= MaxMembers
        /\ \E name \in DOMAIN a.members \ {Manifest, LegacyManifest} :
            a.members[name].crc /\ a.members[name].actual = a.members[name].declared
=============================================================================
