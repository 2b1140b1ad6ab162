---------------------------- MODULE EntityChain ----------------------------
(***************************************************************************)
(* The entity chain a decision is asked about, and the request each        *)
(* decision service client makes of it: src/src/entity_chain.rs and the    *)
(* request building of src/src/authz.rs.  Batching, retries, the service   *)
(* token and the pairing of answers with resources are module Decisions.   *)
(*                                                                         *)
(* A JSON object is a function from its keys.  A claim keeps the value it  *)
(* has in the verified token (module Tokens).                              *)
(***************************************************************************)
EXTENDS Tokens

CONSTANTS MaxChain               \* MAX_CHAIN_ENTITIES

ASSUME ChainAssumption == MaxChain \in Nat \ {0}

-----------------------------------------------------------------------------
Pairs(key, option) == {<<key, v>> : v \in option}
ObjectOf(pairs) == [k \in {p[1] : p \in pairs} |-> (CHOOSE p \in pairs : p[1] = k)[2]]

\* Mutated form of TooLong: a chain that just fits is refused.
TooLongByOne(devices, environment) == 1 + Len(devices) + Cardinality(environment) >= MaxChain

TooLong(devices, environment) == 1 + Len(devices) + Cardinality(environment) > MaxChain

\* The claims of the person, present ones only; the token is kept for the
\* OpenTDF client's token mode.
subject_entity(pe, token) ==
    [kind |-> "subject",
     token |-> Some(token),
     claims |-> ObjectOf(
        {<<"sub", pe.sub>>, <<"iss", pe.iss>>}
        \cup Pairs("patreon_user_id", pe.patreon_user_id)
        \cup Pairs("email", pe.email)
        \cup Pairs("email_verified", pe.email_verified)
        \cup Pairs("idp", pe.idp)
        \cup Pairs("arkavo_account_id", pe.arkavo_account_id)
        \cup Pairs("arkavo_roles", pe.arkavo_roles)
        \cup Pairs("arkavo_entitlements", {pe.arkavo_entitlements} \ {<<>>})
        \cup Pairs("client_id", pe.client_id)
        \cup Pairs("arkavo_patreon", pe.arkavo_patreon))]

\* A verified device's audience is always sent as the DeviceCheck one,
\* whatever else its token lists.
device_entity(claims, token) ==
    [kind |-> "device",
     token |-> Some(token),
     claims |-> [sub |-> claims.sub, iss |-> claims.iss,
                 aud |-> DevicecheckAud, kid |-> The(claims.kid)]]

Bound(device, person) == subject_id_bind(device.sub) = subject_id_bind(person.sub)

environment_entity(environment) ==
    [kind |-> "environment", token |-> None, claims |-> environment]

\* The chain as a publish session stores it.
strip_tokens(chain) ==
    [i \in DOMAIN chain |-> [kind |-> chain[i].kind, claims |-> chain[i].claims]]

-----------------------------------------------------------------------------
(***************************************************************************)
(* A decision request is [chain, action, type, resources]; a resource is   *)
(* <<id, attribute FQNs>>.                                                 *)
(***************************************************************************)
\* The entities of one kind in the order of the chain: the n-th is the one up
\* to which there are n.
OfKind(chain, kind) ==
    LET places == {i \in DOMAIN chain : chain[i].kind = kind}
    IN  [n \in 1 .. Cardinality(places) |->
            chain[CHOOSE i \in places : Cardinality({j \in places : j <= i}) = n]]

Kept(claims, keys) == [k \in DOMAIN claims \cap keys |-> claims[k]]

PatreonAllowed ==
    {"role", "patreon_user_id", "memberships", "verified_at", "cache_expires_at"}

\* Only a creator's claim may carry the campaign.
sanitize_patreon(p) ==
    Kept(p, PatreonAllowed
            \cup (IF JsonText(p, "role") = Some(<<"creator">>) THEN {"campaign_id"} ELSE {}))

SubjectAllowed ==
    {"iss", "email", "email_verified", "idp", "arkavo_account_id", "arkavo_roles",
     "arkavo_entitlements", "client_id"}

authzen_subject(pe) ==
    [type |-> "identity",
     id |-> pe.claims["sub"],
     properties |-> Kept(pe.claims, SubjectAllowed),
     patreon |-> IF "arkavo_patreon" \in DOMAIN pe.claims
                 THEN Some(sanitize_patreon(pe.claims["arkavo_patreon"])) ELSE None]

\* A device read back from a stored session has no token.
allowlist_device(device) ==
    [claims |-> Kept(device.claims, {"sub", "iss", "aud", "kid"}), token |-> device.token]

allowlist_environment(claims) == Kept(claims, {"region", "kind"})

\* One device is sent as `device`, several as `devices`.
build_authzen_request(req) ==
    LET devices == OfKind(req.chain, "device")
        sent == [i \in DOMAIN devices |-> allowlist_device(devices[i])]
    IN  [subject |-> authzen_subject(OfKind(req.chain, "subject")[1]),
         action |-> req.action,
         device |-> IF Len(sent) = 1 THEN Some(sent[1]) ELSE None,
         devices |-> IF Len(sent) > 1 THEN Some(sent) ELSE None,
         environment |-> {allowlist_environment(OfKind(req.chain, "environment")[i].claims) :
                            i \in DOMAIN OfKind(req.chain, "environment") \cap {1}},
         evaluations |-> [i \in DOMAIN req.resources |->
                            [type |-> req.type, id |-> req.resources[i][1],
                             fqns |-> req.resources[i][2]]]]

(***************************************************************************)
(* The OpenTDF client sends every entity with all its claims, or in token  *)
(* mode the person's token alone.  None: the request cannot be built (a    *)
(* stored chain has no token to send), which its caller takes as no answer.*)
(***************************************************************************)
Category(e) == IF e.kind = "subject" THEN "CATEGORY_SUBJECT" ELSE "CATEGORY_ENVIRONMENT"

build_request(req, tokenMode) ==
    LET pe == OfKind(req.chain, "subject")[1]
        entities == [i \in DOMAIN req.chain |->
                        [id |-> i, category |-> Category(req.chain[i]),
                         claims |-> req.chain[i].claims]]
        Body(tokens, chains) ==
            [tokens |-> tokens, chains |-> chains, action |-> req.action,
             resources |-> req.resources]
    IN  IF tokenMode
        THEN {Body(Some(token), None) : token \in pe.token}
        ELSE Some(Body(None, Some(entities)))

\* The OpenTDF answer names each resource; one it does not name is denied,
\* and the last of two answers for one resource stands.
ConnectPermits(answer, id) ==
    \E d \in LastOf(SelectSeq(answer, LAMBDA a : a.id = id)) : d.decision = "DECISION_PERMIT"
=============================================================================
