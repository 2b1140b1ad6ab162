---------------------------- MODULE MCAdmission ----------------------------
(***************************************************************************)
(* The requests of the admission run: for every route one that must be     *)
(* admitted, and variants of it that differ in one place.  A variant that  *)
(* must still be admitted is marked honest.                                *)
(***************************************************************************)
EXTENDS Admission

Now == 20
Alice == <<"alice">>
Idp == <<"idp">>
Svc == <<"svc">>
Rp == <<"arkavo.net">>
CampaignFqn == CampaignAttribute \o <<"77">>
CreatorFqn == CreatorAttribute \o Alice

\* Entries of a map, by key and type.
Entry(k, t, v) == [k |-> k, t |-> t, v |-> v]
With(s, k, t, v) == [i \in DOMAIN s |-> IF s[i].k = k THEN Entry(k, t, v) ELSE s[i]]
Without(s, k) == SelectSeq(s, LAMBDA e : e.k # k)
And(s, k, t, v) == Append(s, Entry(k, t, v))
Text(v) == [t |-> "text", v |-> v]

-----------------------------------------------------------------------------
\* Tokens.
Token1(entries) ==
    [form |-> "cwt", alg |-> "ES256", crit |-> FALSE, kid |-> "k1", ctype |-> None,
     by |-> "p1", payload |-> Some([map |-> TRUE, entries |-> entries])]

Patreon ==
    <<Entry("role", "text", <<"creator">>), Entry("campaign_id", "text", <<"77">>),
      Entry("patreon_user_id", "text", <<"u1">>), Entry("access_token", "text", <<"x">>)>>

Person ==
    <<Entry("iss", "text", Idp), Entry("sub", "text", Alice),
      Entry("aud", "text", <<"publish">>), Entry("exp", "int", Now + 9),
      Entry("iat", "int", Now), Entry("cti", "bytes", "c1"),
      Entry("arkavo_entitlements", "array", <<Text(<<"creator">>)>>),
      Entry("arkavo_patreon", "map", Patreon)>>

DeviceOf(sub, kid) ==
    <<Entry("iss", "text", Idp), Entry("sub", "text", sub),
      Entry("aud", "array", <<Text(<<"other">>), Text(DevicecheckAud)>>),
      Entry("exp", "int", Now + 9), Entry("iat", "int", Now), Entry("cti", "bytes", "c2"),
      Entry("cnf", "map", kid)>>

Phone == Token1(DeviceOf(<<"arkavo:">> \o Alice, <<Entry("2", "bytes", "d1")>>))
Tablet == Token1(DeviceOf(Alice, <<Entry("1", "cose_key", "d2")>>))

Operator ==
    <<Entry("iss", "text", Idp), Entry("sub", "text", <<"client:">> \o Svc),
      Entry("aud", "text", Svc), Entry("exp", "int", Now + 9), Entry("iat", "int", Now),
      Entry("cti", "bytes", "c3"),
      Entry("arkavo_roles", "array", <<Text(<<"service-account">>)>>)>>

\* Each <<variant, honest>>.
BadHeaders(m) ==
    << [m EXCEPT !.alg = "none"], [m EXCEPT !.crit = TRUE], [m EXCEPT !.kid = ""],
       [m EXCEPT !.kid = "k9"], [m EXCEPT !.form = "other"], [m EXCEPT !.ctype = Some("x")],
       [m EXCEPT !.by = "p9"], [m EXCEPT !.payload = None],
       [m EXCEPT !.payload = Some([map |-> FALSE, entries |-> <<>>])] >>

BadClaims(c) ==
    << Without(c, "iss"), With(c, "iss", "text", <<"another">>), With(c, "sub", "text", <<>>),
       Without(c, "aud"), With(c, "aud", "array", <<Text(<<"publish">>), [t |-> "int", v |-> 1]>>),
       With(c, "exp", "int", Now - 2), With(c, "exp", "text", <<"soon">>),
       With(c, "exp", "int", 600), With(c, "iat", "int", Now + 4),
       With(With(c, "iat", "int", Now - 1), "exp", "int", Now - 2),
       And(c, "nbf", "int", Now + 4), And(c, "nbf", "text", <<"now">>),
       And(c, "typ", "text", <<"jwt">>), And(c, "iss", "text", Idp), And(c, NotAKey, "int", 1),
       With(c, "cti", "bytes", ""), And(c, "arkavo_roles", "array", <<[t |-> "int", v |-> 1]>>),
       And(c, "cnf", "map", <<Entry("2", "bytes", "d"), Entry("2", "bytes", "d")>>) >>

HonestClaims(c) ==
    << With(c, "exp", "int", Now), With(c, "iat", "int", Now + 2), And(c, "nbf", "int", Now + 2),
       And(c, "unknown", "float", "1.5"), And(c, "email", "int", 1),
       And(c, "email", "text", <<"a@b">>), And(c, "email_verified", "bool", TRUE),
       And(c, "idp", "text", <<"apple">>), And(c, "client_id", "text", <<"app">>),
       And(c, "arkavo_account_id", "text", <<"acc">>) >>

-----------------------------------------------------------------------------
\* Archives: an end record, a manifest and a payload.
Fqn(fqn) == [form |-> "fqn", fqn |-> fqn]
Leaf(ns, name, value) == [form |-> "policy", leaves |-> {[ns |-> ns, name |-> name, value |-> value]}]

PolicyOf(attributes, dissem) ==
    [b64 |-> TRUE, object |-> TRUE,
     keys |-> ("uuid" :> Text(<<"id">>))
              @@ ("body" :> [t |-> "object",
                             v |-> ("dataAttributes" :> [t |-> "array", v |-> attributes])
                                   @@ ("dissem" :> [t |-> "array", v |-> dissem])])]

ManifestOf(mimeType, attributes) ==
    [url |-> <<"0.payload">>, mimeType |-> Some(mimeType), policy |-> PolicyOf(attributes, <<>>),
     keyAccess |-> << [url |-> Some(<<"kas">>), binding |-> <<"b">>] >>]

EnvelopeManifest == ManifestOf(CatalogMimeType, <<Fqn(CampaignFqn)>>)
Video == <<"video/mp4">>

End(files, offset, locator) ==
    [back |-> 2, whole |-> TRUE, files |-> files, offset |-> offset, locator |-> locator]
Locator(onDisk, files) ==
    Some([start |-> 8, records |-> {[at |-> 1, onDisk |-> onDisk, files |-> files]}])

Size1(n) == [declared |-> n, actual |-> n, crc |-> TRUE, manifest |-> None]
ArchiveOf(manifest) ==
    [hash |-> <<"doc">>, len |-> 12, directory |-> 4, ends |-> <<End(2, 5, None)>>, opens |-> TRUE,
     members |-> (Manifest :> [Size1(3) EXCEPT !.manifest = Some(manifest)])
                 @@ (DefaultPayload :> Size1(6))]

Recording == ArchiveOf(ManifestOf(Video, <<Fqn(CampaignFqn)>>))
Envelope == ArchiveOf(EnvelopeManifest)

\* With one member, the manifest or the end records changed.
Member1(a, name, m) == [a EXCEPT !.members = (name :> m) @@ @]
Ends(a, ends) == [a EXCEPT !.ends = ends]
Remanifest(a, m) == Member1(a, Manifest, [Size1(3) EXCEPT !.manifest = Some(m)])
Repoliced(a, policy) == Remanifest(a, [EnvelopeManifest EXCEPT !.policy = policy])
Urls(a, url) == Remanifest(a, [ManifestOf(Video, <<Fqn(CampaignFqn)>>) EXCEPT !.url = url])

BadArchives(a) ==
    << [a EXCEPT !.opens = FALSE], [a EXCEPT !.directory = 21],
       Member1(a, DefaultPayload, [Size1(6) EXCEPT !.actual = 5]),
       Member1(a, DefaultPayload, [Size1(6) EXCEPT !.crc = FALSE]),
       Member1(a, DefaultPayload, Size1(13)),
       Member1(a, Manifest, [a.members[Manifest] EXCEPT !.declared = 6]),
       Member1(a, Manifest, [a.members[Manifest] EXCEPT !.actual = 6]),
       Member1(a, Manifest, [a.members[Manifest] EXCEPT !.crc = FALSE]),
       Member1(a, Manifest, Size1(3)),
       [a EXCEPT !.members = [n \in {DefaultPayload} |-> Size1(6)]],
       Member1(Member1(a, <<"x">>, Size1(1)), <<"y">>, Size1(1)),
       Ends(a, <<End(3, 5, Locator(4, 2))>>), Ends(a, <<End(2, 9, Locator(2, 4))>>),
       Ends(a, <<End(3, 5, None), End(3, 5, None), End(3, 5, None)>>),
       Ends(a, <<End(2, 5, None), End(3, 5, Locator(9, 9))>>) >>

HonestArchives(a) ==
    << a, Ends(a, <<End(3, 9, Locator(3, 3)), End(2, 5, Locator(9, 9))>>),
       Ends(a, <<[End(2, 5, None) EXCEPT !.whole = FALSE], End(3, 5, None)>>),
       Member1(a, <<"x">>, Size1(1)),
       [a EXCEPT !.members = (LegacyManifest :> a.members[Manifest])
                             @@ (DefaultPayload :> Size1(6))] >>

\* Only a recording's payload may be elsewhere.
Elsewhere(a, url) == Member1(Urls(a, url), url, Size1(6))
BadUrls(a) ==
    << Urls(a, <<"missing">>), Elsewhere(a, <<"/", "etc">>), Elsewhere(a, <<"a", "..", "b">>),
       Elsewhere(a, <<"a", "\\", "b">>), Elsewhere(a, LegacyManifest), Urls(a, Manifest) >>
HonestUrls(a) == << Elsewhere(a, <<"data">>), Urls(a, <<>>) >>

BadPolicies(a) ==
    << Remanifest(a, ManifestOf(Video, <<Fqn(CampaignFqn)>>)),
       Repoliced(a, PolicyOf(<<>>, <<>>)), Repoliced(a, PolicyOf(<<Fqn(CampaignFqn)>>, <<"bob">>)),
       Repoliced(a, PolicyOf(<<Fqn(CampaignFqn), Fqn(CreatorFqn)>>, <<>>)),
       Repoliced(a, PolicyOf(<<Fqn(<<"arkavo.net", "tier", "1">>)>>, <<>>)),
       Repoliced(a, PolicyOf(<<Fqn(CampaignAttribute)>>, <<>>)),
       Repoliced(a, PolicyOf(<<Leaf("patreon.arkavo.com", "campaign", Some(Text("77")))>>, <<>>)),
       Repoliced(a, PolicyOf(<<Fqn(CreatorAttribute \o <<"bob">>)>>, <<>>)),
       Repoliced(a, [PolicyOf(<<Fqn(CampaignFqn)>>, <<>>) EXCEPT !.b64 = FALSE]),
       Repoliced(a, [PolicyOf(<<Fqn(CampaignFqn)>>, <<>>) EXCEPT !.keys["uuid"] = Text(<<>>)]),
       Remanifest(a, [EnvelopeManifest EXCEPT !.keyAccess[1].url = None]) >>

\* Recordings that entries may name.
MCBlobs ==
    (<<"h1">> :> [size |-> 4, manifest |-> ManifestOf(Video, <<Fqn(CampaignFqn)>>)])
    @@ (<<"h2">> :> [size |-> 5, manifest |->
            ManifestOf(Video, <<Leaf("patreon.arkavo.com", "campaign", Some(Text("77"))),
                                Fqn(CreatorFqn)>>)])
    @@ (<<"h3">> :> [size |-> 4, manifest |-> ManifestOf(Video, <<Fqn(CreatorFqn)>>)])
    @@ (<<"h4">> :> [size |-> 4, manifest |->
            [ManifestOf(Video, <<Fqn(CampaignFqn)>>) EXCEPT !.policy.object = FALSE]])

-----------------------------------------------------------------------------
\* Bundles.
Encoded(v) == [b64 |-> TRUE, len |-> 1, v |-> v]
Object(s) == [t |-> "object", v |-> s]
NoonOn(year, month, day) ==
    [shaped |-> TRUE, year |-> year, month |-> month, day |-> day,
     hour |-> 12, minute |-> 0, second |-> 0]

PointerEntries ==
    <<Entry("schema", "text", PointerSchema), Entry("owner", "text", Alice),
      Entry("seq", "int", 1), Entry("catalogHash", "text", <<"doc">>),
      Entry("catalogSize", "int", 12), Entry("issuedAt", "text", NoonOn(2024, 2, 29))>>

CoseKey(x, y) ==
    [kty |-> "EC2", params |-> <<Entry("crv", "int", 1), Entry("x", "bytes", [len |-> 32, v |-> x]),
                                 Entry("y", "bytes", [len |-> 32, v |-> y])>>]

CredentialEntries ==
    <<Entry("typ", "text", PasskeyCredentialTyp), Entry("iss", "text", Idp),
      Entry("sub", "text", Alice), Entry("credentialId", "bytes", "cred"),
      Entry("publicKey", "cose_key", CoseKey("x1", "y1")), Entry("rpId", "text", Rp),
      Entry("iat", "int", Now)>>

Attestation(entries) ==
    [Token1(entries) EXCEPT !.form = "sign1", !.ctype = Some(CredentialContentType)]

Consent(pointer) ==
    [json |-> TRUE, type |-> Some("webauthn.get"), challenge |-> Some(Sha256(pointer)),
     origin |-> Some(Origin(Rp)), crossOrigin |-> None]
Present == [rpIdHash |-> Sha256(Rp), up |-> TRUE, uv |-> TRUE]

\* A bundle whose pointer, client data, authenticator data, signer, signed
\* content, credential ID and attestation are given.
BundleOf(p, consent, present, key, over, id, m) ==
    <<Entry("pointer", "text", Encoded(p)),
      Entry("assertion", "object",
        <<Entry("credentialId", "text", Encoded(id)),
          Entry("authenticatorData", "text", [Encoded(present) EXCEPT !.len = 37]),
          Entry("clientDataJSON", "text", Encoded(consent)),
          Entry("signature", "text", Encoded([der |-> TRUE, by |-> key, over |-> over]))>>),
      Entry("credential", "text", Encoded(m))>>

Passkey == <<"x1", "y1">>
Over(consent, present) == <<present, Sha256(consent)>>
Utf8(s) == [utf8 |-> TRUE, json |-> Object(s)]

Signing(p, consent, present) ==
    BundleOf(p, consent, present, Passkey, Over(consent, present), "cred",
             Attestation(CredentialEntries))
PointerBundle(s) == Signing(Utf8(s), Consent(Utf8(s)), Present)
GoodPointer == Utf8(PointerEntries)
GoodConsent == Consent(GoodPointer)
GoodBundle == PointerBundle(PointerEntries)
Attested(m) == BundleOf(GoodPointer, GoodConsent, Present, Passkey, Over(GoodConsent, Present), "cred", m)
Claimed(k, t, v) == Attested(Attestation(With(CredentialEntries, k, t, v)))
Stated(k, t, v) == PointerBundle(With(PointerEntries, k, t, v))
Consenting(consent) == Signing(GoodPointer, consent, Present)
Being(present) == Signing(GoodPointer, GoodConsent, present)

BadBundles ==
    << Stated("schema", "text", <<"other">>), Stated("owner", "text", <<"bob">>),
       Stated("owner", "text", <<"..">>), Stated("seq", "int", 0), Stated("seq", "int", 10),
       Stated("seq", "text", <<"1">>), Stated("catalogHash", "text", <<"h1">>),
       Stated("catalogHash", "text", <<"DOC">>), Stated("catalogSize", "int", 11),
       Stated("catalogSize", "int", 0), Stated("issuedAt", "text", NoonOn(2023, 2, 29)),
       Stated("issuedAt", "text", NoonOn(1900, 2, 29)), Stated("issuedAt", "text", NoonOn(2024, 4, 31)),
       Stated("issuedAt", "text", [NoonOn(2024, 1, 1) EXCEPT !.second = 60]),
       PointerBundle(Without(PointerEntries, "seq")),
       PointerBundle(And(PointerEntries, "seq", "int", 2)),
       PointerBundle(And(PointerEntries, "extra", "int", 2)),
       Signing([GoodPointer EXCEPT !.utf8 = FALSE], Consent([GoodPointer EXCEPT !.utf8 = FALSE]), Present),
       Consenting([GoodConsent EXCEPT !.json = FALSE]),
       Consenting([GoodConsent EXCEPT !.type = Some("webauthn.create")]),
       Consenting(Consent(Utf8(With(PointerEntries, "seq", "int", 2)))),
       Consenting([GoodConsent EXCEPT !.origin = Some(Origin(<<"elsewhere">>))]),
       Consenting([GoodConsent EXCEPT !.crossOrigin = Some(TRUE)]),
       Being([Present EXCEPT !.rpIdHash = Sha256(<<"elsewhere">>)]),
       Being([Present EXCEPT !.up = FALSE]), Being([Present EXCEPT !.uv = FALSE]),
       BundleOf(GoodPointer, GoodConsent, Present, <<"x2", "y2">>, Over(GoodConsent, Present),
                "cred", Attestation(CredentialEntries)),
       BundleOf(GoodPointer, GoodConsent, Present, Passkey,
                Over(Consent(Utf8(<<>>)), Present), "cred", Attestation(CredentialEntries)),
       BundleOf(GoodPointer, GoodConsent, Present, Passkey, Over(GoodConsent, Present),
                "other", Attestation(CredentialEntries)),
       Claimed("sub", "text", <<"bob">>), Claimed("rpId", "text", <<"elsewhere">>),
       Claimed("typ", "text", <<"cwt">>), Claimed("iss", "text", <<"another">>),
       Claimed("iat", "int", Now + 4), Claimed("credentialId", "bytes", ""),
       Claimed("publicKey", "cose_key", CoseKey("x1", "y2")),
       Claimed("publicKey", "cose_key", [CoseKey("x1", "y1") EXCEPT !.kty = "OKP"]),
       Claimed("publicKey", "cose_key", [CoseKey("x1", "y1") EXCEPT !.params[1].v = 2]),
       Attested(Attestation(And(CredentialEntries, "iat", "int", Now))),
       Attested(Attestation(Without(CredentialEntries, "rpId"))),
       Attested(Token1(Person)) >>

HonestBundles ==
    << Stated("seq", "int", 9), Stated("issuedAt", "text", NoonOn(2000, 2, 29)),
       Consenting([GoodConsent EXCEPT !.crossOrigin = Some(FALSE)]),
       Claimed("iat", "int", Now + 2),
       Claimed("publicKey", "cose_key",
               [CoseKey("x2", "y1") EXCEPT !.params = And(@, "x", "bytes", [len |-> 32, v |-> "x1"])]) >>

\* Indexes.
IndexEntry(id, hash, size) ==
    Object(<<Entry("contentID", "text", id), Entry("version", "int", 1),
             Entry("payloadHash", "text", hash), Entry("payloadSize", "int", size)>>)
One == IndexEntry(<<"c1">>, <<"h1">>, 4)
Two == IndexEntry(<<"c2">>, <<"h2">>, 5)
Same == IndexEntry(<<"c3">>, <<"h1">>, 4)
Array(s) == [t |-> "array", v |-> s]

BadIndexes ==
    << Object(<<>>), Array(<<One, One>>), Array(<<One, Two, Same, IndexEntry(<<"c4">>, <<"h2">>, 5)>>),
       Array(<<IndexEntry(<<"..">>, <<"h1">>, 4)>>), Array(<<IndexEntry(<<"c1">>, <<"H1">>, 4)>>),
       Array(<<IndexEntry(<<"c1">>, <<"h1">>, 0)>>), Array(<<IndexEntry(<<"c1">>, <<"h1">>, 3)>>),
       Array(<<One, IndexEntry(<<"c3">>, <<"h1">>, 5)>>),
       Array(<<One, IndexEntry(<<"c3">>, <<"h3">>, 4)>>), Array(<<IndexEntry(<<"c4">>, <<"h4">>, 4)>>),
       Array(<<[One EXCEPT !.v[2].v = 0]>>), Array(<<[One EXCEPT !.v = Without(@, "version")]>>) >>
HonestIndexes == << Array(<<>>), Array(<<One>>), Array(<<One, Two>>), Array(<<Two, One, Same>>) >>

-----------------------------------------------------------------------------
\* Nodes.
Local ==
    [gated |-> TRUE, decisions |-> "local", audience |-> Some(<<"publish">>),
     entitlement |-> Some(<<"creator">>), issuer |-> Some(Idp),
     environment |-> Some([region |-> "eu", kind |-> "node", host |-> "h"]),
     operators |-> {Svc}, provider |-> TRUE, protocol |-> "authzen", tokenMode |-> FALSE,
     action |-> "read", publisher |-> <<"arkavo.net", "entitlement", "publish">>,
     rp |-> Rp, status |-> TRUE,
     validation |-> [max_blob_bytes |-> 12, required_attributes |-> {CampaignFqn},
                     assertion |-> [enabled |-> TRUE, keys |-> {"a"}, readable |-> {"a", "b"}]]]
ShadowNode == [Local EXCEPT !.decisions = "shadow"]
Pdp == [Local EXCEPT !.decisions = "pdp"]
OpenTdf == [Pdp EXCEPT !.protocol = "opentdf"]
TokenMode == [OpenTdf EXCEPT !.tokenMode = TRUE]
Ungated == [Local EXCEPT !.gated = FALSE, !.operators = {}, !.audience = None]
Deciding == <<ShadowNode, Pdp, OpenTdf, TokenMode>>

-----------------------------------------------------------------------------
\* Requests.
Bearer(m) == Some([ascii |-> TRUE, scheme |-> "Bearer ", token |-> Some(m)])
Json(value) == [json |-> TRUE, read |-> "whole", syntax |-> TRUE, value |-> value]

Base(route, m) ==
    [honest |-> TRUE, route |-> route, authorization |-> Bearer(m), devices |-> <<>>,
     sub |-> Alice, body |-> None, hash |-> <<>>, revalidates |-> FALSE, archive |-> None]

SessionBody(endpoint, timestamp, signature) ==
    <<Entry("endpointId", "text", endpoint), Entry("timestamp", "int", timestamp),
      Entry("signature", "text", signature)>>
Possession(endpoint, m, timestamp) ==
    SessionBody(endpoint, timestamp,
                [hex |-> TRUE, by |-> endpoint, over |-> <<endpoint, m, timestamp>>])
SessionWith(m, body) == [Base("session", m) EXCEPT !.body = Json(Object(body))]
Session(m) == SessionWith(m, Possession("e1", m, Now))

PutBody(document, bundle, index) ==
    Object(<<Entry("document", "text", [b64 |-> TRUE, len |-> 12, v |-> document]),
             Entry("bundle", "object", bundle), Entry("index", index.t, index.v)>>)
PutWith(m, body) == [Base("put", m) EXCEPT !.body = Json(body)]
GoodPut(m) == PutWith(m, PutBody(Envelope, GoodBundle, Array(<<One, Two>>)))
Get(m) == Base("get", m)
Suspend(m, body) == [Base("operator", m) EXCEPT !.sub = <<"arkavo:">> \o Alice, !.body = Json(body)]
Reason == "reason" :> Text(<<"spam">>)
OnHash1(route, hash) == [Base(route, Token1(Person)) EXCEPT !.hash = hash]
Push(a) == [Base("ingest", Token1(Person)) EXCEPT !.archive = a]

Map(s, F(_)) == [i \in DOMAIN s |-> F(s[i])]
Altered(r) == [r EXCEPT !.honest = FALSE]
Sent(r, n) == [req |-> r, node |-> n, bars |-> {}, stored |-> DOMAIN MCBlobs,
               described |-> DOMAIN MCBlobs]

Alone == Token1(Person)
Tokens1(s) == Map(s, Token1)
NoEntitlement == Token1(Without(Person, "arkavo_entitlements"))

\* Sessions: the token, the configuration, the chain, the possession.
BadDevices ==
    BadHeaders(Phone)
    \o Tokens1(<<With(DeviceOf(Alice, <<Entry("2", "bytes", "d")>>), "aud", "text", <<"other">>),
                 With(DeviceOf(Alice, <<Entry("2", "bytes", "d")>>), "exp", "int", Now - 2),
                 DeviceOf(<<"bob">>, <<Entry("2", "bytes", "d")>>),
                 DeviceOf(Alice, <<Entry("2", "bytes", "")>>),
                 Without(DeviceOf(Alice, <<>>), "cnf")>>)

SessionCases ==
    LET Carrying(devices) == [Session(Alone) EXCEPT !.devices = devices]
        Posting(body) == Sent(Altered(SessionWith(Alone, body)), Local)
    IN  Map(<<Local>> \o Deciding, LAMBDA n : Sent(Session(Alone), n))
        \o Map(BadHeaders(Alone) \o Tokens1(BadClaims(Person)),
               LAMBDA m : Sent(Altered(Session(m)), Local))
        \o Map(Tokens1(HonestClaims(Person)), LAMBDA m : Sent(Session(m), Local))
        \o Map(Tokens1(HonestClaims(Person)), LAMBDA m : Sent(Session(m), Pdp))
        \o Map(Deciding, LAMBDA n : Sent(Carrying(<<Phone>>), n))
        \o Map(Deciding, LAMBDA n : Sent(Carrying(<<Phone, Tablet>>), n))
        \o Map(Deciding, LAMBDA n : Sent(Altered(Carrying(<<Phone, Tablet, Phone>>)), n))
        \o Map(BadDevices, LAMBDA d : Sent(Altered(Carrying(<<Tablet, d>>)), Pdp))
        \o Map(BadDevices, LAMBDA d : Sent(Altered(Carrying(<<d>>)), ShadowNode))
        \o Map(<<Local>> \o Deciding, LAMBDA n : Sent(Altered(Session(NoEntitlement)), n))
        \o Map(<<Local>> \o Deciding, LAMBDA n : Sent(Altered(Session(Token1(Operator))), n))
        \o << Sent(Altered(Session(Token1(With(Person, "aud", "text", <<"other">>)))), Local),
              Sent(Session(NoEntitlement), [Local EXCEPT !.entitlement = None]),
              Sent(Altered([Session(Alone) EXCEPT !.authorization = None]), Local),
              Sent(Altered([Session(Alone) EXCEPT !.body.json = FALSE]), Local),
              Sent(Altered([Session(Alone) EXCEPT !.body.syntax = FALSE]), Local),
              Sent(SessionWith(Alone, Possession("e1", Alone, Now - 2)), Local),
              Sent(SessionWith(Alone, Possession("e1", Alone, Now + 3)), Local),
              Posting(Possession("e1", Alone, Now - 4)), Posting(Possession("e1", Alone, Now + 5)),
              Posting(Possession("e1", Alone, Now - 512)), Posting(Possession("e9", Alone, Now)),
              Posting(Possession("e1", NoEntitlement, Now)),
              Posting(With(Possession("e1", Alone, Now), "endpointId", "text", "e2")),
              Posting(With(Possession("e1", Alone, Now), "timestamp", "int", Now + 1)),
              Posting(With(Possession("e1", Alone, Now), "timestamp", "int", 600)),
              Posting(SessionBody("e1", Now, [hex |-> FALSE, by |-> "e1", over |-> <<>>])),
              Posting(And(Possession("e1", Alone, Now), "extra", "int", 1)) >>

\* Publishes: the subject, the body, the bundle, the envelope, the index.
PutCases ==
    LET Body1(d, b, i) == PutWith(Alone, PutBody(d, b, i))
        Unlike(r) == Sent(Altered(r), Local)
        good == GoodPut(Alone)
        mine == PutBody(Repoliced(Envelope, PolicyOf(<<Fqn(CreatorFqn)>>, <<>>)), GoodBundle, Array(<<>>))
        plain == PutBody(Envelope, GoodBundle, Array(<<>>))
        fan == Token1(With(Person, "arkavo_patreon", "map", With(Patreon, "role", "text", <<"member">>)))
        other == Token1(With(Person, "arkavo_patreon", "map", With(Patreon, "campaign_id", "text", <<"78">>)))
        Document1(field) == [plain EXCEPT !.v[1].v = field]
        Status1(id, sub) == PutBody(Envelope,
            BundleOf(GoodPointer, GoodConsent, Present, Passkey, Over(GoodConsent, Present), id,
                     Attestation(With(CredentialEntries, "credentialId", "bytes", id))), Array(<<>>))
    IN  Map(<<Local, Ungated>> \o Deciding, LAMBDA n : Sent(good, n))
        \o Map(BadHeaders(Alone), LAMBDA m : Sent(Altered(GoodPut(m)), Ungated))
        \o Map(BadBundles, LAMBDA b : Unlike(Body1(Envelope, b, Array(<<>>))))
        \o Map(HonestBundles, LAMBDA b : Sent(Body1(Envelope, b, Array(<<>>)), Local))
        \o Map(BadHeaders(Attestation(CredentialEntries)),
               LAMBDA m : Unlike(Body1(Envelope, Attested(m), Array(<<>>))))
        \o Map(BadArchives(Envelope) \o BadPolicies(Envelope),
               LAMBDA d : Unlike(Body1(d, GoodBundle, Array(<<>>))))
        \o Map(HonestArchives(Envelope), LAMBDA d : Sent(Body1(d, GoodBundle, Array(<<>>)), Local))
        \o Map(BadIndexes, LAMBDA i : Unlike(Body1(Envelope, GoodBundle, i)))
        \o Map(HonestIndexes, LAMBDA i : Sent(Body1(Envelope, GoodBundle, i), Local))
        \o << Sent(PutWith(Alone, mine), Local), Sent(PutWith(fan, mine), Local),
              Unlike(PutWith(fan, plain)), Unlike(PutWith(other, plain)),
              Unlike([good EXCEPT !.sub = <<"bob">>]), Unlike([good EXCEPT !.sub = <<"arkavo:">> \o Alice]),
              Unlike([good EXCEPT !.authorization = None]), Unlike([good EXCEPT !.body.json = FALSE]),
              Unlike([good EXCEPT !.body.read = "too large"]), Unlike([good EXCEPT !.body.read = "broken"]),
              Unlike([good EXCEPT !.body.syntax = FALSE]),
              Unlike(PutWith(Alone, [plain EXCEPT !.v = Without(@, "index")])),
              Unlike(PutWith(Alone, [plain EXCEPT !.v = And(@, "index", "array", <<>>)])),
              Unlike(PutWith(Alone, Document1([b64 |-> FALSE, len |-> 12, v |-> Envelope]))),
              Unlike(PutWith(Alone, Document1([b64 |-> TRUE, len |-> 16, v |-> Envelope]))),
              Unlike(PutWith(Alone, Document1([b64 |-> TRUE, len |-> 11, v |-> Envelope]))),
              Unlike(PutWith(Alone, Document1([b64 |-> TRUE, len |-> 12,
                                               v |-> [Envelope EXCEPT !.hash = <<"h9">>]]))),
              Unlike(PutWith(Alone, Status1("bobs", Alice))), Unlike(PutWith(Alone, Status1("lost", Alice))),
              Sent(PutWith(Alone, Status1("lost", Alice)), [Local EXCEPT !.status = FALSE]),
              Unlike(PutWith(Token1(Operator), plain)),
              [Unlike(good) EXCEPT !.stored = {<<"h1">>}, !.described = {<<"h1">>}],
              [Unlike(good) EXCEPT !.described = {<<"h2">>}] >>

\* Catalog reads.
GetCases ==
    LET Reading(sub) == [Get(Alone) EXCEPT !.sub = sub]
        operatorWithout(k) == Token1(Without(Operator, k))
    IN  Map(<<Local, Ungated>> \o Deciding, LAMBDA n : Sent(Get(Alone), n))
        \o Map(<<<<Phone>>, <<Phone, Tablet>>>>, LAMBDA d : Sent([Get(Alone) EXCEPT !.devices = d], Local))
        \o Map(BadDevices, LAMBDA d : Sent(Altered([Get(Alone) EXCEPT !.devices = <<d>>]), Local))
        \o Map(BadHeaders(Alone), LAMBDA m : Sent(Altered(Get(m)), Local))
        \o << Sent(Get(Token1(Operator)), Local), Sent(Altered(Get(Token1(Operator))), Ungated),
              Sent(Altered(Get(operatorWithout("arkavo_roles"))), Local),
              Sent(Altered(Get(Token1(With(Operator, "aud", "text", <<"other">>)))), Local),
              Sent(Altered(Get(Token1(With(Operator, "sub", "text", <<"client:">>)))), Local),
              Sent(Get(Token1(With(Person, "aud", "text", <<"other">>))), Local),
              Sent(Altered([Get(Alone) EXCEPT !.devices = <<Phone, Phone, Phone>>]), Local),
              Sent(Altered(Get(Alone)), [Local EXCEPT !.provider = FALSE]),
              Sent(Altered(Reading(<<"..">>)), Local), Sent(Altered(Reading(<<"bob">>)), Local),
              Sent(Altered(Reading(<<"old">>)), Local) >>

\* Operators, documents, blobs and pushed archives.
OtherCases ==
    LET Acting(m, body) == Sent(Altered(Suspend(m, body)), Local)
        svc == Token1(Operator)
    IN  Map(BadHeaders(svc), LAMBDA m : Acting(m, Reason))
        \o << Sent(Suspend(svc, Reason), Local), Acting(Alone, Reason),
              Sent(Suspend(svc, Reason @@ ("reportId" :> Text(<<"r1">>))), Local),
              Acting(svc, Reason @@ ("reportId" :> Text(<<"..">>))),
              Acting(svc, Reason @@ ("reportId" :> [t |-> "bool", v |-> TRUE])),
              Sent(Suspend(svc, "reason" :> Text(<<" ", "a", "b", " ">>)), Local),
              Acting(svc, "reason" :> Text(<<" ">>)),
              Acting(svc, "reason" :> Text(<<>>)), Acting(svc, "reason" :> Text(<<"a", "b", "c">>)),
              Acting(svc, "note" :> Text(<<"a">>)),
              Acting(Token1(With(Operator, "sub", "text", <<"client:", "app">>)), Reason),
              Acting(Token1(With(With(Operator, "sub", "text", <<"client:", "app">>), "aud", "text", <<"app">>)), Reason),
              Sent(Altered(Suspend(svc, Reason)), [Local EXCEPT !.operators = {}]),
              Sent(Altered([Suspend(svc, Reason) EXCEPT !.sub = <<"..">>]), Local) >>
        \o Map(<< <<"DOC">>, <<"h9">> >>, LAMBDA h : Sent(Altered(OnHash1("document", h)), Local))
        \o Map(<< <<"doc">>, <<"old">> >>, LAMBDA h : Sent(OnHash1("document", h), Local))
        \o << Sent(OnHash1("blob", <<"h1">>), Local), Sent([OnHash1("document", <<"doc">>) EXCEPT !.revalidates = TRUE], Local),
              Sent(OnHash1("document", <<"doc">>), Ungated) >>
        \o Map(<< <<"H1">>, <<"h9">> >>, LAMBDA h : Sent(Altered(OnHash1("blob", h)), Local))
        \o Map(BadArchives(Recording) \o BadUrls(Recording), LAMBDA a : Sent(Altered(Push(a)), Local))
        \o Map(HonestArchives(Recording) \o HonestUrls(Recording), LAMBDA a : Sent(Push(a), Local))
        \o << Sent(Altered(Push([Recording EXCEPT !.len = 13])), Local),
              Sent(Altered(Push(Remanifest(Recording, ManifestOf(Video, <<Fqn(CreatorFqn)>>)))), Local),
              Sent(Altered(Push(Remanifest(Recording,
                [ManifestOf(Video, <<Fqn(CampaignFqn)>>) EXCEPT !.keyAccess[1].binding = <<>>]))), Local),
              Sent(Altered(Push(Recording)), [Local EXCEPT !.validation.assertion.keys = {}]),
              Sent(Altered(Push(Recording)), [Local EXCEPT !.validation.assertion.keys = {"a", "c"}]),
              Sent(Push(Recording), [Local EXCEPT !.validation.assertion.enabled = FALSE,
                                                  !.validation.assertion.keys = {}]) >>

\* Requests made while something is barred.
BarredCases ==
    LET Under(kind, what, c) == [c EXCEPT !.bars = {<<kind, what>>}, !.req.honest = FALSE]
    IN  Map(<<Local>> \o Deciding, LAMBDA n : Under("suspended", Alice, Sent(Session(Alone), n)))
        \o << Under("suspended", Alice, Sent(GoodPut(Alone), Local)),
              Under("suspended", Alice, Sent(Session(Token1(With(Person, "sub", "text", <<"arkavo:">> \o Alice))), Local)),
              Under("blocked", <<"doc">>, Sent(GoodPut(Alone), Local)),
              Under("blocked", <<"h1">>, Sent(GoodPut(Alone), Local)),
              Under("revoked", "cred", Sent(GoodPut(Alone), Local)),
              Under("hidden", Alice, Sent(Get(Alone), Local)),
              Under("blocked", <<"doc">>, Sent(Get(Token1(Operator)), Local)),
              Under("hidden", Alice, Sent(OnHash1("document", <<"doc">>), Local)),
              Under("hidden", Alice, Sent([OnHash1("document", <<"doc">>) EXCEPT !.revalidates = TRUE], Local)),
              Under("blocked", <<"doc">>, Sent(OnHash1("document", <<"doc">>), Local)),
              Under("blocked", <<"h1">>, Sent(OnHash1("blob", <<"h1">>), Local)) >>

MCCases == SessionCases \o PutCases \o GetCases \o OtherCases \o BarredCases

MCKeys == "k1" :> "p1"
MCNextKeys == "k2" :> "p2"
MCBarrable ==
    {<<"suspended", Alice>>, <<"hidden", Alice>>, <<"blocked", <<"doc">>>>,
     <<"blocked", <<"h1">>>>, <<"revoked", "cred">>}
MCCredentials == ("cred" :> Alice) @@ ("bobs" :> <<"bob">>)
MCCatalogs ==
    (Alice :> [hash |-> <<"doc">>, attribute |-> Some(CampaignFqn)])
    @@ (<<"old">> :> [hash |-> <<"old">>, attribute |-> None])
MCDocuments == (<<"doc">> :> Some(<<"arkavo:">> \o Alice)) @@ (<<"old">> :> None)
MCHashes == {<<"doc">>, <<"old">>, <<"h1">>, <<"h2">>, <<"h3">>, <<"h4">>, <<"h9">>}
MCIdentifiers == {"alice", "bob", "old", "arkavo:", "r1", "c1", "c2", "c3", "c4"}
MCCurvePoints == {<<"x1", "y1">>, <<"x2", "y2">>}
MCUuids == {Alice}
=============================================================================
