------------------------------ MODULE Bundles ------------------------------
(***************************************************************************)
(* The signed bundle of a catalog publish: src/src/catalog_v2.rs.  The IdP *)
(* attests which passkey is whose, the passkey signs the pointer, and the  *)
(* pointer names the catalog document.                                     *)
(*                                                                         *)
(* A field of the bundle is [b64, len, v]: whether it is unpadded          *)
(* base64url, how long it decodes and what it decodes to.  SHA-256 is the  *)
(* constructor Sha256; a signature is [der, by, over], the key that made   *)
(* it and what it signed.                                                  *)
(***************************************************************************)
EXTENDS CreatorIndex

CONSTANTS
    MaxSeq,                \* MAX_SEQ
    MaxCatalog,            \* MAX_CATALOG_BYTES
    MaxPointer,            \* MAX_POINTER_BYTES
    MaxCredentialId,       \* MAX_CREDENTIAL_ID_BYTES
    MaxAuthenticatorData,  \* MAX_AUTHENTICATOR_DATA_BYTES
    MaxClientData,         \* MAX_CLIENT_DATA_BYTES
    MaxSignature,          \* MAX_SIGNATURE_BYTES
    MaxAttestation         \* MAX_ATTESTATION_BYTES

ASSUME BundlesAssumption ==
    {MaxSeq, MaxCatalog, MaxPointer, MaxCredentialId, MaxAuthenticatorData,
     MaxClientData, MaxSignature, MaxAttestation} \subseteq Nat

-----------------------------------------------------------------------------
Sha256(x) == <<"sha256", x>>

b64(field, max) == IF field.b64 /\ field.len \in 1 .. max THEN Some(field.v) ELSE None

BundleFields == [pointer |-> "string", assertion |-> "object", credential |-> "string"]

AssertionFields ==
    [credentialId |-> "string", authenticatorData |-> "string",
     clientDataJSON |-> "string", signature |-> "string"]

\* The bundle a JSON object spells, or None.
parse_bundle(value) ==
    IF Struct(value, BundleFields) /\ Struct(Member(value, "assertion"), AssertionFields)
    THEN Some([pointer |-> Field(value, "pointer"),
               credential |-> Field(value, "credential"),
               assertion |-> [k \in DOMAIN AssertionFields |->
                                Field(Member(value, "assertion"), k)]])
    ELSE None

-----------------------------------------------------------------------------
PointerSchema == <<"arkavo.catalog-pointer/1">>

PointerFields ==
    [schema |-> "string", owner |-> "string", seq |-> "u64", catalogHash |-> "string",
     catalogSize |-> "u64", issuedAt |-> "string"]

\* Whether the bytes [utf8, json] are a pointer.
PointerOk(bytes) ==
    LET p == bytes.json IN
    /\ bytes.utf8
    /\ NoDuplicateKeys(p)
    /\ Struct(p, PointerFields)
    /\ Field(p, "schema") = PointerSchema
    /\ valid_identifier(Field(p, "owner"), MaxOwner)
    /\ Field(p, "seq") \in 1 .. MaxSeq
    /\ is_lower_hex_hash(Field(p, "catalogHash"))
    /\ Field(p, "catalogSize") \in 1 .. MaxCatalog
    /\ is_utc_timestamp(Field(p, "issuedAt"))

parse_pointer(bytes) ==
    IF PointerOk(bytes) THEN Some([k \in DOMAIN PointerFields |-> Field(bytes.json, k)])
    ELSE None

\* The part of verify_bundle before the attestation.
PointerFor(bundle, owner) ==
    {p \in UNION {parse_pointer(b) : b \in b64(bundle.pointer, MaxPointer)} : p.owner = owner}

-----------------------------------------------------------------------------
PasskeyCredentialTyp == <<"arkavo-passkey-credential">>
CredentialContentType == "application/arkavo-passkey-credential+cbor"

\* The part of verify_credential before the signature: the content type
\* keeps a token, signed with the same keys, from passing as one.
AttestationOf(bundle) ==
    {m \in b64(bundle.credential, MaxAttestation) :
        m.form = "sign1" /\ m.ctype = Some(CredentialContentType)}

CredentialTypes ==
    [typ |-> "text", iss |-> "text", sub |-> "text", credentialId |-> "bytes",
     publicKey |-> "cose_key", rpId |-> "text", iat |-> "int"]

\* Exactly these keys, each once and of its type.
CredentialOk(s) ==
    /\ NoRepeats(s)
    /\ {e.k : e \in Entries(s)} = DOMAIN CredentialTypes
    /\ \A e \in Entries(s) : e.t = CredentialTypes[e.k]
    /\ PasskeyCredentialTyp \in Claim(s, "typ", "text")
    /\ <<>> \notin Claim(s, "sub", "text")
    /\ "" \notin Claim(s, "credentialId", "bytes")
    /\ \A k \in Claim(s, "publicKey", "cose_key") : IsSome(p256_from_cose_key(k))
    /\ Claim(s, "iat", "int") \subseteq Int64

parse_credential(payload) ==
    LET s == payload.entries
        Value(key) == The(Claim(s, key, CredentialTypes[key]))
    IN  IF ~ (payload.map /\ CredentialOk(s)) THEN None
        ELSE Some([iss |-> Value("iss"), sub |-> Value("sub"),
                   credential_id |-> Value("credentialId"),
                   public_key |-> The(p256_from_cose_key(Value("publicKey"))),
                   rp_id |-> Value("rpId"), iat |-> Value("iat")])

\* verify_credential once the signature holds.
VerifiedCredential(m, iss, now) ==
    {c \in UNION {parse_credential(p) : p \in m.payload} :
        IssuerOk(c, iss) /\ c.iat <= now + Skew}

check_credential(credential, pointer, rp) ==
    credential.sub = pointer.owner /\ credential.rp_id = rp

-----------------------------------------------------------------------------
Origin(rp) == <<"https://">> \o rp      \* Passkeys::for_rp

\* Mutated form of ClientDataOk: the challenge is not compared.
ClientDataUnchallenged(cd, pointerBytes, rp) ==
    /\ cd.json
    /\ cd.type = Some("webauthn.get")
    /\ cd.origin = Some(Origin(rp))
    /\ cd.crossOrigin # Some(TRUE)

ClientDataOk(cd, pointerBytes, rp) ==
    /\ cd.json
    /\ cd.type = Some("webauthn.get")
    /\ cd.challenge = Some(Sha256(pointerBytes))
    /\ cd.origin = Some(Origin(rp))
    /\ cd.crossOrigin # Some(TRUE)

\* rpIdHash, flags and counter take 37 bytes.
AuthDataOk(field, rp) ==
    /\ field.len >= 37
    /\ field.v.rpIdHash = Sha256(rp)
    /\ field.v.up /\ field.v.uv

verify_assertion(pointerBytes, a, key, rp) ==
    /\ IsSome(b64(a.authenticatorData, MaxAuthenticatorData))
    /\ IsSome(b64(a.clientDataJSON, MaxClientData))
    /\ IsSome(b64(a.signature, MaxSignature))
    /\ ClientDataOk(a.clientDataJSON.v, pointerBytes, rp)
    /\ AuthDataOk(a.authenticatorData, rp)
    /\ a.signature.v.der
    /\ a.signature.v.by = key
    /\ a.signature.v.over = <<a.authenticatorData.v, Sha256(a.clientDataJSON.v)>>

\* The part of verify_bundle after the attestation: the attested passkey
\* signed this pointer.
BundleOk(bundle, pointer, credential, rp) ==
    /\ check_credential(credential, pointer, rp)
    /\ b64(bundle.assertion.credentialId, MaxCredentialId) = Some(credential.credential_id)
    /\ verify_assertion(bundle.pointer.v, bundle.assertion, credential.public_key, rp)
=============================================================================
