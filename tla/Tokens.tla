------------------------------- MODULE Tokens -------------------------------
(***************************************************************************)
(* The tokens and keys of src/src/auth.rs as operators: how a COSE key     *)
(* becomes a P-256 key, how a CWT's claims are parsed, and the checks of   *)
(* verify_with around the signature.  Fetching and caching keys is module  *)
(* KeySet; the request that presents a token is module Admission.          *)
(*                                                                         *)
(* A text is the sequence of its parts: <<"arkavo:", "alice">> is          *)
(* "arkavo:alice", <<>> the empty string.  Lengths count parts.  A CBOR    *)
(* value is a record [t |-> type, v |-> value]; a CBOR map is the sequence *)
(* of its entries [k |-> key, t |-> type, v |-> value] in the order they   *)
(* were sent, so that a key can come twice or with the wrong type.  An     *)
(* optional value is a set of at most one element.                         *)
(***************************************************************************)
EXTENDS Integers, Sequences, FiniteSets, TLC

CONSTANTS
    Width,           \* bits of an i64, scaled down
    Skew,            \* SKEW_SECS
    CurvePoints,     \* the pairs <<x, y>> that are points of P-256
    MaxEntitlements, \* MAX_ENTITLEMENTS
    MaxEntitlement   \* MAX_ENTITLEMENT_BYTES, in parts

ASSUME TokensAssumption ==
    /\ Width \in Nat \ {0}
    /\ Skew \in Nat
    /\ MaxEntitlements \in Nat
    /\ MaxEntitlement \in Nat

Half == 2 ^ (Width - 1)

ASSUME HalfAssumption == Half \in Nat \ {0}

-----------------------------------------------------------------------------
Int64 == - Half .. Half - 1
UInt64 == 0 .. 2 * Half - 1

NotAKey == "[]"                  \* a map key of a type its reader refuses
Entries(s) == {s[i] : i \in DOMAIN s}
None == {}
Some(x) == {x}
IsSome(o) == o # {}
The(o) == CHOOSE x \in o : TRUE
IsOption(o) == \A x, y \in o : x = y

StartsWith(prefix, text) == text # <<>> /\ Head(text) = prefix
StripPrefix(prefix, text) ==
    IF StartsWith(prefix, text) THEN Some(Tail(text)) ELSE None

\* Strip one leading `arkavo:`; `apple:` and `client:` stay.
subject_id_bind(s) == IF StartsWith("arkavo:", s) THEN Tail(s) ELSE s

-----------------------------------------------------------------------------
(***************************************************************************)
(* A COSE key is [kty, kid, params]; a coordinate is [len |-> bytes, v].   *)
(* A repeated parameter overrides the earlier one, except that a           *)
(* coordinate of another type is passed over.                              *)
(***************************************************************************)
LastOf(s) == IF s = <<>> THEN None ELSE Some(s[Len(s)])

p256_from_cose_key(key) ==
    LET crv == LastOf(SelectSeq(key.params, LAMBDA p : p.k = "crv"))
        x == LastOf(SelectSeq(key.params, LAMBDA p : p.k = "x" /\ p.t = "bytes"))
        y == LastOf(SelectSeq(key.params, LAMBDA p : p.k = "y" /\ p.t = "bytes"))
    IN  {pt \in CurvePoints :
            /\ key.kty = "EC2"
            /\ \E c \in crv : c.t = "int" /\ c.v = 1
            /\ \E p \in x : p.v.len = 32 /\ p.v.v = pt[1]
            /\ \E p \in y : p.v.len = 32 /\ p.v.v = pt[2]}

-----------------------------------------------------------------------------
(***************************************************************************)
(* Claims.  A registered claim (an integer label) is keyed by its name.    *)
(***************************************************************************)
NoRepeats(s) == \A i, j \in DOMAIN s : s[i].k = s[j].k => i = j

Claim(s, key, type) == {e.v : e \in {f \in Entries(s) : f.k = key /\ f.t = type}}

text_array(s) == [i \in DOMAIN s |-> s[i].v]
AllText(s) == \A i \in DOMAIN s : s[i].t = "text"

\* One entry that is not a short text, or one too many, leaves none.
entitlements(s) ==
    IF /\ Len(s) <= MaxEntitlements
       /\ AllText(s)
       /\ \A i \in DOMAIN s : Len(s[i].v) <= MaxEntitlement
    THEN text_array(s) ELSE <<>>

(***************************************************************************)
(* The key a token is bound to: the last kid under 2 or 3, or else the     *)
(* kid of the whole key under 1.  An empty kid under 2 or 3 hides the key. *)
(***************************************************************************)
ConfirmationOk(m) == NoRepeats(SelectSeq(m, LAMBDA e : e.k # NotAKey))

parse_cnf_kid(m) ==
    LET Kid(e) == e.k \in {"2", "3"} /\ e.t = "bytes"
        Key(e) == e.k = "1" /\ e.t = "cose_key" /\ e.v # ""
        kid == LastOf(SelectSeq(m, Kid))
        found == IF IsSome(kid) THEN kid ELSE LastOf(SelectSeq(m, Key))
    IN  {e.v : e \in found} \ {""}

(***************************************************************************)
(* cbor_to_json, for the nesting the patreon claim has: an object of       *)
(* scalars and of lists of scalars.  An integer outside i64 and u64 and    *)
(* bytes become strings, a float that is no number becomes null, a key     *)
(* that is not text is dropped, and the last of two equal keys wins.       *)
(***************************************************************************)
JsonScalar(c) ==
    CASE c.t = "text" -> [t |-> "string", v |-> c.v]
      [] c.t = "int" /\ c.v \in Int64 \cup UInt64 -> [t |-> "number", v |-> c.v]
      [] c.t = "int" /\ c.v \notin Int64 \cup UInt64 ->
            [t |-> "string", v |-> <<ToString(c.v)>>]
      [] c.t = "float" -> [t |-> "number", v |-> c.v]
      [] c.t = "bool" -> [t |-> "bool", v |-> c.v]
      [] c.t = "bytes" -> [t |-> "string", v |-> <<"base64:", c.v>>]
      [] c.t \in {"null", "nan"} -> [t |-> "null", v |-> <<>>]
      [] OTHER -> [t |-> "string", v |-> <<"debug:", c.t>>]

cbor_to_json(m) ==
    LET Json(c) == IF c.t = "array"
                   THEN [t |-> "array", v |-> [i \in DOMAIN c.v |-> JsonScalar(c.v[i])]]
                   ELSE JsonScalar(c)
    IN  [k \in {e.k : e \in Entries(m)} \ {NotAKey} |->
            Json(The(LastOf(SelectSeq(m, LAMBDA e : e.k = k))))]

JsonText(o, key) ==
    IF key \in DOMAIN o /\ o[key].t = "string" THEN Some(o[key].v) ELSE None

(***************************************************************************)
(* parse_claims: None for a payload it refuses.  A claim it does not know, *)
(* or an optional one of another type, is passed over; a nbf of another    *)
(* type, a typ of any, and a repeated key are refused.                     *)
(***************************************************************************)
AudOf(s) ==
    Claim(s, "aud", "text") \cup UNION {Entries(text_array(a)) : a \in Claim(s, "aud", "array")}

ClaimsOk(s) ==
    /\ \A e \in Entries(s) : e.k \notin {NotAKey, "typ"}
    /\ NoRepeats(s)
    /\ \A a \in Claim(s, "aud", "array") : AllText(a)
    /\ \A e \in Entries(s) : e.k = "nbf" => e.t = "int" /\ e.v \in Int64
    /\ \A m \in Claim(s, "cnf", "map") : ConfirmationOk(m)
    /\ \A a \in Claim(s, "arkavo_roles", "array") : AllText(a)
    \* the required ones, none of them empty
    /\ \A k \in {"iss", "sub"} : Claim(s, k, "text") \notin {None, Some(<<>>)}
    /\ AudOf(s) # {} /\ <<>> \notin AudOf(s)
    /\ \A k \in {"exp", "iat"} : Claim(s, k, "int") \cap Int64 # {}
    /\ Claim(s, "cti", "bytes") \notin {None, Some("")}

parse_claims(payload) ==
    IF ~ (payload.map /\ ClaimsOk(payload.entries)) THEN None
    ELSE LET s == payload.entries
             patreon == {cbor_to_json(m) : m \in Claim(s, "arkavo_patreon", "map")}
         IN  Some([iss |-> The(Claim(s, "iss", "text")),
                   sub |-> The(Claim(s, "sub", "text")),
                   aud |-> AudOf(s),
                   exp |-> The(Claim(s, "exp", "int")),
                   iat |-> The(Claim(s, "iat", "int")),
                   nbf |-> Claim(s, "nbf", "int"),
                   kid |-> UNION {parse_cnf_kid(m) : m \in Claim(s, "cnf", "map")},
                   patreon_user_id |-> UNION {JsonText(p, "patreon_user_id") : p \in patreon},
                   email |-> Claim(s, "email", "text"),
                   email_verified |-> Claim(s, "email_verified", "bool"),
                   idp |-> Claim(s, "idp", "text"),
                   arkavo_account_id |-> Claim(s, "arkavo_account_id", "text"),
                   arkavo_roles |-> {text_array(a) : a \in Claim(s, "arkavo_roles", "array")},
                   arkavo_entitlements |->
                       IF IsSome(Claim(s, "arkavo_entitlements", "array"))
                       THEN entitlements(The(Claim(s, "arkavo_entitlements", "array")))
                       ELSE <<>>,
                   client_id |-> Claim(s, "client_id", "text"),
                   arkavo_patreon |-> patreon])

-----------------------------------------------------------------------------
(***************************************************************************)
(* A COSE_Sign1 is [alg, crit, kid, ctype, by, payload]: by is the key its *)
(* signature verifies under (over these very bytes), ctype the optional    *)
(* content type.  A token is such a message behind the CWT tag.            *)
(***************************************************************************)
Es256 == "ES256"

\* The checks of verify_sign1 before it looks for the key.
HeaderOk(m) == m.alg = Es256 /\ ~ m.crit /\ m.kid # ""

Signed(m, key) == m.by = key

\* The checks of verify_with before the signature.
IsCwt(m) == m.form = "cwt" /\ m.ctype = None

\* The checks of verify_with after the claims are parsed.
IssuerOk(claims, iss) == iss \subseteq {claims.iss}
LiveAt(claims, now) ==
    /\ claims.iat <= claims.exp
    /\ claims.exp > now - Skew
    /\ claims.iat <= now + Skew
    /\ \A nbf \in claims.nbf : nbf <= now + Skew

\* verify_with once the signature holds: the claims, or None for an error.
VerifiedClaims(m, iss, aud, now) ==
    {c \in UNION {parse_claims(p) : p \in m.payload} :
        /\ IssuerOk(c, iss)
        /\ aud \subseteq c.aud
        /\ LiveAt(c, now)}

DevicecheckAud == <<"arkavo:", "devicecheck">>

\* verify_device once the signature holds.
VerifiedDevice(m, iss, now) ==
    {c \in VerifiedClaims(m, iss, Some(DevicecheckAud), now) : IsSome(c.kid)}
=============================================================================
