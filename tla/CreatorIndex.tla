---------------------------- MODULE CreatorIndex ----------------------------
(***************************************************************************)
(* The index of a catalog publish and the forms its fields must have:      *)
(* src/src/creator_catalog.rs.                                             *)
(*                                                                         *)
(* A JSON value is [t |-> type, v |-> value]; an object's value is the     *)
(* sequence of its members [k |-> key, t |-> type, v |-> value] as sent,   *)
(* so that a key can come twice, and an array's the sequence of its        *)
(* elements.  Texts are sequences of parts (module Tokens).  A timestamp   *)
(* is the record of its numbers, shaped when it is spelled                 *)
(* YYYY-MM-DDTHH:MM:SSZ.                                                    *)
(***************************************************************************)
EXTENDS Tokens

CONSTANTS
    Identifiers,     \* parts spelled in [A-Za-z0-9:._@-] only
    Hashes,          \* texts of 64 lowercase hex digits
    MaxOwner,        \* MAX_OWNER_BYTES, in parts
    MaxContentId,    \* MAX_CONTENT_ID_BYTES, in parts
    MaxEntries,      \* MAX_ENTRIES
    MaxVersion,      \* MAX_VERSION
    MaxPayloadSize   \* MAX_PAYLOAD_SIZE

ASSUME IndexAssumption ==
    {MaxOwner, MaxContentId, MaxEntries, MaxVersion, MaxPayloadSize} \subseteq Nat

-----------------------------------------------------------------------------
valid_identifier(s, max) ==
    /\ Len(s) \in 1 .. max
    /\ s # <<".">>
    /\ ".." \notin Entries(s)
    /\ Entries(s) \subseteq Identifiers

is_lower_hex_hash(s) == s \in Hashes

Leap(year) == (year % 4 = 0 /\ year % 100 # 0) \/ year % 400 = 0

DaysIn(year, month) ==
    CASE month \in {1, 3, 5, 7, 8, 10, 12} -> 31
      [] month \in {4, 6, 9, 11} -> 30
      [] month = 2 -> IF Leap(year) THEN 29 ELSE 28
      [] OTHER -> 0

\* A leap second is refused.
is_utc_timestamp(s) ==
    /\ s.shaped
    /\ s.day \in 1 .. DaysIn(s.year, s.month)
    /\ s.hour <= 23 /\ s.minute <= 59 /\ s.second <= 59

(***************************************************************************)
(* NoDuplicateKeys visits the whole value; a publish body nests three      *)
(* objects deep.                                                           *)
(***************************************************************************)
Inside(values) ==
    UNION {Entries(v.v) : v \in {w \in values : w.t \in {"object", "array"}}}

NoDuplicateKeys(value) ==
    LET inner == Inside({value})
    IN  \A v \in {value} \cup inner \cup Inside(inner) : v.t = "object" => NoRepeats(v.v)

\* serde's derived parse with deny_unknown_fields: exactly the named
\* fields, each once and of its type.
Fits(e, type) ==
    /\ type = "string" => e.t = "text"
    /\ type = "u64" => e.t = "int" /\ e.v \in UInt64
    /\ type = "i64" => e.t = "int" /\ e.v \in Int64
    /\ type = "object" => e.t = "object"

Struct(value, fields) ==
    /\ value.t = "object"
    /\ NoRepeats(value.v)
    /\ {e.k : e \in Entries(value.v)} = DOMAIN fields
    /\ \A e \in Entries(value.v) : Fits(e, fields[e.k])

Member(value, key) == CHOOSE e \in Entries(value.v) : e.k = key
Field(value, key) == Member(value, key).v

-----------------------------------------------------------------------------
EntryFields ==
    [contentID |-> "string", version |-> "u64", payloadHash |-> "string", payloadSize |-> "u64"]

EntryOk(raw) ==
    /\ Struct(raw, EntryFields)
    /\ valid_identifier(Field(raw, "contentID"), MaxContentId)
    /\ Field(raw, "version") \in 1 .. MaxVersion
    /\ is_lower_hex_hash(Field(raw, "payloadHash"))
    /\ Field(raw, "payloadSize") \in 1 .. MaxPayloadSize

entry(raw) == [k \in DOMAIN EntryFields |-> Field(raw, k)]

\* The entries of an index, or None for one that is refused.
parse_index(index) ==
    IF /\ index.t = "array"
       /\ Len(index.v) <= MaxEntries
       /\ \A i \in DOMAIN index.v : EntryOk(index.v[i])
       /\ \A i, j \in DOMAIN index.v :
            Field(index.v[i], "contentID") = Field(index.v[j], "contentID") => i = j
    THEN Some([i \in DOMAIN index.v |-> entry(index.v[i])])
    ELSE None
=============================================================================
