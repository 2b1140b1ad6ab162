------------------------------ MODULE Archives ------------------------------
(***************************************************************************)
(* Validation of a TDF archive: src/src/validation/.  Ingest runs the      *)
(* whole of it on a pushed file (module PushIngest takes its outcome), and *)
(* a catalog publish runs the structure part on the envelope it is sent.   *)
(*                                                                         *)
(* An archive is [len, directory, ends, opens, members].  ends are its     *)
(* end-of-central-directory records: each is [back, whole, files, offset,  *)
(* locator], back bytes before the archive's end; an optional locator      *)
(* [start, records] leads to ZIP64 end records [at, onDisk, files], at     *)
(* bytes after start, all of them before the locator.  members maps a      *)
(* name to [declared, actual, crc, manifest]: the size the directory       *)
(* states, the size it inflates to, whether its checksum holds, and what   *)
(* it parses to when it is read as a manifest.                             *)
(***************************************************************************)
EXTENDS Tokens

CONSTANTS
    MaxManifest,       \* MAX_MANIFEST_BYTES
    MaxMembers,        \* MAX_ARCHIVE_ENTRIES, also u16::MAX
    MaxDirectoryRead,  \* MAX_CENTRAL_DIRECTORY_READ
    MaxZip64,          \* MAX_ZIP64_CANDIDATES
    MaxOffset,         \* u32::MAX
    Digits             \* parts that are one or more ASCII digits

ASSUME ArchivesAssumption ==
    {MaxManifest, MaxMembers, MaxDirectoryRead, MaxZip64, MaxOffset} \subseteq Nat
ASSUME DigitsAssumption == "0" \in Digits

\* What the format makes of any archive: its end records and what they lead
\* to lie inside it, and the count of an end record is a u16.
ArchiveForm(a) ==
    /\ a.len \in Nat
    /\ \A i \in DOMAIN a.ends :
        /\ a.ends[i].back \in 0 .. a.len
        /\ a.ends[i].files \in 0 .. MaxMembers
        /\ \A l \in a.ends[i].locator : \A r \in l.records :
            r.at \in 0 .. a.len /\ r.files \in Nat /\ r.onDisk \in Nat

-----------------------------------------------------------------------------
(***************************************************************************)
(* check_zip64_entry_counts looks at every end record the ZIP reader could *)
(* use.  A locator that points past itself leads nowhere.                  *)
(***************************************************************************)
Window(a) == IF a.len < MaxDirectoryRead THEN a.len ELSE MaxDirectoryRead

Defers(end) == end.files = MaxMembers \/ end.offset = MaxOffset

Deferring(a) ==
    {i \in DOMAIN a.ends : a.ends[i].back <= Window(a) /\ a.ends[i].whole /\ Defers(a.ends[i])}

Zip64Records(a, i) ==
    {r \in UNION {l.records : l \in a.ends[i].locator} : r.at <= Window(a)}

\* Mutated form of EntryCountsOk: the count of this disk is not looked at.
EntryCountsOkInTotal(a) ==
    /\ Cardinality(Deferring(a)) <= MaxZip64
    /\ \A i \in Deferring(a) : \A r \in Zip64Records(a, i) : r.files <= MaxMembers

EntryCountsOk(a) ==
    /\ Cardinality(Deferring(a)) <= MaxZip64
    /\ \A i \in Deferring(a) : \A r \in Zip64Records(a, i) :
            r.files <= MaxMembers /\ r.onDisk <= MaxMembers

(***************************************************************************)
(* The ZIP reader (external): it searches backwards for an end record,     *)
(* follows its locator forward, and reserves memory for as many members as *)
(* the record it takes lists, before reading one.  BudgetReader stops it   *)
(* once it has read MaxDirectoryRead bytes.                                *)
(***************************************************************************)
Listed(a, i) ==
    {a.ends[i].files}
    \cup UNION {{r.files, r.onDisk} :
            r \in {x \in UNION {l.records : l \in a.ends[i].locator} :
                    Defers(a.ends[i]) /\ a.ends[i].back + x.at <= MaxDirectoryRead}}

Reserved(a) ==
    UNION {Listed(a, i) : i \in {j \in DOMAIN a.ends :
                                    a.ends[j].whole /\ a.ends[j].back <= MaxDirectoryRead}}

Opens(a) == a.opens /\ a.directory <= MaxDirectoryRead

-----------------------------------------------------------------------------
(***************************************************************************)
(* Members.  Names are texts.                                              *)
(***************************************************************************)
Manifest == <<"manifest.json">>
LegacyManifest == <<"0", ".manifest.json">>
DefaultPayload == <<"0.payload">>

ManifestName(a) ==
    IF Manifest \in DOMAIN a.members THEN Some(Manifest)
    ELSE {LegacyManifest} \cap DOMAIN a.members

\* At most MaxManifest bytes by the directory and as inflated.
ManifestIn(a) ==
    UNION {a.members[n].manifest :
            n \in {m \in ManifestName(a) :
                    /\ a.members[m].declared <= MaxManifest
                    /\ a.members[m].actual <= MaxManifest
                    /\ a.members[m].crc}}

\* payload.url, when it stays inside the archive and is not shaped like a
\* manifest's name.
payload_member(manifest) ==
    LET url == manifest.url IN
    IF url = <<>> THEN Some(DefaultPayload)
    ELSE {u \in {url} :
            /\ Head(u) # "/"
            /\ Entries(u) \cap {"\\", ".."} = {}
            /\ u # Manifest
            /\ ~ (Len(u) = 2 /\ u[1] \in Digits /\ u[2] = ".manifest.json")}

\* The payload is read to its end: the checksum is compared there.
PayloadOk(a, name) ==
    /\ name \in DOMAIN a.members
    /\ a.members[name].declared <= a.len
    /\ a.members[name].actual = a.members[name].declared
    /\ a.members[name].crc

\* The manifest of a well-formed archive, or None.
validate_tdf_structure(a) ==
    {m \in ManifestIn(a) :
        /\ EntryCountsOk(a)
        /\ Opens(a)
        /\ Cardinality(DOMAIN a.members) <= MaxMembers
        /\ \E name \in payload_member(m) : PayloadOk(a, name)}

-----------------------------------------------------------------------------
(***************************************************************************)
(* The policy.  A manifest is [url, mimeType, policy, keyAccess]; a policy *)
(* is [b64, object, keys]: whether it is base64 and a JSON object, and the *)
(* object's members as a function.  The body's lists are sequences.  A     *)
(* data attribute is [form |-> "fqn", fqn] as the specification spells it, *)
(* [form |-> "policy", leaves] for the conditions of opentdf-rs, or any    *)
(* other form.  An attribute FQN is <<namespace, name>> or <<namespace,    *)
(* name, value>>.                                                          *)
(***************************************************************************)
Printed(value) ==
    CASE value.t = "text" -> {value.v}
      [] value.t \in {"number", "bool"} -> {ToString(value.v)}
      [] value.t = "date" -> {value.v}
      [] value.t = "texts" -> Entries(value.v)
      [] value.t = "numbers" -> {ToString(n) : n \in Entries(value.v)}

\* The FQNs a condition names: one per value, or the bare attribute.
collect_fqns(leaf) ==
    IF leaf.value = None THEN {<<leaf.ns, leaf.name>>}
    ELSE {<<leaf.ns, leaf.name, s>> : s \in UNION {Printed(v) : v \in leaf.value}}

FqnsOf(attribute) ==
    IF attribute.form = "fqn" THEN {attribute.fqn}
    ELSE UNION {collect_fqns(leaf) : leaf \in attribute.leaves}

\* body.<key>: absent and null are the empty list, another type is None.
BodyList(policy, key) ==
    LET body == policy.keys["body"]
        absent == \/ "body" \notin DOMAIN policy.keys
                  \/ body.t # "object"
                  \/ key \notin DOMAIN body.v
                  \/ body.v[key].t = "null"
    IN  IF absent THEN Some(<<>>)
        ELSE IF body.v[key].t = "array" THEN Some(body.v[key].v) ELSE None

\* What the text of a policy contains, as attribute_in_policy searches it:
\* the parts of every FQN it names, wherever they stand (parts are atoms:
\* one that is spelled inside another is not modelled).
Mentions(policy) ==
    UNION {UNION {Entries(f) : f \in FqnsOf(a)} :
            a \in UNION {{x \in Entries(l) : x.form # "other"} :
                         l \in BodyList(policy, "dataAttributes")}}

\* The namespace, the name and the value of each required attribute are
\* looked for one by one, anywhere in the policy.
validate_attributes(manifest, required) ==
    \/ required = {}
    \/ /\ manifest.policy.b64
       /\ \A fqn \in required : Entries(fqn) \subseteq Mentions(manifest.policy)

\* With the check on, a policy binding on every key access object, and
\* every configured key file readable.
validate_assertion(manifest, assertion) ==
    \/ ~ assertion.enabled
    \/ /\ assertion.keys # {}
       /\ \A i \in DOMAIN manifest.keyAccess : manifest.keyAccess[i].binding # <<>>
       /\ assertion.keys \subseteq assertion.readable

check_blob_size(size, validation) == size <= validation.max_blob_bytes

validate_archive(a, validation) ==
    {m \in validate_tdf_structure(a) :
        /\ check_blob_size(a.len, validation)
        /\ validate_attributes(m, validation.required_attributes)
        /\ validate_assertion(m, validation.assertion)}
=============================================================================
