----------------------------- MODULE Envelopes -----------------------------
(***************************************************************************)
(* A catalog's envelope and its recordings, judged by their manifests:     *)
(* src/src/catalog_metadata.rs, and the checks of a catalog publish that   *)
(* use it (envelope_attribute, owns_campaign).                             *)
(***************************************************************************)
EXTENDS Archives

CONSTANTS
    Uuids              \* texts that are lowercase UUIDs

CatalogMimeType == <<"application/vnd.arkavo.creator-catalog+json">>
CampaignAttribute == <<"patreon.arkavo.com", "campaign">>  \* CAMPAIGN_FQN_PREFIX
CreatorAttribute == <<"arkavo.net", "creator">>            \* CREATOR_FQN_PREFIX

-----------------------------------------------------------------------------
\* A manifest with a policy that is a JSON object and a KAS for every key.
read_manifest(manifest) ==
    {m \in {manifest} :
        /\ m.policy.b64 /\ m.policy.object
        /\ \A i \in DOMAIN m.keyAccess : IsSome(m.keyAccess[i].url)}

\* What the formats make of any document: a member is at most one manifest,
\* a list is a sequence, and an attribute's FQN is a text.
DocumentForm(a) ==
    \A n \in DOMAIN a.members :
        /\ IsOption(a.members[n].manifest)
        /\ \A m \in UNION {read_manifest(x) : x \in a.members[n].manifest} :
            \A l \in BodyList(m.policy, "dataAttributes") :
                /\ DOMAIN l = 1 .. Len(l)
                /\ \A x \in Entries(l) : x.form = "fqn" => x.fqn \in Seq(STRING)

policy_id(policy) ==
    {policy.keys[k].v : k \in {j \in DOMAIN policy.keys \cap {"uuid"} : policy.keys[j].t = "text"}}
    \ {<<>>}

\* Every FQN the policy names, or None when one attribute cannot be read.
extract_attribute_fqns(policy) ==
    {UNION {FqnsOf(a) : a \in Entries(l)} :
        l \in {x \in BodyList(policy, "dataAttributes") :
                /\ "body" \in DOMAIN policy.keys
                /\ \A a \in Entries(x) : a.form # "other"}}

has_attribute(manifest, fqn) == \E fqns \in extract_attribute_fqns(manifest.policy) : fqn \in fqns

-----------------------------------------------------------------------------
ValueOf(fqn, attribute) ==
    IF Len(fqn) > 2 /\ SubSeq(fqn, 1, 2) = attribute
    THEN Some(SubSeq(fqn, 3, Len(fqn))) ELSE None

Campaign(fqn) == {id \in ValueOf(fqn, CampaignAttribute) : Len(id) = 1 /\ id[1] \in Digits}
Creator(fqn, sub) == ValueOf(fqn, CreatorAttribute) = Some(sub) /\ sub \in Uuids

(***************************************************************************)
(* check_envelope: the one attribute of a catalog of sub.  An attribute    *)
(* the platform never grants would make a catalog that nobody can open.    *)
(***************************************************************************)
check_envelope(manifest, sub) ==
    LET policy == manifest.policy IN
    {fqn \in UNION {{a.fqn : a \in {x \in Entries(l) : x.form = "fqn"}} :
                    l \in {x \in BodyList(policy, "dataAttributes") : Len(x) = 1}} :
        /\ manifest.mimeType = Some(CatalogMimeType)
        /\ DOMAIN policy.keys = {"body", "uuid"}
        /\ IsSome(policy_id(policy))
        /\ BodyList(policy, "dissem") = Some(<<>>)
        /\ IsSome(Campaign(fqn)) \/ Creator(fqn, sub)}

envelope_attribute(document, sub) ==
    UNION {check_envelope(m, sub) :
            m \in UNION {read_manifest(x) : x \in validate_tdf_structure(document)}}

\* Identity names the subject the creator of this campaign.
owns_campaign(claims, id) ==
    \E p \in claims.arkavo_patreon :
        JsonText(p, "role") = Some(<<"creator">>) /\ JsonText(p, "campaign_id") = Some(id)

\* Mutated form of CampaignOk: the creator of any campaign will do.
CampaignOkAnyCreator(claims, fqn) ==
    ValueOf(fqn, CampaignAttribute) # None =>
        \E p \in claims.arkavo_patreon : JsonText(p, "role") = Some(<<"creator">>)

\* A campaign's catalog comes from its creator.
CampaignOk(claims, fqn) ==
    \A id \in ValueOf(fqn, CampaignAttribute) : owns_campaign(claims, id)
=============================================================================
