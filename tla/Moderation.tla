----------------------------- MODULE Moderation -----------------------------
(***************************************************************************)
(* Suspensions, blocks and catalog blocks (src/src/moderation.rs): the     *)
(* records in S3, each node's in-memory view, the operators' requests and  *)
(* the reload that every node repeats.                                     *)
(*                                                                         *)
(* A key is a subject or a hash under one of the three record kinds.  Each *)
(* request names one key on one node and runs audit, persist and apply;    *)
(* a reload reads the kinds in order, one object after another, and then   *)
(* replaces the view.                                                      *)
(***************************************************************************)
EXTENDS Naturals

CONSTANTS Node, Key, Op,
          NoOp,      \* no request
          Rank,      \* the order in which reload lists a key's kind: 1, 2, 3
          MaxFailures  \* bound: failed calls and restarts

ASSUME NoOpAssumption == NoOp \notin Op
ASSUME RankAssumption == Rank \in [Key -> 1..3]
ASSUME FailuresAssumption == MaxFailures \in Nat

\* A stored record: who set it, whether it hides the catalog, and who lifted
\* it.
Record == [set : Op, hide : BOOLEAN, lift : Op \cup {NoOp}]
Missing == [set |-> NoOp, hide |-> FALSE, lift |-> NoOp]

VARIABLES
    records,   \* S3 moderation/<kind>/<key>
    audited,   \* S3 moderation/audit/: the events, by key and record
    view,      \* Moderation's maps, per node: active records
    up,        \* nodes that serve requests
    todo,      \* what a node's reload has still to read
    fresh,     \* what it has read
    phase,     \* where each request is
    job,       \* its node, key and the record it writes
    delayed,   \* failed record writes that may still take effect
    failures,  \* faults so far
    overtaken  \* history: keys written after the node's reload read them

reloadVars == <<todo, fresh, overtaken>>
opVars == <<phase, job, delayed>>
moderationVars == <<records, audited, view, up, reloadVars, opVars, failures>>

Idle == [k \in Key |-> Missing]
Active(r) == IF r.lift = NoOp THEN r ELSE Missing

ModerationTypeOK ==
    /\ records \in [Key -> Record \cup {Missing}]
    /\ audited \subseteq Key \X Record
    /\ view \in [Node -> [Key -> Record \cup {Missing}]]
    /\ up \in [Node -> BOOLEAN]
    /\ todo \in [Node -> SUBSET Key]
    /\ fresh \in [Node -> [Key -> Record \cup {Missing}]]
    /\ phase \in [Op -> {"new", "audit", "persist", "apply", "done", "failed"}]
    /\ job \in [Op -> [node : Node, key : Key, rec : Record \cup {Missing}]]
    /\ delayed \subseteq Op
    /\ failures \in 0..MaxFailures
    /\ overtaken \in [Node -> SUBSET Key]

\* Every node starts with a reload, before it serves anything.
ModerationInit ==
    /\ records = Idle
    /\ audited = {}
    /\ view = [n \in Node |-> Idle]
    /\ up = [n \in Node |-> FALSE]
    /\ todo = [n \in Node |-> Key]
    /\ fresh = [n \in Node |-> Idle]
    /\ phase = [o \in Op |-> "new"]
    /\ job \in [Op -> [node : Node, key : Key, rec : {Missing}]]
    /\ delayed = {}
    /\ failures = 0
    /\ overtaken = [n \in Node |-> {}]

-----------------------------------------------------------------------------
(* suspend, block, block_catalog and their lifts.                          *)

Begin(o, rec) ==
    /\ phase[o] = "new"
    /\ up[job[o].node]
    /\ job' = [job EXCEPT ![o].rec = rec]
    /\ phase' = [phase EXCEPT ![o] = "audit"]
    /\ UNCHANGED <<records, audited, view, up, reloadVars, delayed, failures>>

Set(o) == \E hide \in BOOLEAN :
             Begin(o, [set |-> o, hide |-> hide, lift |-> NoOp])

\* The record that is lifted comes from the node's view (404 without one).
Lift(o) ==
    /\ view[job[o].node][job[o].key] # Missing
    /\ Begin(o, [view[job[o].node][job[o].key] EXCEPT !.lift = o])

\* Mutated form of Audit: the event is written after the record.
AuditLater(o) ==
    /\ phase[o] = "audit"
    /\ phase' = [phase EXCEPT ![o] = "persist"]
    /\ UNCHANGED <<records, audited, view, up, reloadVars, job, delayed, failures>>

Audit(o) ==
    /\ phase[o] = "audit"
    /\ audited' = audited \cup {<<job[o].key, job[o].rec>>}
    /\ phase' = [phase EXCEPT ![o] = "persist"]
    /\ UNCHANGED <<records, view, up, reloadVars, job, delayed, failures>>

\* The record is written; reloads that have read the key do not see it.
Store(o) ==
    /\ records' = [records EXCEPT ![job[o].key] = job[o].rec]
    /\ overtaken' = [n \in Node |-> IF job[o].key \in todo[n] THEN overtaken[n]
                                      ELSE overtaken[n] \cup {job[o].key}]

Persist(o) ==
    /\ phase[o] = "persist"
    /\ Store(o)
    /\ phase' = [phase EXCEPT ![o] = "apply"]
    /\ UNCHANGED <<audited, view, up, todo, fresh, job, delayed, failures>>

\* Either write fails (502); it may have taken effect, or do so later.
WriteFails(o) ==
    /\ phase[o] \in {"audit", "persist"}
    /\ failures < MaxFailures
    /\ failures' = failures + 1
    /\ phase' = [phase EXCEPT ![o] = "failed"]
    /\ delayed' = IF phase[o] = "persist" THEN delayed \cup {o} ELSE delayed
    /\ UNCHANGED <<records, audited, view, up, reloadVars, job>>

LateRecord(o) ==
    /\ o \in delayed
    /\ Store(o)
    /\ delayed' = delayed \ {o}
    /\ UNCHANGED <<audited, view, up, todo, fresh, phase, job, failures>>

\* apply_suspension, apply_block, apply_catalog_block; then 200.
Apply(o) ==
    /\ phase[o] = "apply"
    /\ view' = [view EXCEPT ![job[o].node][job[o].key] = Active(job[o].rec)]
    /\ phase' = [phase EXCEPT ![o] = "done"]
    /\ UNCHANGED <<records, audited, up, reloadVars, job, delayed, failures>>

-----------------------------------------------------------------------------
(* Moderation::reload, at startup and every moderation_refresh_secs.       *)

\* The object of key k is read; reload reads kind after kind.  An object that
\* was not listed is read as none.
ReloadRead(n, k) ==
    /\ k \in todo[n]
    /\ \A j \in todo[n] : Rank[k] <= Rank[j]
    /\ fresh' = [fresh EXCEPT ![n][k] = Active(records[k])]
    /\ todo' = [todo EXCEPT ![n] = @ \ {k}]
    /\ UNCHANGED <<records, audited, view, up, opVars, failures, overtaken>>

\* The next reload of n begins.
Again(n) ==
    /\ todo' = [todo EXCEPT ![n] = Key]
    /\ fresh' = [fresh EXCEPT ![n] = Idle]
    /\ overtaken' = [overtaken EXCEPT ![n] = {}]

\* Mutated form of ReloadApply: the view is extended and never shrinks.
ReloadApplyMerges(n) ==
    /\ todo[n] = {}
    /\ view' = [view EXCEPT ![n] = [k \in Key |-> IF fresh[n][k] = Missing
                                       THEN view[n][k] ELSE fresh[n][k]]]
    /\ up' = [up EXCEPT ![n] = TRUE]
    /\ Again(n)
    /\ UNCHANGED <<records, audited, opVars, failures>>

\* The three maps are replaced; a node that was starting up now serves.
ReloadApply(n) ==
    /\ todo[n] = {}
    /\ view' = [view EXCEPT ![n] = fresh[n]]
    /\ up' = [up EXCEPT ![n] = TRUE]
    /\ Again(n)
    /\ UNCHANGED <<records, audited, opVars, failures>>

\* Mutated form of ReloadFails: what was read so far replaces the view.
ReloadFailsPartly(n) ==
    /\ todo[n] # {}
    /\ failures < MaxFailures
    /\ failures' = failures + 1
    /\ view' = [view EXCEPT ![n] = fresh[n]]
    /\ Again(n)
    /\ UNCHANGED <<records, audited, up, opVars>>

\* A listing or a read fails: the view is kept.  A node that is starting up
\* exits and is started again.
ReloadFails(n) ==
    /\ todo[n] # {}
    /\ failures < MaxFailures
    /\ failures' = failures + 1
    /\ Again(n)
    /\ UNCHANGED <<records, audited, view, up, opVars>>

\* The node stops, with its requests, and starts again; a write it had sent may
\* still take effect.
RestartNode(n) ==
    /\ up[n]
    /\ failures < MaxFailures
    /\ failures' = failures + 1
    /\ up' = [up EXCEPT ![n] = FALSE]
    /\ view' = [view EXCEPT ![n] = Idle]
    /\ Again(n)
    /\ phase' = [o \in Op |-> IF /\ job[o].node = n
                                 /\ phase[o] \in {"audit", "persist", "apply"}
                             THEN "failed" ELSE phase[o]]
    /\ delayed' = delayed \cup {o \in Op : job[o].node = n /\ phase[o] = "persist"}
    /\ UNCHANGED <<records, audited, job>>

OpStep(o) == \/ Set(o) \/ Lift(o) \/ Audit(o) \/ Persist(o)
             \/ WriteFails(o) \/ LateRecord(o) \/ Apply(o)

ReloadStep(n) == ReloadApply(n) \/ \E k \in Key : ReloadRead(n, k)

ModerationNext == \/ \E o \in Op : OpStep(o)
                  \/ \E n \in Node : ReloadStep(n) \/ ReloadFails(n) \/ RestartNode(n)

ModerationSpec == ModerationInit /\ [][ModerationNext]_moderationVars

\* spawn_refresh repeats the reload for as long as the node runs.  Requests
\* need no fairness: operators may stop.
FairModerationSpec == ModerationSpec /\ \A n \in Node : WF_moderationVars(ReloadStep(n))

-----------------------------------------------------------------------------
(* Properties.                                                             *)

\* A lift of k has begun.
LiftBegun(k) == \E o \in Op : /\ job[o].key = k
                              /\ job[o].rec.lift = o

\* Every record that is stored, will be or may be, has its audit event, also
\* when a call fails or the node stops in between: audit comes before persist
\* in every handler, and nothing removes an event.
RecordsAudited ==
    /\ \A k \in Key : records[k] # Missing => <<k, records[k]>> \in audited
    /\ \A o \in Op : phase[o] \in {"persist", "apply", "done"} \/ o \in delayed =>
          <<job[o].key, job[o].rec>> \in audited

\* A view, and what a reload has read, hold only active records that were
\* stored for that key, so a lifted record never comes to refuse anything.
ViewsAreActive ==
    \A n \in Node, k \in Key :
        /\ view[n][k] # Missing => /\ view[n][k].lift = NoOp
                                   /\ <<k, view[n][k]>> \in audited
        /\ fresh[n][k] # Missing => /\ fresh[n][k].lift = NoOp
                                    /\ <<k, fresh[n][k]>> \in audited

\* What a request writes: its own record, or another one that it lifts.
JobsAreOwn ==
    \A o \in Op :
        /\ phase[o] = "new" => job[o].rec = Missing
        /\ phase[o] # "new" => job[o].rec.lift \in {o, NoOp}
        /\ phase[o] # "new" => job[o].rec # Missing
        /\ o \in delayed => phase[o] = "failed"

\* A stored record is a request's; a view or a finished read holds a record
\* only if one is stored, and a reload that missed an active record was
\* overtaken by it.
RecordsTraced ==
    /\ \A k \in Key : records[k].lift # NoOp =>
          \E o \in Op : job[o].key = k /\ job[o].rec = records[k]
                                       /\ records[k].lift = o
    /\ \A o \in Op : phase[o] \in {"apply", "done"} =>
          records[job[o].key] # Missing
    /\ \A n \in Node, k \in Key :
          /\ view[n][k] # Missing => records[k] # Missing
          /\ fresh[n][k] # Missing => records[k] # Missing
          /\ (/\ k \notin todo[n]
              /\ fresh[n][k] = Missing
              /\ records[k] # Missing
              /\ records[k].lift = NoOp) => k \in overtaken[n]

\* The inductive invariant behind the properties of this module.
ModerationInv == RecordsAudited /\ ViewsAreActive /\ JobsAreOwn /\ RecordsTraced

\* While no operator lifts key k, a running node forgets that it is suspended
\* or blocked only by a reload that read k before the record was written: a
\* failed reload, another node's requests or a restart of one never lift it
\* (reload, "a storage blip never lifts a suspension").
OnlyStaleReloadsForget ==
    [][\A n \in Node, k \in Key :
          /\ up[n] /\ up'[n]
          /\ ~LiftBegun(k)
          /\ view[n][k] # Missing
          /\ view'[n][k] = Missing
          => k \in overtaken[n]]_moderationVars

\* What a reload has read is what S3 holds, but for the keys written since.
ReadsAreCurrent ==
    \A n \in Node : \A k \in Key \ todo[n] :
        fresh[n][k] = Active(records[k]) \/ k \in overtaken[n]

\* A reload that completes leaves the node's view as S3 is, but for the keys
\* written after it read them (Moderation::reload replaces the maps whole).
ReloadsCatchUp ==
    [][\A n \in Node : ReloadApply(n) =>
          \A k \in Key \ overtaken[n] : view'[n][k] = Active(records'[k])]_moderationVars

\* No request is being handled and no failed write is on its way.
AllAnswered == delayed = {} /\ \A o \in Op : phase[o] \in {"new", "done", "failed"}

\* Node n refuses what S3 says, and its reload in progress missed nothing.
CaughtUp(n) ==
    /\ up[n] /\ overtaken[n] = {}
    /\ \A k \in Key : view[n][k] = Active(records[k])

\* While no operator acts, a node whose reload began after the last write is
\* caught up when the reload completes, and then stays so: reloads that run
\* again or fail, on this node or another, change nothing until it restarts.
CaughtUpStays ==
    [][\A n \in Node :
          AllAnswered /\ AllAnswered' /\ overtaken[n] = {} /\ (CaughtUp(n) \/ ReloadApply(n)) =>
              CaughtUp(n)' \/ ~ up'[n]]_moderationVars

\* Once the operators are done every running node's view comes to be, and
\* stays, what S3 holds, whatever order requests and reloads ran in.
ViewsConverge ==
    <>[](\A n \in Node, k \in Key : view[n][k] = Active(records[k]))

=============================================================================
