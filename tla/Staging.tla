------------------------------ MODULE Staging ------------------------------
(***************************************************************************)
(* The local store as push staging (src/src/staging.rs).                   *)
(*                                                                         *)
(* A push is pending from the moment the node accepts it until its         *)
(* PendingPush guard drops.  The store's garbage collector (iroh-blobs,    *)
(* external) deletes every stored blob that no pending push needs: each    *)
(* run calls the protect callback, which reads the pending table, lists    *)
(* the store, and reads the table again.  A watcher notices a collector    *)
(* that stopped and has the process restarted.                             *)
(*                                                                         *)
(* A push id p stands for one accepted push request of the blob HashOf[p]. *)
(* Several pushes may name one blob.                                       *)
(***************************************************************************)
EXTENDS Naturals, FiniteSets

CONSTANTS Push,       \* the push requests of a behaviour
          Hash,       \* BLAKE3 hashes
          HashOf,     \* the blob each push carries
          MaxFaults   \* bound: crashes, collector deaths and false alarms

ASSUME PushAssumption == IsFiniteSet(Push)
ASSUME HashOfAssumption == HashOf \in [Push -> Hash]
ASSUME MaxFaultsAssumption == MaxFaults \in Nat

VARIABLES
    guards,    \* pushes whose PendingPush guard is alive
    pending,   \* Staging.pending: guards per hash; 0 is "no entry"
    import,    \* iroh-blobs' import of each push
    store,     \* what the FsStore holds of each blob
    gc,        \* where the collector is in its run
    keep,      \* the set keep_set is building, then the run's live set
    stored,    \* keep_set's listing of the store
    written,   \* blobs written since the run started, which iroh-blobs spares
    watch,     \* Staging::collector_stopped
    faults,    \* faults so far, at most MaxFaults
    since,     \* history: the phase of the current run each push was tracked in
    overran    \* history: pushes whose import outlived TRANSFER_END_WAIT

stagingVars == <<guards, pending, import, store, gc, keep, stored, written,
                 watch, faults, since, overran>>

collectorVars == <<gc, keep, stored, written>>

Content == {"absent", "partial", "complete"}
GcPhase == {"idle", "read", "listed", "kept", "running", "dead"}

StagingTypeOK ==
    /\ guards \subseteq Push
    /\ pending \in [Hash -> Nat]
    /\ import \in [Push -> {"none", "running", "ended"}]
    /\ store \in [Hash -> Content]
    /\ gc \in GcPhase
    /\ keep \subseteq Hash
    /\ stored \subseteq Hash
    /\ written \subseteq Hash
    /\ watch \in {"watching", "draining", "drained", "expired"}
    /\ faults \in 0..MaxFaults
    /\ since \in [Push -> {"before", "kept", "running"}]
    /\ overran \subseteq Push

StagingInit ==
    /\ guards = {}
    /\ pending = [h \in Hash |-> 0]
    /\ import = [p \in Push |-> "none"]
    /\ store = [h \in Hash |-> "absent"]
    /\ gc = "idle"
    /\ keep = {}
    /\ stored = {}
    /\ written = {}
    /\ watch = "watching"
    /\ faults = 0
    /\ since = [p \in Push |-> "before"]
    /\ overran = {}

PendingHashes == {h \in Hash : pending[h] > 0}

-----------------------------------------------------------------------------
(* The pending table.                                                      *)

\* Staging::track, with the approval that follows it and lets the import run.
Track(p) ==
    /\ import[p] = "none"
    /\ guards' = guards \cup {p}
    /\ pending' = [pending EXCEPT ![HashOf[p]] = @ + 1]
    /\ import' = [import EXCEPT ![p] = "running"]
    /\ since' = [since EXCEPT ![p] = IF gc \in {"kept", "running"}
                                       THEN gc ELSE "before"]
    /\ UNCHANGED <<store, collectorVars, watch, faults, overran>>

\* PendingPush::drop.
Drop(p) ==
    /\ p \in guards
    /\ guards' = guards \ {p}
    /\ pending' = [pending EXCEPT ![HashOf[p]] = @ - 1]
    /\ UNCHANGED <<import, store, collectorVars, watch, faults, since, overran>>

-----------------------------------------------------------------------------
(* The import, run by iroh-blobs' provider once the push is approved.      *)

\* New chunks are written; a push over data the store already holds writes
\* nothing.
ImportWrite(p) ==
    /\ import[p] = "running"
    /\ store[HashOf[p]] # "complete"
    /\ \E c \in {"partial", "complete"} :
          store' = [store EXCEPT ![HashOf[p]] = c]
    /\ written' = IF gc = "running" THEN written \cup {HashOf[p]} ELSE written
    /\ UNCHANGED <<guards, pending, import, gc, keep, stored, watch, faults,
                   since, overran>>

\* The transfer completes, aborts, or its connection closes.
ImportEnd(p) ==
    /\ import[p] = "running"
    /\ import' = [import EXCEPT ![p] = "ended"]
    /\ UNCHANGED <<guards, pending, store, collectorVars, watch, faults,
                   since, overran>>

\* The import is still running TRANSFER_END_WAIT after the node closed its
\* connection; the push goes on without it.
Overrun(p) ==
    /\ p \in guards
    /\ import[p] = "running"
    /\ overran' = overran \cup {p}
    /\ UNCHANGED <<guards, pending, import, store, collectorVars, watch,
                   faults, since>>

-----------------------------------------------------------------------------
(* The collector: the protect callback of gc_config, which runs keep_set,  *)
(* then iroh-blobs' sweep.                                                 *)

EndRun(phase) ==
    /\ gc' = phase
    /\ keep' = {}
    /\ stored' = {}
    /\ written' = {}
    /\ since' = [p \in Push |-> "before"]

\* The callback starts: last_run is stamped and keep_set reads the table.
GcBegin ==
    /\ gc = "idle"
    /\ gc' = "read"
    /\ keep' = PendingHashes
    /\ UNCHANGED <<guards, pending, import, store, stored, written, watch,
                   faults, since, overran>>

\* Mutated form of GcList: the listing leaves incomplete blobs out.
GcListComplete ==
    /\ gc = "read"
    /\ gc' = "listed"
    /\ stored' = {h \in Hash : store[h] = "complete"}
    /\ UNCHANGED <<guards, pending, import, store, keep, written, watch,
                   faults, since, overran>>

\* keep_set syncs and lists the store.
GcList ==
    /\ gc = "read"
    /\ gc' = "listed"
    /\ stored' = {h \in Hash : store[h] # "absent"}
    /\ UNCHANGED <<guards, pending, import, store, keep, written, watch,
                   faults, since, overran>>

\* The sync, the listing or the task running keep_set fails: Abort.
GcListFails ==
    /\ gc = "read"
    /\ EndRun("idle")
    /\ UNCHANGED <<guards, pending, import, store, watch, faults, overran>>

\* Mutated form of GcProtect: keep_set reads the table only before listing.
GcProtectReadsOnce ==
    /\ gc = "listed"
    /\ IF stored \subseteq keep
         THEN EndRun("idle")
         ELSE /\ gc' = "kept"
              /\ stored' = {}
              /\ UNCHANGED <<keep, written, since>>
    /\ UNCHANGED <<guards, pending, import, store, watch, faults, overran>>

\* keep_set reads the table a second time; with nothing doomed, Abort.
GcProtect ==
    /\ gc = "listed"
    /\ IF stored \subseteq keep \cup PendingHashes
         THEN EndRun("idle")
         ELSE /\ gc' = "kept"
              /\ keep' = keep \cup PendingHashes
              /\ stored' = {}
              /\ UNCHANGED <<written, since>>
    /\ UNCHANGED <<guards, pending, import, store, watch, faults, overran>>

\* iroh-blobs starts the run proper: from here it spares what is written.
GcStart ==
    /\ gc = "kept"
    /\ gc' = "running"
    /\ UNCHANGED <<guards, pending, import, store, keep, stored, written,
                   watch, faults, since, overran>>

Doomed == {h \in Hash : store[h] # "absent"} \ (keep \cup written)

GcDelete(h) ==
    /\ gc = "running"
    /\ h \in Doomed
    /\ store' = [store EXCEPT ![h] = "absent"]
    /\ UNCHANGED <<guards, pending, import, collectorVars, watch, faults,
                   since, overran>>

GcFinish ==
    /\ gc = "running"
    /\ Doomed = {}
    /\ EndRun("idle")
    /\ UNCHANGED <<guards, pending, import, store, watch, faults, overran>>

\* A failed run ends iroh-blobs' collector loop for good.
GcDie ==
    /\ gc = "running"
    /\ faults < MaxFaults
    /\ EndRun("dead")
    /\ faults' = faults + 1
    /\ UNCHANGED <<guards, pending, import, store, watch, overran>>

-----------------------------------------------------------------------------
(* collector_stopped: silence for dead_after, then a drained table or the  *)
(* drain limit; main.rs then shuts the node down and systemd restarts it.  *)

SilenceNoticed ==
    /\ watch = "watching"
    /\ gc = "dead"
    /\ watch' = "draining"
    /\ UNCHANGED <<guards, pending, import, store, collectorVars, faults,
                   since, overran>>

\* A run that takes longer than dead_after looks like silence.
SlowRunTakenForSilence ==
    /\ watch = "watching"
    /\ gc \notin {"idle", "dead"}
    /\ faults < MaxFaults
    /\ watch' = "draining"
    /\ faults' = faults + 1
    /\ UNCHANGED <<guards, pending, import, store, collectorVars, since, overran>>

Drained ==
    /\ watch = "draining"
    /\ PendingHashes = {}
    /\ watch' = "drained"
    /\ UNCHANGED <<guards, pending, import, store, collectorVars, faults,
                   since, overran>>

DrainLimit ==
    /\ watch = "draining"
    /\ PendingHashes # {}
    /\ watch' = "expired"
    /\ UNCHANGED <<guards, pending, import, store, collectorVars, faults,
                   since, overran>>

\* The process ends and starts again: the table, the collector and the
\* imports are new; the store is on disk.
Reboot ==
    /\ guards' = {}
    /\ pending' = [h \in Hash |-> 0]
    /\ import' = [p \in Push |-> IF import[p] = "none" THEN "none" ELSE "ended"]
    /\ EndRun("idle")
    /\ watch' = "watching"
    /\ overran' = {}
    /\ UNCHANGED store

Restart ==
    /\ watch \in {"drained", "expired"}
    /\ Reboot
    /\ UNCHANGED faults

Crash ==
    /\ faults < MaxFaults
    /\ Reboot
    /\ faults' = faults + 1

\* What staging asks of whoever holds a guard: to keep it until its import has
\* stopped writing, or has overrun the wait for that.
Release(p) ==
    /\ import[p] = "ended" \/ p \in overran
    /\ Drop(p)

-----------------------------------------------------------------------------
Collector ==
    \/ GcBegin
    \/ GcList
    \/ GcListFails
    \/ GcProtect
    \/ GcStart
    \/ \E h \in Hash : GcDelete(h)
    \/ GcFinish
    \/ GcDie

Watcher ==
    \/ SilenceNoticed
    \/ SlowRunTakenForSilence
    \/ Drained
    \/ DrainLimit

StagingNext ==
    \/ \E p \in Push :
          \/ Track(p)
          \/ Release(p)
          \/ ImportWrite(p)
          \/ ImportEnd(p)
          \/ Overrun(p)
    \/ Collector
    \/ Watcher
    \/ Restart
    \/ Crash

StagingSpec == StagingInit /\ [][StagingNext]_stagingVars

-----------------------------------------------------------------------------
(* What staging promises.                                                  *)

\* staging.rs, track and drop: the table counts exactly the live guards of
\* each hash, so a hash stays pending until its last push ends, however
\* pushes of one hash interleave.
PendingCountsGuards ==
    \A h \in Hash :
        pending[h] = Cardinality({p \in guards : HashOf[p] = h})

\* keep_set's second read: once it is done, the run's live set covers every
\* push that was pending then and still is.
KeepCoversPending ==
    gc \in {"kept", "running"} =>
        \A p \in guards : since[p] = "before" => HashOf[p] \in keep

\* node.rs:415-418: an import writes only while its push is pending, unless it
\* outlived TRANSFER_END_WAIT.
ImportsArePending ==
    \A p \in Push : import[p] = "running" => p \in guards \cup overran

\* A guard's push has been tracked, once.
GuardsAreTracked == \A p \in guards : import[p] # "none"

\* What holds between any two steps of staging: the table counts the guards,
\* a run's live set covers what was pending at its last read, and imports
\* write only for pending pushes.
StagingInv ==
    /\ PendingCountsGuards
    /\ KeepCoversPending
    /\ ImportsArePending
    /\ GuardsAreTracked

Collects(h) == store[h] # "absent" /\ store'[h] = "absent"

\* staging.rs:9-17: the collector deletes a pending push's data only when the
\* push was accepted after the run's last read of the pending table, and only
\* data that was not written since the run started.
CollectorSparesPending ==
    [][\A h \in Hash : Collects(h) =>
          /\ h \notin written
          /\ \A p \in guards : HashOf[p] = h => since[p] # "before"]_stagingVars

\* node.rs:415-418: "the collector must not delete the entry while the import
\* still holds it": it does so only under an import that was accepted after
\* the run's last read or that outlived TRANSFER_END_WAIT.
CollectorSparesImports ==
    [][\A p \in Push :
          (import[p] = "running" /\ Collects(HashOf[p]))
             => since[p] # "before" \/ p \in overran]_stagingVars

=============================================================================
