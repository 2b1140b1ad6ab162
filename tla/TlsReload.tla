------------------------------ MODULE TlsReload ------------------------------
(***************************************************************************)
(* The certificate the HTTPS listener serves: load_when_ready and          *)
(* reload_on_change (src/src/tls.rs) beside the job that writes the two    *)
(* files (src/packer/files/cert-sync.sh).  They share nothing but the      *)
(* files: the node compares modification times, reads the chain, then the  *)
(* key, while the job replaces the key, then the chain.                    *)
(*                                                                         *)
(* A certificate is its number among those the authority issued; KeyOf[v]  *)
(* is the private key of certificate v.  0 is a missing file, and no       *)
(* listener.  A modification time is the number of writes so far.          *)
(***************************************************************************)
EXTENDS Integers, Sequences

CONSTANTS KeyOf,        \* the private keys of the certificates issued
          MaxRestarts,  \* bound: restarts of the node
          MaxCuts     \* bound: runs of cert-sync cut off, keys lost

ASSUME KeyAssumption == KeyOf \in Seq(Nat \ {0}) /\ Len(KeyOf) > 0
ASSUME RestartsAssumption == MaxRestarts \in Nat /\ MaxCuts \in Nat

VARIABLES
    issued,     \* the authority's current certificate
    cert, key,  \* what the files hold
    certTime, keyTime, writes,
    sync,       \* where cert-sync is, and what it exported
    node,       \* where the listener's task is
    now,        \* the mtimes it read, <<cert, key>>
    loaded,     \* the mtimes of the pair in service
    read,       \* the chain load_pair has read
    served,     \* the certificate in service
    restarts, cuts

fileVars == <<cert, key, certTime, keyTime, writes>>
nodeVars == <<node, now, loaded, read, served>>
tlsVars == <<issued, fileVars, sync, nodeVars, restarts, cuts>>

TlsInit ==
    /\ issued = 1 /\ cert = 0 /\ key = 0
    /\ certTime = 0 /\ keyTime = 0 /\ writes = 0
    /\ sync = [pc |-> "idle", version |-> 1]
    /\ node = "mtimes" /\ now = <<0, 0>> /\ loaded = <<0, 0>>
    /\ read = 0 /\ served = 0
    /\ restarts = 0 /\ cuts = 0

-----------------------------------------------------------------------------
(* The authority and cert-sync.                                            *)

\* The authority renews the certificate.
Renew ==
    /\ issued < Len(KeyOf)
    /\ issued' = issued + 1
    /\ UNCHANGED <<fileVars, sync, nodeVars, restarts, cuts>>

Export ==
    /\ sync.pc = "idle"
    /\ sync' = [pc |-> "exported", version |-> issued]
    /\ UNCHANGED <<issued, fileVars, nodeVars, restarts, cuts>>

\* Mutated form: only the chain is compared.
UpToDateChain == cert = sync.version

\* The chain is unchanged and the key on disk belongs to it.
UpToDate == cert = sync.version /\ key = KeyOf[cert]

SyncSkips ==
    /\ sync.pc = "exported" /\ UpToDate
    /\ sync' = [sync EXCEPT !.pc = "idle"]
    /\ UNCHANGED <<issued, fileVars, nodeVars, restarts, cuts>>

WriteKey ==
    /\ sync.pc = "exported" /\ ~UpToDate
    /\ key' = KeyOf[sync.version]
    /\ writes' = writes + 1 /\ keyTime' = writes + 1
    /\ sync' = [sync EXCEPT !.pc = "key"]
    /\ UNCHANGED <<issued, cert, certTime, nodeVars, restarts, cuts>>

WriteCert ==
    /\ sync.pc = "key"
    /\ cert' = sync.version
    /\ writes' = writes + 1 /\ certTime' = writes + 1
    /\ sync' = [sync EXCEPT !.pc = "idle"]
    /\ UNCHANGED <<issued, key, keyTime, nodeVars, restarts, cuts>>

\* The run fails or is cut off, before or between the two writes.
SyncFails ==
    /\ sync.pc # "idle" /\ cuts < MaxCuts
    /\ sync' = [sync EXCEPT !.pc = "idle"] /\ cuts' = cuts + 1
    /\ UNCHANGED <<issued, fileVars, nodeVars, restarts>>

\* The key file is lost.
LoseKey ==
    /\ key # 0 /\ cuts < MaxCuts
    /\ key' = 0 /\ keyTime' = 0 /\ cuts' = cuts + 1
    /\ UNCHANGED <<issued, cert, certTime, writes, sync, nodeVars, restarts>>

-----------------------------------------------------------------------------
(* The node.                                                               *)

Listening == served # 0

\* mtimes: first the chain's, then the key's.
ReadCertTime ==
    /\ node = "mtimes"
    /\ now' = <<certTime, now[2]>> /\ node' = "keyTime"
    /\ UNCHANGED <<issued, fileVars, sync, loaded, read, served, restarts, cuts>>

\* A poll that finds nothing new ends here; so does a start with a file
\* missing.
ReadKeyTime ==
    /\ node = "keyTime"
    /\ now' = <<now[1], keyTime>>
    /\ node' = IF (IF Listening THEN now' = loaded ELSE cert = 0 \/ key = 0)
               THEN "mtimes" ELSE "read"
    /\ UNCHANGED <<issued, fileVars, sync, loaded, read, served, restarts, cuts>>

\* load_pair reads the chain ...
ReadCert ==
    /\ node = "read"
    /\ read' = cert /\ node' = "readKey"
    /\ UNCHANGED <<issued, fileVars, sync, now, loaded, served, restarts, cuts>>

\* Whether server_config accepts the pair read.
Loads == read # 0 /\ key = KeyOf[read]

\* Mutated form: the baseline is read after the load.
LoadPairLate ==
    /\ node = "readKey"
    /\ node' = "mtimes" /\ read' = 0
    /\ IF Loads THEN served' = read /\ loaded' = <<certTime, keyTime>>
                ELSE UNCHANGED <<served, loaded>>
    /\ UNCHANGED <<issued, fileVars, sync, now, restarts, cuts>>

\* ... and then the key.  A pair that loads goes into service with the mtimes
\* read before; one that does not leaves everything as it was, to be retried.
LoadPair ==
    /\ node = "readKey"
    /\ node' = "mtimes" /\ read' = 0
    /\ IF Loads THEN served' = read /\ loaded' = now
                ELSE UNCHANGED <<served, loaded>>
    /\ UNCHANGED <<issued, fileVars, sync, now, restarts, cuts>>

Restart ==
    /\ restarts < MaxRestarts /\ restarts' = restarts + 1
    /\ node' = "mtimes" /\ now' = <<0, 0>> /\ loaded' = <<0, 0>>
    /\ read' = 0 /\ served' = 0
    /\ UNCHANGED <<issued, fileVars, sync, cuts>>

-----------------------------------------------------------------------------

Sync == Export \/ SyncSkips \/ WriteKey \/ WriteCert
Node == ReadCertTime \/ ReadKeyTime \/ ReadCert \/ LoadPair

TlsNext == Renew \/ Sync \/ SyncFails \/ LoseKey \/ Node \/ Restart

TlsSpec == TlsInit /\ [][TlsNext]_tlsVars

\* The timer runs cert-sync again and again; the task polls forever.
FairTlsSpec == TlsSpec /\ WF_tlsVars(Sync) /\ WF_tlsVars(Node)

-----------------------------------------------------------------------------
(* Properties.                                                             *)

\* The listener serves the authority's newest certificate in the end, without
\* a restart, and keeps serving it: however renewals, interrupted runs of the
\* job and lost keys interleave with the polls.
EventuallyCurrent == <>[](served = issued)

\* When the mtimes of the pair in service are still the files', the pair in
\* service is the one on disk, so a poll that skips it misses nothing.
NothingMissed ==
    Listening /\ loaded = <<certTime, keyTime>> /\ key # 0
       => served = cert /\ key = KeyOf[served]

=============================================================================
