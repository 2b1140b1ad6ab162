------------------------------- MODULE NodeKey -------------------------------
(***************************************************************************)
(* The node's secret key: load_or_create (src/src/secret_key.rs), run by   *)
(* every instance that starts with the same SSM parameter.  An instance    *)
(* whose start fails is started again by systemd.                          *)
(*                                                                         *)
(* The instance i generates the key i in its first start; two generated    *)
(* keys are never equal.                                                   *)
(***************************************************************************)
EXTENDS Integers

CONSTANTS Instance,
          NoKey,
          MaxStarts   \* bound: starts of an instance that may fail or end

ASSUME NoKeyAssumption == NoKey \notin Instance \X Nat
ASSUME StartsAssumption == MaxStarts \in Nat \ {0}

Key == Instance \X (1..MaxStarts)

VARIABLES
    stored,    \* the parameter's value
    place,     \* where each instance is
    own,       \* the key it loaded or generated
    starts     \* how often it was started

identityVars == <<stored, place, own, starts>>

IdentityTypeOK ==
    /\ stored \in Key \cup {NoKey}
    /\ place \in [Instance -> {"get", "put", "running", "failed"}]
    /\ own \in [Instance -> Key \cup {NoKey}]
    /\ starts \in [Instance -> 1..MaxStarts]
    /\ \A i \in Instance : place[i] = "running" => own[i] # NoKey

IdentityInit ==
    /\ stored = NoKey
    /\ place = [i \in Instance |-> "get"]
    /\ own = [i \in Instance |-> NoKey]
    /\ starts = [i \in Instance |-> 1]

\* Mutated form: a key is generated in any case.
GetAndCreate(i) ==
    /\ place[i] = "get"
    /\ own' = [own EXCEPT ![i] = <<i, starts[i]>>]
    /\ place' = [place EXCEPT ![i] = "put"]
    /\ UNCHANGED <<stored, starts>>

\* get_parameter finds the key, or finds that there is none: then one is
\* generated, to be stored next.
GetParameter(i) ==
    /\ place[i] = "get"
    /\ IF stored # NoKey
       THEN /\ own' = [own EXCEPT ![i] = stored]
            /\ place' = [place EXCEPT ![i] = "running"]
       ELSE /\ own' = [own EXCEPT ![i] = <<i, starts[i]>>]
            /\ place' = [place EXCEPT ![i] = "put"]
    /\ UNCHANGED <<stored, starts>>

\* Another error of get_parameter fails the start.
GetFails(i) ==
    /\ place[i] = "get" /\ starts[i] < MaxStarts
    /\ place' = [place EXCEPT ![i] = "failed"]
    /\ UNCHANGED <<stored, own, starts>>

\* Mutated form: a parameter stored meanwhile is not an error.
PutIgnored(i) ==
    /\ place[i] = "put"
    /\ stored' = IF stored = NoKey THEN own[i] ELSE stored
    /\ place' = [place EXCEPT ![i] = "running"]
    /\ UNCHANGED <<own, starts>>

\* put_parameter does not overwrite: the second to store a key fails.
PutParameter(i) ==
    /\ place[i] = "put"
    /\ IF stored = NoKey
       THEN stored' = own[i] /\ place' = [place EXCEPT ![i] = "running"]
       ELSE place' = [place EXCEPT ![i] = "failed"] /\ UNCHANGED stored
    /\ UNCHANGED <<own, starts>>

\* The request fails, whether or not SSM carried it out.
PutFails(i) ==
    /\ place[i] = "put" /\ starts[i] < MaxStarts
    /\ stored' \in IF stored = NoKey THEN {NoKey, own[i]} ELSE {stored}
    /\ place' = [place EXCEPT ![i] = "failed"]
    /\ UNCHANGED <<own, starts>>

\* A running instance stops.
Stop(i) ==
    /\ place[i] = "running" /\ starts[i] < MaxStarts
    /\ place' = [place EXCEPT ![i] = "failed"]
    /\ UNCHANGED <<stored, own, starts>>

\* systemd starts it again.  Only the starts that may fail are counted.
Start(i) ==
    /\ place[i] = "failed"
    /\ starts' = [starts EXCEPT ![i] = IF @ < MaxStarts THEN @ + 1 ELSE @]
    /\ own' = [own EXCEPT ![i] = NoKey]
    /\ place' = [place EXCEPT ![i] = "get"]
    /\ UNCHANGED stored

Progress(i) == GetParameter(i) \/ PutParameter(i) \/ Start(i)
StartFails(i) == GetFails(i) \/ PutFails(i) \/ Stop(i)

IdentityNext == \E i \in Instance : Progress(i) \/ StartFails(i)

IdentitySpec == IdentityInit /\ [][IdentityNext]_identityVars

\* Requests are answered, and systemd restarts what fails (Restart=on-failure).
FairIdentitySpec == IdentitySpec /\ \A i \in Instance : WF_identityVars(Progress(i))

-----------------------------------------------------------------------------
(* Properties.                                                             *)

\* Every instance that runs, runs with the stored key: one identity, also
\* when several create it at once or a stored key's response is lost.
OneIdentity == \A i \in Instance : place[i] = "running" => own[i] = stored

\* Every instance runs in the end, the losers of the race included.
EventuallyRuns == <>[](\A i \in Instance : place[i] = "running")

=============================================================================
