------------------------------- MODULE KeySet -------------------------------
(***************************************************************************)
(* The identity provider's key set as a verifier keeps it: CwtVerifier's   *)
(* cache, lookup and refresh_keys (src/src/auth.rs).  A token whose kid is *)
(* not in the cache makes its verification fetch the set again, unless one *)
(* was fetched less than KEY_REFRESH_MIN_INTERVAL ago; the fetch runs      *)
(* without the cache's lock.                                               *)
(*                                                                         *)
(* Token[v] is the kid of the token that v presents, again and again.  Of  *)
(* the token itself only the kid matters here.  Times are ages, so the     *)
(* clock never ends.                                                       *)
(***************************************************************************)
EXTENDS Integers, Sequences, FiniteSets

CONSTANTS Kid,
          Usable,         \* the kids of P-256 keys
          Verification,   \* concurrent verifications
          Token,          \* the kid each of them presents
          Rotation,       \* the key sets the provider publishes, in order
          Interval,       \* KEY_REFRESH_MIN_INTERVAL
          FetchTimeout,   \* KEY_FETCH_TIMEOUT
          MaxFaults       \* bound: failed or timed-out fetches

ASSUME UsableAssumption == Usable \subseteq Kid
ASSUME TokenAssumption == Token \in [Verification -> Kid]
ASSUME RotationAssumption == Rotation \in Seq(SUBSET Kid) /\ Len(Rotation) > 0
ASSUME IntervalAssumption ==
    Interval \in Nat /\ FetchTimeout \in Nat /\ FetchTimeout < Interval
ASSUME BoundAssumption == MaxFaults \in Nat

VARIABLES
    era,       \* which set the provider publishes
    keys,      \* KeyCache.keys
    age,       \* time since KeyCache.last_fetch; Interval: as long or never
    phase,     \* where each verification is
    fetchAge,  \* how long its fetch has run
    response,  \* the set its fetch was answered with, 0 before
    outcome,   \* how the last verification ended
    faults,
    keysEra    \* history: which set the cache holds, 0 before the first

keyVars ==
    <<era, keys, age, phase, fetchAge, response, outcome, faults, keysEra>>

Fetching == {v \in Verification : phase[v] = "fetch"}

TypeOK ==
    /\ era \in 1..Len(Rotation)
    /\ keys \subseteq Kid
    /\ age \in 0..Interval
    /\ phase \in [Verification -> {"idle", "refresh", "fetch", "again"}]
    /\ fetchAge \in [Verification -> 0..FetchTimeout]
    /\ response \in [Verification -> 0..Len(Rotation)]
    /\ outcome \in [Verification -> {"none", "verified", "UnknownKid", "KeySet"}]
    /\ faults \in 0..MaxFaults
    /\ keysEra \in 0..Len(Rotation)

KeyInit ==
    /\ era = 1 /\ keys = {} /\ age = Interval
    /\ phase = [v \in Verification |-> "idle"]
    /\ fetchAge = [v \in Verification |-> 0]
    /\ response = [v \in Verification |-> 0]
    /\ outcome = [v \in Verification |-> "none"]
    /\ faults = 0 /\ keysEra = 0

\* The provider publishes its next set.
Rotate ==
    /\ era < Len(Rotation)
    /\ era' = era + 1
    /\ UNCHANGED <<keys, age, phase, fetchAge, response, outcome, faults, keysEra>>

\* Time passes, but no fetch outlasts the client's timeout.
TimePasses ==
    /\ \A v \in Fetching : fetchAge[v] < FetchTimeout
    /\ age' = IF age < Interval THEN age + 1 ELSE age
    /\ fetchAge' = [v \in Verification |->
                     IF v \in Fetching THEN fetchAge[v] + 1 ELSE fetchAge[v]]
    /\ UNCHANGED <<era, keys, phase, response, outcome, faults, keysEra>>

Known(v) == Token[v] \in keys
\* The fetch of v is over; the next one starts from these values too.
NoFetch(v) == /\ fetchAge' = [fetchAge EXCEPT ![v] = 0]
              /\ response' = [response EXCEPT ![v] = 0]
Enter(v, place) == phase' = [phase EXCEPT ![v] = place]
Finish(v, how) == Enter(v, "idle") /\ outcome' = [outcome EXCEPT ![v] = how]

\* verify_sign1: the first lookup.
Lookup(v) ==
    /\ phase[v] = "idle"
    /\ IF Known(v) THEN Finish(v, "verified")
       ELSE Enter(v, "refresh") /\ UNCHANGED outcome
    /\ UNCHANGED <<era, keys, age, fetchAge, response, faults, keysEra>>

\* Mutated form: the interval is counted from the timeout's end.
ClaimSoon(v) ==
    /\ phase[v] = "refresh"
    /\ IF age < FetchTimeout THEN Enter(v, "again") /\ UNCHANGED age
       ELSE /\ Enter(v, "fetch") /\ age' = 0
    /\ UNCHANGED <<era, keys, fetchAge, response, outcome, faults, keysEra>>

\* refresh_keys claims the fetch under the write lock, or returns at once.
Claim(v) ==
    /\ phase[v] = "refresh"
    /\ IF age < Interval THEN Enter(v, "again") /\ UNCHANGED age
       ELSE /\ Enter(v, "fetch") /\ age' = 0
    /\ UNCHANGED <<era, keys, fetchAge, response, outcome, faults, keysEra>>

\* The provider answers with the set it publishes.
Respond(v) ==
    /\ v \in Fetching /\ response[v] = 0
    /\ response' = [response EXCEPT ![v] = era]
    /\ UNCHANGED <<era, keys, age, phase, fetchAge, outcome, faults, keysEra>>

\* parse_cose_key_set skips the keys it cannot use.
Parsed(r) == Rotation[r] \cap Usable

\* Mutated form: the fetched keys are never put in the cache.
StoreNothing(v) ==
    /\ v \in Fetching /\ response[v] # 0
    /\ Enter(v, "again") /\ NoFetch(v)
    /\ UNCHANGED <<era, keys, age, outcome, faults, keysEra>>

\* The response arrives: its keys replace the cached ones.
StoreKeys(v) ==
    /\ v \in Fetching /\ response[v] # 0
    /\ Parsed(response[v]) # {}
    /\ keys' = Parsed(response[v]) /\ keysEra' = response[v]
    /\ Enter(v, "again") /\ NoFetch(v)
    /\ UNCHANGED <<era, age, outcome, faults>>

\* A set without a usable key is an error and leaves the cache alone.
NoUsableKey(v) ==
    /\ v \in Fetching /\ response[v] # 0
    /\ Parsed(response[v]) = {}
    /\ Finish(v, "KeySet") /\ NoFetch(v)
    /\ UNCHANGED <<era, keys, age, faults, keysEra>>

\* The fetch fails or times out.  The stamp stays.
FetchFails(v) ==
    /\ v \in Fetching
    /\ faults < MaxFaults /\ faults' = faults + 1
    /\ Finish(v, "KeySet") /\ NoFetch(v)
    /\ UNCHANGED <<era, keys, age, keysEra>>

\* The second lookup.
LookupAgain(v) ==
    /\ phase[v] = "again"
    /\ Finish(v, IF Known(v) THEN "verified" ELSE "UnknownKid")
    /\ UNCHANGED <<era, keys, age, fetchAge, response, faults, keysEra>>

VerificationStep(v) ==
    \/ Lookup(v) \/ Claim(v) \/ Respond(v) \/ StoreKeys(v)
    \/ NoUsableKey(v) \/ LookupAgain(v)

KeyNext == \/ Rotate \/ TimePasses
           \/ \E v \in Verification : VerificationStep(v) \/ FetchFails(v)

KeySpec == KeyInit /\ [][KeyNext]_keyVars

\* Clients present their token again; the provider answers in the end.
FairKeySpec == /\ KeySpec /\ WF_keyVars(TimePasses)
               /\ \A v \in Verification : WF_keyVars(VerificationStep(v))

-----------------------------------------------------------------------------
(* Properties.                                                             *)

\* At most one verification fetches the set at a time, however many meet an
\* unknown kid: the stamp taken under the lock guards against a stampede.
OneFetch == \A v, w \in Fetching : v = w

\* The cache never goes back to an older set: no slow response overwrites
\* what a later fetch stored.
KeysNeverGoBack == [][keysEra <= keysEra']_keysEra

\* Once filled the cache holds the usable keys of one published set, never of
\* two and never none: a failed fetch, a set without usable keys and the
\* refreshes that unknown kids cause leave it as it was.
CacheIsOneSet ==
    IF keysEra = 0 THEN keys = {}
    ELSE keysEra \in 1..era /\ keys = Parsed(keysEra) /\ keys # {}

\* What a fetch in flight relies on.
KeySetInv ==
    /\ OneFetch
    /\ keysEra <= era
    /\ \A v \in Verification \ Fetching : fetchAge[v] = 0 /\ response[v] = 0
    /\ \A v \in Fetching : /\ age = fetchAge[v]
                           /\ response[v] # 0 => keysEra <= response[v]
                           /\ response[v] <= era

\* A token whose key stays published verifies in the end, though fetches
\* fail and other tokens with unknown kids use up the refreshes.
PublishedVerifies ==
    \A v \in Verification :
       <>[](Token[v] \in Parsed(era)) => []<>(outcome[v] = "verified")

=============================================================================
