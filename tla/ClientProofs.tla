---------------------------- MODULE ClientProofs ----------------------------
(***************************************************************************)
(* Proofs about the clients of other services a node runs and the keys it  *)
(* holds: the keys of the token provider (KeySet), the node's identity     *)
(* (NodeKey), the pair its listener serves (TlsReload) and the decision    *)
(* service it asks (Decisions).  The four modules share no state, so each  *)
(* has a section here.                                                     *)
(***************************************************************************)
EXTENDS KeySet, NodeKey, TlsReload, Decisions, TLAPS

-----------------------------------------------------------------------------
(* The provider's keys, for any verifications, any history of published    *)
(* sets and any fetch timeout below the refresh interval.  The argument: a *)
(* fetch in flight is exactly as old as the stamp it took, hence younger   *)
(* than the interval, so while it runs nobody else can claim one.          *)

AllInv == TypeOK /\ KeySetInv

\* No fetch runs once the stamp is as old as the interval.
LEMMA FetchIsYoung ==
    ASSUME AllInv, age = Interval
    PROVE  Fetching = {}
  <1> SUFFICES ASSUME NEW v \in Fetching PROVE FALSE
    BY Zenon
  <1>1. v \in Verification /\ age = fetchAge[v]
    BY Zenon DEF AllInv, KeySetInv, Fetching
  <1>2. fetchAge[v] \in 0..FetchTimeout
    BY <1>1, Zenon DEF AllInv, TypeOK
  <1> QED
    BY <1>1, <1>2, IntervalAssumption

\* The cache is empty and nobody fetches at first.
LEMMA InitInv == KeyInit => AllInv
  BY RotationAssumption, IntervalAssumption, BoundAssumption
  DEF KeyInit, AllInv, TypeOK, KeySetInv, OneFetch, Fetching

\* What a step that neither starts, answers nor times a fetch may change.
LEMMA QuietInv ==
    ASSUME AllInv, Fetching' = Fetching,
           UNCHANGED <<age, fetchAge, response, keysEra>>,
           era <= era', era' \in Nat
    PROVE  KeySetInv'
  <1>1. OneFetch'
    BY Zenon DEF AllInv, KeySetInv, OneFetch
  <1>2. /\ era \in Nat /\ keysEra \in Nat
        /\ \A v \in Verification : response[v] \in Nat
    BY RotationAssumption DEF AllInv, TypeOK
  <1>3. \A v \in Fetching : v \in Verification
    BY Zenon DEF Fetching
  <1> QED
    BY <1>1, <1>2, <1>3 DEF AllInv, KeySetInv

\* The end of a fetch leaves nobody fetching.
LEMMA EndInv ==
    ASSUME AllInv, NEW v \in Fetching, NEW where, where # "fetch",
           Enter(v, where), NoFetch(v), UNCHANGED era, keysEra' <= era
    PROVE  KeySetInv'
  <1>1. phase \in [Verification -> {"idle", "refresh", "fetch", "again"}]
    BY Zenon DEF AllInv, TypeOK
  <1>2. Fetching' = {}
    BY <1>1, Zenon DEF AllInv, KeySetInv, OneFetch, Fetching, Enter
  <1>3. \A w \in Verification : fetchAge'[w] = 0 /\ response'[w] = 0
    <2>1. \A w \in Verification \ {v} : fetchAge[w] = 0 /\ response[w] = 0
      BY Zenon DEF AllInv, KeySetInv, OneFetch
    <2> QED
      BY <2>1, Zenon DEF NoFetch, AllInv, TypeOK
  <1> QED
    BY <1>2, <1>3, Zenon DEF KeySetInv, OneFetch

\* Every step keeps the variables in their types.
LEMMA TypeStep == ASSUME AllInv, [KeyNext]_keyVars PROVE TypeOK'
  <1> USE RotationAssumption, IntervalAssumption, BoundAssumption, UsableAssumption
      DEF AllInv, TypeOK
  <1>1. CASE Rotate
    BY <1>1 DEF Rotate
  <1>2. CASE TimePasses
    BY <1>2 DEF TimePasses, Fetching
  <1>3. ASSUME NEW v \in Verification, VerificationStep(v) \/ FetchFails(v)
        PROVE  TypeOK'
    <2>1. CASE Lookup(v)
      BY <2>1, Zenon DEF Lookup, Finish, Enter
    <2>2. CASE Claim(v)
      <3>1. age' \in 0..Interval
        BY <2>2 DEF Claim
      <3>2. phase' \in [Verification -> {"idle", "refresh", "fetch", "again"}]
        BY <2>2, Zenon DEF Claim, Enter
      <3> QED
        BY <2>2, <3>1, <3>2, Zenon DEF Claim
    <2>3. CASE Respond(v)
      BY <2>3 DEF Respond
    <2>4. CASE StoreKeys(v)
      BY <2>4 DEF StoreKeys, Enter, NoFetch, Parsed
    <2>5. CASE NoUsableKey(v)
      BY <2>5 DEF NoUsableKey, Finish, Enter, NoFetch
    <2>6. CASE LookupAgain(v)
      BY <2>6, Zenon DEF LookupAgain, Finish, Enter
    <2>7. CASE FetchFails(v)
      BY <2>7 DEF FetchFails, Finish, Enter, NoFetch
    <2> QED
      BY <1>3, <2>1, <2>2, <2>3, <2>4, <2>5, <2>6, <2>7, Zenon DEF VerificationStep
  <1>4. CASE UNCHANGED keyVars
    BY <1>4, Zenon DEF keyVars
  <1> QED
    BY <1>1, <1>2, <1>3, <1>4, Zenon DEF KeyNext

\* Every step keeps what the fetches in flight rely on.
LEMMA InvStep == ASSUME AllInv, [KeyNext]_keyVars PROVE KeySetInv'
  <1>0. /\ era \in Nat /\ keysEra \in Nat /\ age \in 0..Interval
        /\ phase \in [Verification -> {"idle", "refresh", "fetch", "again"}]
        /\ fetchAge \in [Verification -> 0..FetchTimeout]
        /\ response \in [Verification -> 0..Len(Rotation)]
    BY RotationAssumption DEF AllInv, TypeOK
  <1>1. CASE Rotate
    BY <1>0, <1>1, QuietInv DEF Rotate, Fetching
  <1>2. CASE TimePasses
    <2>1. Fetching' = Fetching
      BY <1>2, Zenon DEF TimePasses, Fetching
    <2>2. \A v \in Fetching : /\ age = fetchAge[v] /\ fetchAge[v] \in 0..FetchTimeout
                              /\ fetchAge'[v] = fetchAge[v] + 1 /\ fetchAge[v] < FetchTimeout
      BY <1>0, <1>2, Zenon DEF TimePasses, Fetching, AllInv, KeySetInv
    <2>3. \A v \in Fetching : age' = fetchAge'[v]
      BY <1>2, <2>2, IntervalAssumption DEF TimePasses
    <2> QED
      BY <1>2, <2>1, <2>3, Zenon DEF TimePasses, AllInv, KeySetInv, OneFetch
  <1>3. ASSUME NEW v \in Verification, VerificationStep(v) \/ FetchFails(v)
        PROVE  KeySetInv'
    <2>1. CASE Lookup(v)
      BY <1>0, <2>1, QuietInv DEF Lookup, Finish, Enter, Fetching
    <2>2. CASE Claim(v)
      <3>1. CASE age < Interval
        BY <1>0, <2>2, <3>1, QuietInv DEF Claim, Enter, Fetching
      <3>2. CASE ~(age < Interval)
        <4>1. Fetching = {}
          BY <1>0, <3>2, FetchIsYoung, IntervalAssumption
        <4>2. Fetching' = {v}
          BY <1>0, <2>2, <3>2, <4>1, Zenon DEF Claim, Enter, Fetching
        <4>3. fetchAge[v] = 0 /\ response[v] = 0
          BY <2>2, Zenon DEF AllInv, KeySetInv, Claim, Fetching
        <4>4. /\ age' = 0
              /\ UNCHANGED <<era, keysEra, fetchAge, response>>
          BY <2>2, <3>2, Zenon DEF Claim
        <4>5. \A w \in Verification \ {v} : fetchAge'[w] = 0 /\ response'[w] = 0
          BY <4>1, <4>4, Zenon DEF AllInv, KeySetInv
        <4>6. response[v] <= era /\ keysEra <= era
          BY <1>0, <4>3 DEF AllInv, KeySetInv
        <4> QED
          BY <4>2, <4>3, <4>4, <4>5, <4>6, Zenon DEF KeySetInv, OneFetch
      <3> QED
        BY <3>1, <3>2, Zenon
    <2>3. CASE Respond(v)
      <3>1. Fetching' = Fetching
        BY <2>3, Zenon DEF Respond, Fetching
      <3> QED
        BY <1>0, <2>3, <3>1 DEF Respond, AllInv, KeySetInv, OneFetch, Fetching
    <2>4. CASE StoreKeys(v)
      BY <2>4, EndInv, Zenon DEF StoreKeys, AllInv, KeySetInv
    <2>5. CASE NoUsableKey(v)
      BY <2>5, EndInv, Zenon DEF NoUsableKey, Finish, AllInv, KeySetInv
    <2>6. CASE LookupAgain(v)
      BY <1>0, <2>6, QuietInv DEF LookupAgain, Finish, Enter, Fetching
    <2>7. CASE FetchFails(v)
      BY <2>7, EndInv, Zenon DEF FetchFails, Finish, AllInv, KeySetInv
    <2> QED
      BY <1>3, <2>1, <2>2, <2>3, <2>4, <2>5, <2>6, <2>7, Zenon DEF VerificationStep
  <1>4. CASE UNCHANGED keyVars
    BY <1>0, <1>4, QuietInv DEF keyVars, Fetching
  <1> QED
    BY <1>1, <1>2, <1>3, <1>4, Zenon DEF KeyNext

\* A fetch of refresh_keys is as old as the stamp it took under the lock, and
\* no response it can store is older than what the cache holds.
THEOREM KeySetInvariant == KeySpec => []KeySetInv
  <1>1. AllInv /\ [KeyNext]_keyVars => AllInv'
    BY TypeStep, InvStep, Zenon DEF AllInv
  <1> QED
    BY InitInv, <1>1, PTL DEF KeySpec, AllInv

\* However many verifications meet an unknown kid, refresh_keys fetches the
\* set for one of them at a time.
THEOREM AtMostOneFetch == KeySpec => []OneFetch
  <1>1. KeySetInv => OneFetch
    BY Zenon DEF KeySetInv
  <1> QED
    BY KeySetInvariant, <1>1, PTL

\* The cache is one published set, whatever fetches fail and however many
\* verifications refresh it: a known kid stays known until a set without it
\* has been fetched.
THEOREM CacheHoldsOneSet == KeySpec => []CacheIsOneSet
  <1>1. KeyInit => CacheIsOneSet
    BY Zenon DEF KeyInit, CacheIsOneSet
  <1>2. ASSUME AllInv, CacheIsOneSet, [KeyNext]_keyVars PROVE CacheIsOneSet'
    <2>1. CASE \E v \in Verification : StoreKeys(v)
      <3> PICK v \in Verification : StoreKeys(v)
        BY <2>1, Zenon
      <3>1. response[v] \in 0..Len(Rotation) /\ response[v] # 0 /\ response[v] <= era
            /\ era \in 1..Len(Rotation)
        BY <1>2, Zenon DEF StoreKeys, AllInv, TypeOK, KeySetInv
      <3>2. response[v] \in 1..era
        BY <3>1, RotationAssumption
      <3> QED
        BY <3>1, <3>2, Zenon DEF StoreKeys, CacheIsOneSet, Parsed
    <2>2. CASE Rotate
      <3>1. keysEra \in 1..era => keysEra \in 1..era'
        BY <1>2, <2>2 DEF Rotate, AllInv, TypeOK
      <3> QED
        BY <1>2, <2>2, <3>1, Zenon DEF Rotate, CacheIsOneSet, Parsed
    <2>3. CASE UNCHANGED <<era, keys, keysEra>>
      BY <1>2, <2>3, Zenon DEF CacheIsOneSet, Parsed
    <2> QED
      BY <1>2, <2>1, <2>2, <2>3, Zenon DEF KeyNext, VerificationStep, TimePasses, Lookup,
         Claim, Respond, NoUsableKey, LookupAgain, FetchFails, keyVars
  <1>3. AllInv /\ [KeyNext]_keyVars => AllInv'
    BY TypeStep, InvStep, Zenon DEF AllInv
  <1> QED
    BY InitInv, <1>1, <1>2, <1>3, PTL DEF KeySpec

\* The keys refresh_keys stores are never older than the ones they replace.
THEOREM CacheNeverGoesBack == KeySpec => KeysNeverGoBack
  <1>1. AllInv /\ [KeyNext]_keyVars => AllInv'
    BY TypeStep, InvStep, Zenon DEF AllInv
  <1>2. AllInv /\ [KeyNext]_keyVars => [keysEra <= keysEra']_keysEra
    <2> SUFFICES ASSUME AllInv, KeyNext, keysEra' # keysEra PROVE keysEra <= keysEra'
      BY Zenon DEF keyVars
    <2>1. PICK v \in Verification : StoreKeys(v)
      BY Zenon DEF KeyNext, VerificationStep, Rotate, TimePasses, Lookup, Claim, Respond, NoUsableKey,
             LookupAgain, FetchFails
    <2> QED
      BY <2>1, Zenon DEF StoreKeys, AllInv, KeySetInv
  <1> QED
    BY InitInv, <1>1, <1>2, PTL DEF KeySpec, KeysNeverGoBack

-----------------------------------------------------------------------------
(* The node's identity, for any set of instances and any number of starts. *)
(* OneIdentity is not inductive: an instance that stores the first key     *)
(* must not change the identity of one that runs already, so that whoever  *)
(* runs has a key has to be known too (IdentityTypeOK), and that what is   *)
(* put is a key (PutsAKey).                                                *)

\* What put_parameter is given was generated.
PutsAKey == \A i \in Instance : place[i] = "put" => own[i] # NoKey

\* The inductive invariant.
KeyInv == IdentityTypeOK /\ PutsAKey /\ OneIdentity

\* No key an instance generates is the absent key.
LEMMA KeysDiffer == NoKey \notin Key
  BY NoKeyAssumption, StartsAssumption DEF Key

\* Before any instance starts the invariant holds.
LEMMA IdentityInitInv == IdentityInit => KeyInv
  BY StartsAssumption DEF IdentityInit, KeyInv, IdentityTypeOK, PutsAKey, OneIdentity

\* Every step of load_or_create, and every failure, keeps the invariant.
LEMMA KeyStep ==
    ASSUME KeyInv, [IdentityNext]_identityVars
    PROVE  KeyInv'
<1>0. NoKey \notin Key /\ MaxStarts \in Nat \ {0}
  BY KeysDiffer, StartsAssumption, Zenon
<1> USE <1>0 DEF KeyInv, IdentityTypeOK, PutsAKey, OneIdentity
<1>1. CASE UNCHANGED identityVars
  BY <1>1, Zenon DEF identityVars
<1>2. ASSUME NEW i \in Instance, GetParameter(i) PROVE KeyInv'
  <2>1. <<i, starts[i]>> \in Key
    BY Zenon DEF Key
  <2> QED BY <1>2, <2>1 DEF GetParameter
<1>3. ASSUME NEW i \in Instance, GetFails(i) PROVE KeyInv'
  BY <1>3, Zenon DEF GetFails
<1>4. ASSUME NEW i \in Instance, PutParameter(i) PROVE KeyInv'
  <2>1. CASE stored = NoKey
    \* nobody runs yet: a running instance would run with NoKey
    <3>1. \A j \in Instance : place[j] # "running"
      BY <2>1, Zenon
    <3> QED BY <1>4, <2>1, <3>1 DEF PutParameter
  <2>2. CASE stored # NoKey
    BY <1>4, <2>2, Zenon DEF PutParameter
  <2> QED BY <2>1, <2>2
<1>5. ASSUME NEW i \in Instance, PutFails(i) PROVE KeyInv'
  <2>1. CASE stored = NoKey
    <3>1. \A j \in Instance : place[j] # "running"
      BY <2>1, Zenon
    <3> QED BY <1>5, <2>1, <3>1 DEF PutFails
  <2>2. CASE stored # NoKey
    BY <1>5, <2>2, Zenon DEF PutFails
  <2> QED BY <2>1, <2>2
<1>6. ASSUME NEW i \in Instance, Stop(i) PROVE KeyInv'
  BY <1>6, Zenon DEF Stop
<1>7. ASSUME NEW i \in Instance, Start(i) PROVE KeyInv'
  BY <1>7 DEF Start
<1> QED
  BY <1>1, <1>2, <1>3, <1>4, <1>5, <1>6, <1>7, Zenon
  DEF IdentityNext, Progress, StartFails

\* Whatever the instances that start at once do and whichever requests,
\* responses or instances fail, every running one has the stored key.
THEOREM RunsWithTheStoredKey == IdentitySpec => []OneIdentity
<1>1. KeyInv => OneIdentity
  BY Zenon DEF KeyInv
<1> QED
  BY IdentityInitInv, KeyStep, <1>1, PTL DEF IdentitySpec

-----------------------------------------------------------------------------
(* The pair in service, for any certificates issued and any number of      *)
(* restarts, interrupted runs of cert-sync and lost keys.  NothingMissed   *)
(* is not inductive: load_pair reads the chain after the modification      *)
(* times and before the key, so what it has read is tied to the time it    *)
(* will record, and no recorded time is later than the last write, which   *)
(* is why a later write is always seen as one.                             *)

\* Modification times are those of writes made.
Times == (0..writes) \X (0..writes)

\* The inductive invariant.
TlsInv ==
    /\ writes \in Nat /\ <<certTime, keyTime>> \in Times
    /\ now \in Times /\ loaded \in Times
    /\ node = "readKey" /\ now[1] = certTime => read = cert
    /\ NothingMissed

\* Every step of cert-sync, of the listener's task and of what befalls them
\* keeps the invariant.
LEMMA TlsStep == ASSUME TlsInv, [TlsNext]_tlsVars PROVE TlsInv'
<1> USE DEF TlsInv, Times, NothingMissed, Listening, fileVars, nodeVars
<1>1. CASE Renew \/ Export \/ SyncSkips \/ SyncFails
  BY <1>1, Zenon DEF Renew, Export, SyncSkips, SyncFails
<1>2. CASE WriteKey
  \* the key's time becomes later than any recorded one
  BY <1>2 DEF WriteKey
<1>3. CASE WriteCert
  BY <1>3 DEF WriteCert
<1>4. CASE LoseKey
  BY <1>4 DEF LoseKey
<1>5. CASE ReadCertTime
  BY <1>5, Zenon DEF ReadCertTime
<1>6. CASE ReadKeyTime
  BY <1>6, Zenon DEF ReadKeyTime
<1>7. CASE ReadCert
  BY <1>7, Zenon DEF ReadCert
<1>8. CASE LoadPair
  BY <1>8 DEF LoadPair, Loads
<1>9. CASE Restart
  BY <1>9 DEF Restart
<1>10. CASE UNCHANGED tlsVars
  BY <1>10, Zenon DEF tlsVars
<1> QED
  BY <1>1, <1>2, <1>3, <1>4, <1>5, <1>6, <1>7, <1>8, <1>9, <1>10, Zenon
  DEF TlsNext, Sync, Node

\* A poll of reload_on_change that skips the files because their times are
\* those of the pair in service skips nothing: that pair is the one on disk.
THEOREM SkippedPollsMissNothing == TlsSpec => []NothingMissed
<1>1. TlsInit => TlsInv
  BY DEF TlsInit, TlsInv, Times, NothingMissed, Listening
<1>2. TlsInv => NothingMissed
  BY Zenon DEF TlsInv
<1> QED
  BY <1>1, <1>2, TlsStep, PTL DEF TlsSpec

-----------------------------------------------------------------------------
(* The decision service, for any number of concurrent calls, any requests, *)
(* any batch size and any times with Timeout <= Margin < Floor.            *)
(*                                                                         *)
(* What a call has collected is what the service said about the resources  *)
(* before from, except between an answer and map_evaluations, where the    *)
(* answer accounts for the difference (CallInv).  The token's lock is held *)
(* exactly by the call that mints, and only over an empty cache, so a      *)
(* token is replaced when its cached lifetime is over (TokenInv).          *)

Place == {"idle", "url", "bearer", "mint", "minted", "post", "map"}

DecisionsTypeOK ==
    /\ pc \in [Call -> Place]
    /\ asked \in [Call -> Seq(Resource)]
    /\ from \in [Call -> Nat \ {0}]
    /\ answer \in [Call -> Seq(Evaluation)]
    /\ decided \in [Call -> SUBSET Resource]
    /\ entitled \in [Call -> SUBSET Resource]
    /\ said \in [Call -> SUBSET Resource]
    /\ result \in [Call -> {"none", "ok", "error"}]

\* The resources of c before from.
Behind(c) == {asked[c][i] : i \in 1..(from[c] - 1)}

\* What an answer to the whole batch permits.
Permitted(c) == {Chunk(c)[i] : i \in {j \in 1..Len(Chunk(c)) : answer[c][j] = "permit"}}

\* What a call has collected, at each of its places.
CallInv(c) ==
    /\ from[c] <= Len(asked[c]) + 1
    /\ decided[c] = Behind(c)
    /\ pc[c] # "idle" => from[c] <= Len(asked[c]) /\ result[c] = "none"
    /\ pc[c] \in {"url", "bearer", "mint", "minted", "post"} => entitled[c] = said[c]
    /\ pc[c] = "map" /\ Len(answer[c]) = Len(Chunk(c)) => said[c] = entitled[c] \cup Permitted(c)
    /\ result[c] = "ok" => from[c] = Len(asked[c]) + 1 /\ entitled[c] = said[c]

DecideInv == DecisionsTypeOK /\ \A c \in Call : CallInv(c)

\* The token and its lock.
TokenInv ==
    /\ pc \in [Call -> Place] /\ holder \in Call \cup {NoCall}
    /\ cacheLeft \in Nat /\ sinceMint \in Nat /\ expiresIn \in Nat
    /\ \A c \in Call : pc[c] \in {"mint", "minted"} <=> holder = c
    /\ holder # NoCall => cacheLeft = 0
    /\ sinceMint + cacheLeft >= Spacing

\* What the cache relies on: it gives a token up before the token expires.
LiveInv ==
    /\ tokenLeft \in Nat /\ flight \in Nat
    /\ cacheLeft <= tokenLeft
    /\ \A c \in Call : pc[c] = "minted" => flight <= Timeout /\ expiresIn \in Lifetimes

\* A call at its first resource has none behind it.
LEMMA NoneBelowOne == ASSUME NEW k, k = 1 PROVE 1..(k - 1) = {}
  OBVIOUS

\* A batch that does not pass the end of the request ends within it.
LEMMA WithinTheEnd ==
    \A a \in Nat, n \in Nat, b \in Nat : ~(a + n > b) => a + n <= b
  OBVIOUS

\* A batch is the next resources, at least one and no more than there are.
LEMMA ChunkIsNext ==
    ASSUME DecisionsTypeOK, NEW c \in Call, from[c] <= Len(asked[c])
    PROVE  /\ Chunk(c) \in Seq(Resource)
           /\ Len(Chunk(c)) \in 1..(Len(asked[c]) - from[c] + 1)
           /\ \A i \in 1..Len(Chunk(c)) : Chunk(c)[i] = asked[c][from[c] + i - 1]
  <1>1. asked[c] \in Seq(Resource) /\ from[c] \in Nat \ {0} /\ Len(asked[c]) \in Nat
    BY DEF DecisionsTypeOK
  <1> DEFINE last == from[c] + MaxEvaluations - 1
             top == IF last < Len(asked[c]) THEN last ELSE Len(asked[c])
  <1>2. top \in from[c]..Len(asked[c])
    BY <1>1, BatchAssumption
  <1>3. Chunk(c) = SubSeq(asked[c], from[c], top)
    BY Zenon DEF Chunk
  <1> HIDE DEF top
  <1>4. /\ SubSeq(asked[c], from[c], top) \in Seq(Resource)
        /\ Len(SubSeq(asked[c], from[c], top)) = top - from[c] + 1
        /\ \A i \in 1..(top - from[c] + 1) :
              SubSeq(asked[c], from[c], top)[i] = asked[c][from[c] + i - 1]
    BY <1>1, <1>2
  <1>5. top - from[c] + 1 \in 1..(Len(asked[c]) - from[c] + 1)
    BY <1>1, <1>2
  <1> QED
    BY <1>3, <1>4, <1>5, Zenon

\* A call that a step leaves alone keeps what it has collected.
LEMMA CallFrame ==
    ASSUME NEW c \in Call, CallInv(c),
           pc'[c] = pc[c], asked'[c] = asked[c], from'[c] = from[c],
           answer'[c] = answer[c], decided'[c] = decided[c],
           entitled'[c] = entitled[c], said'[c] = said[c], result'[c] = result[c]
    PROVE  CallInv(c)'
  <1>1. Chunk(c)' = Chunk(c)
    BY Zenon DEF Chunk
  <1>2. Behind(c)' = Behind(c) /\ Permitted(c)' = Permitted(c)
    BY <1>1, Zenon DEF Behind, Permitted
  <1> QED
    BY <1>1, <1>2, Zenon DEF CallInv

\* No call has asked for anything at first.
LEMMA DecideInit == Init => DecideInv
  <1> SUFFICES ASSUME Init PROVE DecideInv
    BY Zenon
  <1>1. DecisionsTypeOK
    BY DEF Init, DecisionsTypeOK, Place
  <1>2. \A c \in Call : Behind(c) = {} /\ Len(asked[c]) = 0
    BY DEF Init, Behind
  <1> QED
    BY <1>1, <1>2 DEF Init, DecideInv, CallInv

\* A step of one call that changes only where it is: to another place before
\* the answer, or to the end with an error.
LEMMA MoveKeeps ==
    ASSUME DecideInv, NEW c \in Call, NEW where \in Place, UNCHANGED <<callVars, said>>,
           \/ /\ Move(c, where)
              /\ pc[c] \in {"url", "bearer", "mint", "minted"}
              /\ where \in {"bearer", "mint", "minted", "post"}
           \/ End(c, "error") /\ pc[c] # "idle"
    PROVE  DecideInv'
  <1>1. DecisionsTypeOK'
    BY Zenon DEF DecideInv, DecisionsTypeOK, callVars, Move, End, Goto, Place
  <1>2. ASSUME NEW d \in Call, d # c PROVE CallInv(d)'
    BY <1>2, CallFrame, Zenon DEF DecideInv, DecisionsTypeOK, callVars, Move, End, Goto
  <1>3. CallInv(c)'
    <2>1. Behind(c)' = Behind(c)
      BY Zenon DEF Behind, callVars
    <2>2. CASE Move(c, where) /\ pc[c] \in {"url", "bearer", "mint", "minted"}
               /\ where \in {"bearer", "mint", "minted", "post"}
      BY <2>1, <2>2, Zenon DEF DecideInv, DecisionsTypeOK, CallInv, callVars, Move, Goto
    <2>3. CASE End(c, "error") /\ pc[c] # "idle"
      BY <2>1, <2>3, Zenon DEF DecideInv, DecisionsTypeOK, CallInv, callVars, End, Goto
    <2> QED
      BY <2>2, <2>3, Zenon
  <1> QED
    BY <1>1, <1>2, <1>3, Zenon DEF DecideInv

\* decide starts with nothing collected, or answers at once.
LEMMA DecideKeeps ==
    ASSUME DecideInv, NEW c \in Call, NEW rs \in Requests, Decide(c, rs)
    PROVE  DecideInv'
  <1>0. rs \in Seq(Resource)
    BY RequestsAssumption, Zenon
  <1>1. DecisionsTypeOK'
    BY <1>0 DEF DecideInv, DecisionsTypeOK, Decide, Goto, Place
  <1>2. ASSUME NEW d \in Call, d # c PROVE CallInv(d)'
    BY <1>2, CallFrame, Zenon DEF DecideInv, DecisionsTypeOK, Decide, Goto
  <1>3. CallInv(c)'
    <2>1. /\ asked'[c] = rs /\ from'[c] = 1 /\ decided'[c] = {}
          /\ entitled'[c] = {} /\ said'[c] = {}
          /\ pc'[c] = (IF rs = <<>> THEN "idle" ELSE "url")
          /\ result'[c] = (IF rs = <<>> THEN "ok" ELSE "none")
      BY Zenon DEF DecideInv, DecisionsTypeOK, Decide, Goto
    <2>2. Behind(c)' = {}
      <3>1. 1..(from'[c] - 1) = {}
        BY <2>1, NoneBelowOne, Zenon
      <3> QED
        BY <3>1, Zenon DEF Behind
    <2>3. /\ 1 <= Len(rs) + 1 /\ (rs # <<>> => 1 <= Len(rs))
          /\ rs = <<>> => 1 = Len(rs) + 1
      BY <1>0
    <2> QED
      BY <2>1, <2>2, <2>3, Zenon DEF CallInv
  <1> QED
    BY <1>1, <1>2, <1>3, Zenon DEF DecideInv

\* An answer that lost an evaluation is shorter than the batch.
LEMMA LostIsShorter ==
    ASSUME NEW n \in Nat, NEW es \in [1..n -> Evaluation], NEW lost \in 1..n
    PROVE  LeaveOut(es, lost) \in Seq(Evaluation) /\ Len(LeaveOut(es, lost)) # n
  <1>1. es \in Seq(Evaluation) /\ Len(es) = n
    OBVIOUS
  <1>2. SubSeq(es, 1, lost - 1) \in Seq(Evaluation) /\ Len(SubSeq(es, 1, lost - 1)) = lost - 1
    BY <1>1
  <1>3. SubSeq(es, lost + 1, n) \in Seq(Evaluation) /\ Len(SubSeq(es, lost + 1, n)) = n - lost
    BY <1>1
  <1>4. LeaveOut(es, lost) = SubSeq(es, 1, lost - 1) \o SubSeq(es, lost + 1, n)
    BY <1>1, Zenon DEF LeaveOut
  <1> QED
    BY <1>2, <1>3, <1>4

\* What the service says about a batch is in its answer, unless that has lost
\* an evaluation.
LEMMA EvaluateKeeps ==
    ASSUME DecideInv, NEW c \in Call, Evaluate(c)
    PROVE  DecideInv'
  <1> DEFINE n == Len(Chunk(c))
  <1>0. /\ DecisionsTypeOK /\ CallInv(c) /\ pc[c] = "post" /\ pc'[c] = "map"
        /\ pc' = [pc EXCEPT ![c] = "map"]
        /\ UNCHANGED <<asked, from, decided, entitled, result>>
    BY Zenon DEF DecideInv, DecisionsTypeOK, Evaluate, Move, Goto
  <1>1. /\ Chunk(c) \in Seq(Resource) /\ n \in Nat
        /\ entitled[c] = said[c] /\ from[c] <= Len(asked[c])
    BY <1>0, ChunkIsNext DEF CallInv
  <1>2. PICK es \in [1..n -> Evaluation], lost \in 0..n :
          /\ answer' = [answer EXCEPT ![c] = IF lost = 0 THEN es ELSE LeaveOut(es, lost)]
          /\ said' = [said EXCEPT ![c] = @ \cup
                        {Chunk(c)[i] : i \in {j \in DOMAIN es : es[j] = "permit"}}]
    BY Zenon DEF Evaluate
  <1> HIDE DEF n
  <1>3. /\ lost = 0 => answer'[c] = es /\ es \in Seq(Evaluation)
        /\ lost # 0 => answer'[c] \in Seq(Evaluation) /\ Len(answer'[c]) # n
    <2>1. answer'[c] = IF lost = 0 THEN es ELSE LeaveOut(es, lost)
      BY <1>0, <1>2, Zenon DEF DecisionsTypeOK
    <2>2. es \in Seq(Evaluation)
      BY <1>1
    <2>3. lost # 0 => lost \in 1..n
      BY <1>1
    <2> QED
      BY <1>1, <2>1, <2>2, <2>3, LostIsShorter, Zenon
  <1> DEFINE new == {Chunk(c)[i] : i \in {j \in 1..n : es[j] = "permit"}}
  <1>4. said'[c] = said[c] \cup new /\ new \subseteq Resource
    <2>1. DOMAIN es = 1..n
      BY <1>2, Zenon
    <2>2. said'[c] = said[c] \cup new
      BY <1>0, <1>2, <2>1, Zenon DEF DecisionsTypeOK
    <2>3. \A i \in 1..n : Chunk(c)[i] \in Resource
      BY <1>1 DEF n
    <2> QED
      BY <2>2, <2>3, Zenon
  <1> HIDE DEF new
  <1>5. said' \in [Call -> SUBSET Resource]
    BY <1>0, <1>2, <1>4, Zenon DEF DecisionsTypeOK
  <1>6. answer' \in [Call -> Seq(Evaluation)]
    BY <1>0, <1>2, <1>3, Zenon DEF DecisionsTypeOK
  <1>7. DecisionsTypeOK'
    BY <1>0, <1>5, <1>6, Zenon DEF DecisionsTypeOK, Place
  <1>8. ASSUME NEW d \in Call, d # c PROVE CallInv(d)'
    BY <1>0, <1>2, <1>8, CallFrame, Zenon DEF DecideInv, DecisionsTypeOK
  <1>9. Chunk(c)' = Chunk(c) /\ Behind(c)' = Behind(c)
    BY <1>0, Zenon DEF Chunk, Behind
  <1>10. ASSUME Len(answer'[c]) = n PROVE said'[c] = entitled'[c] \cup Permitted(c)'
    <2>1. answer'[c] = es
      BY <1>3, <1>10, Zenon
    <2>2. Permitted(c)' = new
      BY <1>9, <2>1, Zenon DEF Permitted, new, n
    <2> QED
      BY <1>0, <1>1, <1>4, <2>2, Zenon
  <1>11. CallInv(c)'
    BY <1>0, <1>9, <1>10, Zenon DEF CallInv, n
  <1> QED
    BY <1>7, <1>8, <1>11, Zenon DEF DecideInv

\* map_evaluations collects a batch as a whole or fails the call.
LEMMA MapKeeps ==
    ASSUME DecideInv, NEW c \in Call, MapEvaluations(c)
    PROVE  DecideInv'
  <1>0. DecisionsTypeOK /\ CallInv(c) /\ pc[c] = "map" /\ UNCHANGED <<asked, said>>
    BY Zenon DEF DecideInv, MapEvaluations
  <1>1. CASE Len(answer[c]) # Len(Chunk(c))
    <2>1. End(c, "error") /\ UNCHANGED <<callVars, said>>
      BY <1>1, Zenon DEF MapEvaluations, callVars
    <2> QED
      BY <1>0, <2>1, MoveKeeps, Zenon DEF Place
  <1>2. CASE Len(answer[c]) = Len(Chunk(c))
    <2> DEFINE n == Len(Chunk(c))
               batch == {Chunk(c)[i] : i \in 1..n}
    <2>1. /\ from[c] <= Len(asked[c]) /\ result[c] = "none" /\ from[c] \in Nat \ {0}
          /\ asked[c] \in Seq(Resource)
          /\ said[c] = entitled[c] \cup Permitted(c)
          /\ Chunk(c) \in Seq(Resource) /\ n \in 1..(Len(asked[c]) - from[c] + 1)
          /\ \A i \in 1..n : Chunk(c)[i] = asked[c][from[c] + i - 1]
      BY <1>0, <1>2, ChunkIsNext, Zenon DEF CallInv, DecisionsTypeOK
    <2>2. Paired(c) = 1..n
      BY <1>2, <2>1, Zenon DEF Paired
    <2>3. Collect(c)
      BY <1>2, Zenon DEF MapEvaluations
    <2>4. /\ decided' = [decided EXCEPT ![c] = @ \cup batch]
          /\ entitled' = [entitled EXCEPT ![c] = @ \cup Permitted(c)]
      BY <2>2, <2>3, Zenon DEF Collect, Entitled, Permitted
    <2>5. /\ from' = [from EXCEPT ![c] = @ + n]
          /\ answer' = [answer EXCEPT ![c] = <<>>]
          /\ IF from'[c] > Len(asked[c]) THEN End(c, "ok") ELSE Move(c, "bearer")
      BY <2>3, Zenon DEF Collect
    <2>6. batch \subseteq Resource /\ Permitted(c) \subseteq Resource
      <3>1. \A i \in 1..n : Chunk(c)[i] \in Resource
        BY <2>1
      <3> QED
        BY <3>1, Zenon DEF Permitted
    <2>0. /\ from[c] \in Nat /\ from[c] > 0 /\ n \in Nat /\ Len(asked[c]) \in Nat
          /\ from[c] + n <= Len(asked[c]) + 1
      BY <2>1
    <2> HIDE DEF n
    <2>7. Behind(c)' = Behind(c) \cup batch
      <3>1. Behind(c)' = {asked[c][i] : i \in 1..(from[c] + n - 1)}
        <4>1. asked'[c] = asked[c] /\ from'[c] = from[c] + n
          BY <1>0, <2>5, Zenon DEF DecisionsTypeOK
        <4>2. from'[c] - 1 = from[c] + n - 1
          BY <2>0, <4>1
        <4> QED
          BY <4>1, <4>2, Zenon DEF Behind
      <3>2. ASSUME NEW i \in 1..(from[c] + n - 1)
            PROVE  asked[c][i] \in Behind(c) \cup batch
        <4>1. CASE i <= from[c] - 1
          <5>1. i \in 1..(from[c] - 1)
            BY <2>0, <4>1
          <5> QED
            BY <5>1, Zenon DEF Behind
        <4>2. CASE i > from[c] - 1
          <5>0. from[c] \in Nat /\ n \in Nat /\ i \in Nat /\ i <= from[c] + n - 1
            BY <2>0
          <5>1. i - from[c] + 1 \in 1..n /\ from[c] + (i - from[c] + 1) - 1 = i
            BY <4>2, <5>0
          <5>2. Chunk(c)[i - from[c] + 1] = asked[c][i]
            BY <2>1, <5>1, Zenon
          <5> QED
            BY <5>1, <5>2, Zenon
        <4>3. i <= from[c] - 1 \/ i > from[c] - 1
          BY <2>0
        <4> QED
          BY <4>1, <4>2, <4>3, Zenon
      <3>3. ASSUME NEW i \in 1..n PROVE Chunk(c)[i] \in Behind(c)'
        <4>1. from[c] + i - 1 \in 1..(from[c] + n - 1)
          BY <2>0
        <4>2. Chunk(c)[i] = asked[c][from[c] + i - 1]
          BY <2>1, Zenon
        <4> QED
          BY <3>1, <4>1, <4>2, Zenon
      <3>4. Behind(c) \subseteq Behind(c)'
        <4>1. \A i \in 1..(from[c] - 1) : i \in 1..(from[c] + n - 1)
          BY <2>0
        <4> QED
          BY <3>1, <4>1, Zenon DEF Behind
      <3>5. Behind(c)' \subseteq Behind(c) \cup batch
        BY <3>1, <3>2, Zenon
      <3> QED
        BY <3>3, <3>4, <3>5, Zenon
    <2> HIDE DEF batch
    <2>8. /\ from'[c] = from[c] + n /\ decided'[c] = decided[c] \cup batch
          /\ entitled'[c] = entitled[c] \cup Permitted(c)
          /\ asked'[c] = asked[c] /\ said'[c] = said[c]
      BY <1>0, <2>4, <2>5, Zenon DEF DecisionsTypeOK
    <2>9. DecisionsTypeOK'
      <3>1. from' \in [Call -> Nat \ {0}]
        <4>1. from[c] + n \in Nat \ {0}
          BY <2>0
        <4> QED
          BY <1>0, <2>5, <4>1, Zenon DEF DecisionsTypeOK
      <3>2. decided' \in [Call -> SUBSET Resource] /\ entitled' \in [Call -> SUBSET Resource]
        BY <1>0, <2>4, <2>6, Zenon DEF DecisionsTypeOK
      <3>3. answer' \in [Call -> Seq(Evaluation)]
        BY <1>0, <2>5 DEF DecisionsTypeOK
      <3>4. pc' \in [Call -> Place] /\ result' \in [Call -> {"none", "ok", "error"}]
        BY <1>0, <2>5, Zenon DEF DecisionsTypeOK, End, Move, Goto, Place
      <3> QED
        BY <1>0, <3>1, <3>2, <3>3, <3>4, Zenon DEF DecisionsTypeOK
    <2>10. ASSUME NEW d \in Call, d # c PROVE CallInv(d)'
      BY <1>0, <2>4, <2>5, <2>10, CallFrame, Zenon DEF DecideInv, DecisionsTypeOK, End, Move, Goto
    <2>11. \/ pc'[c] = "idle" /\ result'[c] = "ok" /\ from'[c] > Len(asked[c])
           \/ pc'[c] = "bearer" /\ result'[c] = "none" /\ from'[c] <= Len(asked[c])
      <3>1. CASE from'[c] > Len(asked[c])
        BY <1>0, <2>5, <3>1, Zenon DEF DecisionsTypeOK, End, Goto
      <3>2. CASE ~(from'[c] > Len(asked[c]))
        <4>1. from'[c] <= Len(asked[c])
          BY <2>0, <2>8, <3>2, WithinTheEnd, Zenon
        <4>2. pc'[c] = "bearer" /\ result'[c] = "none"
          BY <1>0, <2>1, <2>5, <3>2, Zenon DEF DecisionsTypeOK, Move, Goto
        <4> QED
          BY <4>1, <4>2, Zenon
      <3> QED
        BY <3>1, <3>2, Zenon
    <2>12. decided'[c] = Behind(c)' /\ entitled'[c] = said'[c]
      BY <1>0, <2>1, <2>7, <2>8, Zenon DEF CallInv
    <2>13. /\ from'[c] <= Len(asked'[c]) + 1
           /\ pc'[c] = "idle" => from'[c] = Len(asked'[c]) + 1
      <3>1. from'[c] = from[c] + n /\ Len(asked'[c]) = Len(asked[c])
        BY <2>8, Zenon
      <3>2. pc'[c] = "idle" => from'[c] > Len(asked[c])
        BY <2>11, Zenon
      <3> QED
        BY <2>0, <3>1, <3>2
    <2>14. CallInv(c)'
      BY <2>8, <2>11, <2>12, <2>13, Zenon DEF CallInv
    <2> QED
      BY <2>9, <2>10, <2>14, Zenon DEF DecideInv
  <1> QED
    BY <1>1, <1>2, Zenon

\* Every step keeps what the calls have collected.
LEMMA DecideStep == ASSUME DecideInv, [Next]_vars PROVE DecideInv'
  <1>1. CASE Tick \/ UNCHANGED vars
    <2>1. UNCHANGED <<pc, callVars, result, said>>
      BY <1>1, Zenon DEF Tick, vars
    <2>2. \A c \in Call : CallInv(c)'
      BY <2>1, CallFrame, Zenon DEF DecideInv, callVars
    <2> QED
      BY <2>1, <2>2, Zenon DEF DecideInv, DecisionsTypeOK, callVars
  <1>2. ASSUME NEW c \in Call, NEW rs \in Requests, Decide(c, rs) PROVE DecideInv'
    BY <1>2, DecideKeeps, Zenon
  <1>3. ASSUME NEW c \in Call, Lock(c) PROVE DecideInv'
    <2>1. CASE cacheLeft > 0
      BY <1>3, <2>1, MoveKeeps, Zenon DEF Lock, Place
    <2>2. CASE ~(cacheLeft > 0)
      BY <1>3, <2>2, MoveKeeps, Zenon DEF Lock, Place
    <2> QED
      BY <2>1, <2>2, Zenon
  <1>4. ASSUME NEW c \in Call, EvaluationsEndpoint(c) PROVE DecideInv'
    BY <1>4, MoveKeeps, Zenon DEF EvaluationsEndpoint, Place
  <1>5. ASSUME NEW c \in Call, Issue(c) PROVE DecideInv'
    BY <1>5, MoveKeeps, Zenon DEF Issue, Place
  <1>6. ASSUME NEW c \in Call, StoreToken(c) PROVE DecideInv'
    BY <1>6, MoveKeeps, Zenon DEF StoreToken, Place
  <1>7. ASSUME NEW c \in Call, Evaluate(c) PROVE DecideInv'
    BY <1>7, EvaluateKeeps, Zenon
  <1>8. ASSUME NEW c \in Call, MapEvaluations(c) PROVE DecideInv'
    BY <1>8, MapKeeps, Zenon
  <1>9. ASSUME NEW c \in Call, Fail(c) PROVE DecideInv'
    <2>1. /\ End(c, "error") /\ pc[c] # "idle"
          /\ UNCHANGED <<callVars, said>>
      BY <1>9, Zenon DEF Fail, DiscoveryFails, MintFails, PostFails
    <2>2. "idle" \in Place
      BY Zenon DEF Place
    <2> QED
      BY <2>1, <2>2, MoveKeeps, Zenon
  <1> QED
    BY <1>1, <1>2, <1>3, <1>4, <1>5, <1>6, <1>7, <1>8, <1>9, Zenon DEF Next, Step

\* A decide that succeeds has the service's decision about every resource
\* asked for, and entitles exactly what the service permitted during the call,
\* for any batch size and however answers are cut short and calls fail.
THEOREM DecidesAsTheService == Spec => []DecisionsAreTheServices
  <1>1. ASSUME DecideInv, NEW c \in Call, result[c] = "ok"
        PROVE  decided[c] = Range(asked[c]) /\ entitled[c] = said[c]
    <2>1. /\ asked[c] \in Seq(Resource) /\ decided[c] = Behind(c)
          /\ from[c] = Len(asked[c]) + 1 /\ entitled[c] = said[c]
      BY <1>1, Zenon DEF DecideInv, DecisionsTypeOK, CallInv
    <2>2. 1..(from[c] - 1) = DOMAIN asked[c]
      BY <2>1
    <2>3. Behind(c) = Range(asked[c])
      BY <2>2, Zenon DEF Behind, Range
    <2> QED
      BY <2>1, <2>3, Zenon
  <1>2. DecideInv => DecisionsAreTheServices
    BY <1>1, Zenon DEF DecisionsAreTheServices
  <1> QED
    BY <1>2, DecideInit, DecideStep, PTL DEF Spec

-----------------------------------------------------------------------------
(* The service token.                                                      *)

\* The lock is free and the cache empty at first.
LEMMA TokenInit == Init => TokenInv
  BY NoCallAssumption, TimeAssumption DEF Init, TokenInv, Place, Spacing

\* Every step keeps the lock with the call that mints, over an empty cache.
LEMMA TokenStep == ASSUME TokenInv, [Next]_vars PROVE TokenInv'
  <1> USE NoCallAssumption, TimeAssumption DEF TokenInv, Place, Spacing
  <1>1. CASE Tick
    BY <1>1 DEF Tick, Less
  <1>2. CASE UNCHANGED vars
    BY <1>2, Zenon DEF vars, tokenVars
  <1>3. ASSUME NEW c \in Call, NEW rs \in Requests, Decide(c, rs) PROVE TokenInv'
    BY <1>3, Zenon DEF Decide, Goto, tokenVars
  <1>4. ASSUME NEW c \in Call, Lock(c) PROVE TokenInv'
    BY <1>4 DEF Lock, Move, Goto
  <1>5. ASSUME NEW c \in Call, EvaluationsEndpoint(c) PROVE TokenInv'
    BY <1>5, Zenon DEF EvaluationsEndpoint, Move, Goto, tokenVars
  <1>6. ASSUME NEW c \in Call, Issue(c) PROVE TokenInv'
    BY <1>6, Zenon DEF Issue, Move, Goto
  <1>7. ASSUME NEW c \in Call, StoreToken(c) PROVE TokenInv'
    <2>1. cacheLeft' \in Nat /\ cacheLeft' >= Spacing
      BY <1>7 DEF StoreToken, CachedFor, Greatest
    <2> QED
      BY <1>7, <2>1 DEF StoreToken, Move, Goto
  <1>8. ASSUME NEW c \in Call, Evaluate(c) PROVE TokenInv'
    BY <1>8, Zenon DEF Evaluate, Move, Goto, tokenVars
  <1>9. ASSUME NEW c \in Call, MapEvaluations(c) PROVE TokenInv'
    BY <1>9, Zenon DEF MapEvaluations, Collect, Move, End, Goto, tokenVars
  <1>10. ASSUME NEW c \in Call, MintFails(c) PROVE TokenInv'
    BY <1>10, Zenon DEF MintFails, End, Goto
  <1>11. ASSUME NEW c \in Call, DiscoveryFails(c) \/ PostFails(c) PROVE TokenInv'
    BY <1>11, Zenon DEF DiscoveryFails, PostFails, End, Goto, tokenVars
  <1> QED
    BY <1>1, <1>2, <1>3, <1>4, <1>5, <1>6, <1>7, <1>8, <1>9, <1>10, <1>11, Zenon
    DEF Next, Step, Fail

\* service_bearer holds the lock across the request, so concurrent calls
\* collapse to one: two tokens are stored at least Spacing apart.
THEOREM OneMintAtATime == Spec => MintsAreSpaced
  <1>1. TokenInv /\ [Next]_vars =>
          [\A c \in Call : pc[c] = "minted" /\ pc'[c] = "post" => sinceMint >= Spacing]_vars
    <2> SUFFICES ASSUME TokenInv, NEW c \in Call, pc[c] = "minted"
                 PROVE  sinceMint >= Spacing
      BY Zenon
    <2>1. holder = c /\ holder # NoCall
      BY NoCallAssumption, Zenon DEF TokenInv
    <2> QED
      BY <2>1, TimeAssumption DEF TokenInv, Spacing
  <1> QED
    BY <1>1, TokenInit, TokenStep, PTL DEF Spec, MintsAreSpaced

\* What service_bearer's floor takes for granted: a token lives at least as
\* long as one is cached at the least, and a timeout longer.
TokensOutliveTheFloor == \A life \in Lifetimes : life >= Spacing + Timeout

\* Then a cached token is never older than it says, response times included.
LEMMA LiveStep ==
    ASSUME TokensOutliveTheFloor, TokenInv, LiveInv, [Next]_vars
    PROVE  LiveInv'
  <1> USE NoCallAssumption, TimeAssumption DEF TokenInv, LiveInv, Place
  <1>1. CASE Tick
    BY <1>1 DEF Tick, Less
  <1>2. CASE UNCHANGED vars
    BY <1>2, Zenon DEF vars, tokenVars
  <1>3. ASSUME NEW c \in Call, NEW rs \in Requests, Decide(c, rs) PROVE LiveInv'
    BY <1>3, Zenon DEF Decide, Goto, tokenVars
  <1>4. ASSUME NEW c \in Call, Lock(c) PROVE LiveInv'
    BY <1>4, Zenon DEF Lock, Move, Goto
  <1>5. ASSUME NEW c \in Call, EvaluationsEndpoint(c) PROVE LiveInv'
    BY <1>5, Zenon DEF EvaluationsEndpoint, Move, Goto, tokenVars
  <1>6. ASSUME NEW c \in Call, Issue(c) PROVE LiveInv'
    \* nobody else is minting
    BY <1>6 DEF Issue, Move, Goto
  <1>7. ASSUME NEW c \in Call, StoreToken(c) PROVE LiveInv'
    <2>1. /\ expiresIn \in Lifetimes /\ flight <= Timeout
          /\ expiresIn >= Floor - Margin + Timeout
      BY <1>7, Zenon DEF StoreToken, TokensOutliveTheFloor, Spacing
    <2>2. cacheLeft' <= tokenLeft' /\ tokenLeft' \in Nat /\ flight' \in Nat
      BY <1>7, <2>1 DEF StoreToken, CachedFor, Greatest
    <2>3. \A d \in Call : pc'[d] # "minted"
      BY <1>7, Zenon DEF StoreToken, Move, Goto
    <2> QED
      BY <2>2, <2>3, Zenon
  <1>8. ASSUME NEW c \in Call, Evaluate(c) PROVE LiveInv'
    BY <1>8, Zenon DEF Evaluate, Move, Goto, tokenVars
  <1>9. ASSUME NEW c \in Call, MapEvaluations(c) PROVE LiveInv'
    BY <1>9, Zenon DEF MapEvaluations, Collect, Move, End, Goto, tokenVars
  <1>10. ASSUME NEW c \in Call, MintFails(c) PROVE LiveInv'
    BY <1>10, Zenon DEF MintFails, End, Goto
  <1>11. ASSUME NEW c \in Call, DiscoveryFails(c) \/ PostFails(c) PROVE LiveInv'
    BY <1>11, Zenon DEF DiscoveryFails, PostFails, End, Goto, tokenVars
  <1> QED
    BY <1>1, <1>2, <1>3, <1>4, <1>5, <1>6, <1>7, <1>8, <1>9, <1>10, <1>11, Zenon
    DEF Next, Step, Fail

\* A request is never given a token that has expired, provided the identity
\* provider's tokens outlive the floor (70 s with the code's 120 s, 60 s and
\* 10 s).  Without that the claim is false: max(expires_in, 120) - 60 caches
\* a token of a shorter life past its end.
THEOREM HandedTokensAreLive == ASSUME TokensOutliveTheFloor PROVE Spec => TokenIsLive
  <1>1. Init => LiveInv
    BY DEF Init, LiveInv
  <1>2. TokenInv /\ LiveInv /\ [Next]_vars => LiveInv'
    BY LiveStep, Zenon
  <1>3. TokenInv /\ LiveInv /\ [Next]_vars =>
          [\A c \in Call : pc[c] # "post" /\ pc'[c] = "post" => tokenLeft' > 0]_vars
    <2> SUFFICES ASSUME TokenInv, LiveInv, Next, NEW c \in Call,
                        pc[c] # "post", pc'[c] = "post"
                 PROVE  tokenLeft' > 0
      BY Zenon
    <2>1. (Lock(c) /\ cacheLeft > 0) \/ StoreToken(c)
      <3>1. pc \in [Call -> Place]
        BY Zenon DEF TokenInv
      <3>2. ~ Tick
        BY Zenon DEF Tick
      <3>3. ASSUME NEW d \in Call, NEW rs \in Requests PROVE ~ Decide(d, rs)
        BY <3>1, Zenon DEF Decide, Goto
      <3>4. ASSUME NEW d \in Call PROVE ~ Fail(d)
        BY <3>1, Zenon DEF Fail, MintFails, DiscoveryFails, PostFails, End, Goto
      <3>5. ASSUME NEW d \in Call
            PROVE  ~ EvaluationsEndpoint(d) /\ ~ Issue(d) /\ ~ Evaluate(d)
        BY <3>1, Zenon DEF EvaluationsEndpoint, Issue, Evaluate, Move, Goto
      <3>6. ASSUME NEW d \in Call PROVE ~ MapEvaluations(d)
        BY <3>1, Zenon DEF MapEvaluations, Collect, Move, End, Goto
      <3>7. ASSUME NEW d \in Call, Lock(d) PROVE d = c /\ cacheLeft > 0
        BY <3>1, <3>7, Zenon DEF Lock, Move, Goto
      <3>8. ASSUME NEW d \in Call, StoreToken(d) PROVE d = c
        BY <3>1, <3>8, Zenon DEF StoreToken, Move, Goto
      <3> QED
        BY <3>2, <3>3, <3>4, <3>5, <3>6, <3>7, <3>8, Zenon DEF Next, Step
    <2>2. CASE Lock(c) /\ cacheLeft > 0
      BY <2>2 DEF Lock, TokenInv, LiveInv
    <2>3. CASE StoreToken(c)
      <3>1. expiresIn >= Floor - Margin + Timeout /\ flight <= Timeout
        BY <2>3, Zenon DEF LiveInv, StoreToken, TokensOutliveTheFloor, Spacing
      <3> QED
        BY <2>3, <3>1, TimeAssumption DEF StoreToken, Greatest, TokenInv, LiveInv
    <2> QED
      BY <2>1, <2>2, <2>3, Zenon
  <1> QED
    BY <1>1, <1>2, <1>3, TokenInit, TokenStep, PTL DEF Spec, TokenIsLive

=============================================================================
