----------------------------- MODULE Decisions -----------------------------
(***************************************************************************)
(* Asking the decision service: AuthZenClient::decide and service_bearer   *)
(* (src/src/authz.rs).  Concurrent calls share a service token, minted     *)
(* under a lock that is held across the request to the identity provider,  *)
(* and the discovered URL.  A call asks for its resources in batches of    *)
(* MAX_EVALUATIONS; the service answers each batch by position.            *)
(*                                                                         *)
(* The credential is ClientCredentials; the two others need no token.      *)
(* Times are what is left of an interval.                                  *)
(***************************************************************************)
EXTENDS Integers, Sequences, Functions

CONSTANTS Call,            \* concurrent calls of decide, each made repeatedly
          NoCall,
          Requests,        \* the sequences of resources they ask for
          MaxEvaluations,  \* MAX_EVALUATIONS
          Lifetimes,       \* the expires_in the provider may answer with
          Margin,          \* TOKEN_REFRESH_MARGIN
          Floor,           \* the least lifetime service_bearer assumes
          Timeout          \* the HTTP client's timeout

ASSUME NoCallAssumption == NoCall \notin Call
ASSUME BatchAssumption == MaxEvaluations \in Nat \ {0}
ASSUME TimeAssumption == /\ Lifetimes \subseteq Nat
                         /\ Margin \in Nat /\ Floor \in Nat /\ Timeout \in Nat
                         /\ Timeout <= Margin /\ Margin < Floor

Resource == UNION {Range(rs) : rs \in Requests}

\* Every caller asks about one resource, or about none twice.
ASSUME RequestsAssumption == /\ Requests \subseteq Seq(Resource)
                             /\ \A rs \in Requests : IsInjective(rs)

\* An EvaluationEntry: the decision, and whether obligations come with it.
Evaluation == {"permit", "obliged", "deny"}

VARIABLES
    pc,         \* where each call is
    asked,      \* its DecisionRequest.resources
    from,       \* the index of the first one not yet decided
    answer,     \* the service's answer to the current batch
    decided,    \* keys of the Decisions collected so far
    entitled,   \* those of them with the value true
    result,     \* how the call ended
    url,        \* whether evaluations_url is known
    holder,     \* who holds token_cache
    cacheLeft,  \* time until CachedToken.expires_at
    tokenLeft,  \* time until the cached token really expires
    expiresIn,  \* of the token being minted
    flight,     \* time since the provider issued it
    said,       \* history: what the service permitted during the call
    sinceMint   \* history: time since a token was stored

callVars == <<asked, from, answer, decided, entitled>>
tokenVars == <<holder, cacheLeft, tokenLeft, expiresIn, flight, sinceMint>>
vars == <<pc, callVars, result, url, tokenVars, said>>

Greatest(a, b) == IF a > b THEN a ELSE b
Spacing == Floor - Margin

Init ==
    /\ pc = [c \in Call |-> "idle"]
    /\ asked = [c \in Call |-> <<>>] /\ from = [c \in Call |-> 1]
    /\ answer = [c \in Call |-> <<>>]
    /\ decided = [c \in Call |-> {}] /\ entitled = [c \in Call |-> {}]
    /\ result = [c \in Call |-> "none"]
    /\ url = "unknown" /\ holder = NoCall
    /\ cacheLeft = 0 /\ tokenLeft = 0 /\ expiresIn = 0 /\ flight = 0
    /\ said = [c \in Call |-> {}] /\ sinceMint = Spacing

Goto(c, place) == pc' = [pc EXCEPT ![c] = place]
End(c, how) == Goto(c, "idle") /\ result' = [result EXCEPT ![c] = how]
Move(c, place) == Goto(c, place) /\ UNCHANGED result

-----------------------------------------------------------------------------
(* Time.                                                                   *)

Less(t) == IF t > 0 THEN t - 1 ELSE 0

\* No token request outlasts the client's timeout.
Tick ==
    /\ (\E c \in Call : pc[c] = "minted") => flight < Timeout
    /\ cacheLeft' = Less(cacheLeft) /\ tokenLeft' = Less(tokenLeft)
    /\ flight' = IF \E c \in Call : pc[c] = "minted" THEN flight + 1 ELSE flight
    /\ sinceMint' = IF sinceMint < Spacing THEN sinceMint + 1 ELSE sinceMint
    /\ UNCHANGED <<pc, callVars, result, url, holder, expiresIn, said>>

-----------------------------------------------------------------------------
(* decide and evaluations_endpoint.                                        *)

\* A call without resources is answered at once.
Decide(c, rs) ==
    /\ pc[c] = "idle"
    /\ asked' = [asked EXCEPT ![c] = rs] /\ from' = [from EXCEPT ![c] = 1]
    /\ answer' = [answer EXCEPT ![c] = <<>>]
    /\ decided' = [decided EXCEPT ![c] = {}]
    /\ entitled' = [entitled EXCEPT ![c] = {}]
    /\ said' = [said EXCEPT ![c] = {}]
    /\ Goto(c, IF rs = <<>> THEN "idle" ELSE "url")
    /\ result' = [result EXCEPT ![c] = IF rs = <<>> THEN "ok" ELSE "none"]
    /\ UNCHANGED <<url, tokenVars>>

\* The cached URL, or the discovery document's.
EvaluationsEndpoint(c) ==
    /\ pc[c] = "url"
    /\ url' = "known"
    /\ Move(c, "bearer")
    /\ UNCHANGED <<callVars, tokenVars, said>>

\* Discovery fails, or names a URL on another origin or without https.
DiscoveryFails(c) ==
    /\ pc[c] = "url" /\ url = "unknown"
    /\ End(c, "error")
    /\ UNCHANGED <<callVars, url, tokenVars, said>>

-----------------------------------------------------------------------------
(* service_bearer.                                                         *)

\* Mutated form: the cache was read before the lock was taken.
LockUnchecked(c) ==
    /\ pc[c] = "bearer" /\ holder = NoCall
    /\ Move(c, "mint") /\ holder' = c
    /\ UNCHANGED <<callVars, url, cacheLeft, tokenLeft, expiresIn, flight, said, sinceMint>>

\* With the lock: the cached token while it is fresh, else mint one.
Lock(c) ==
    /\ pc[c] = "bearer" /\ holder = NoCall
    /\ IF cacheLeft > 0 THEN Move(c, "post") /\ UNCHANGED holder
                        ELSE Move(c, "mint") /\ holder' = c
    /\ UNCHANGED <<callVars, url, cacheLeft, tokenLeft, expiresIn, flight, said, sinceMint>>

\* The identity provider issues a token.
Issue(c) ==
    /\ pc[c] = "mint"
    /\ expiresIn' \in Lifetimes /\ flight' = 0
    /\ Move(c, "minted")
    /\ UNCHANGED <<callVars, url, holder, cacheLeft, tokenLeft, said, sinceMint>>

\* Mutated form: without the margin.
CachedForLong == Greatest(expiresIn, Floor)

\* How long the token is cached.
CachedFor == Greatest(Greatest(expiresIn, Floor) - Margin, 0)

\* The response arrives and is cached; the guard drops.
StoreToken(c) ==
    /\ pc[c] = "minted"
    /\ cacheLeft' = CachedFor
    /\ tokenLeft' = Greatest(expiresIn - flight, 0)
    /\ holder' = NoCall /\ expiresIn' = 0 /\ flight' = 0 /\ sinceMint' = 0
    /\ Move(c, "post")
    /\ UNCHANGED <<callVars, url, said>>

\* Mutated form: an early return that keeps the lock.
MintFailsLocked(c) ==
    /\ pc[c] \in {"mint", "minted"}
    /\ End(c, "error")
    /\ expiresIn' = 0 /\ flight' = 0
    /\ UNCHANGED <<callVars, url, holder, cacheLeft, tokenLeft, said, sinceMint>>

\* The request fails or times out: nothing is cached, the guard drops.
MintFails(c) ==
    /\ pc[c] \in {"mint", "minted"}
    /\ End(c, "error")
    /\ holder' = NoCall /\ expiresIn' = 0 /\ flight' = 0
    /\ UNCHANGED <<callVars, url, cacheLeft, tokenLeft, said, sinceMint>>

-----------------------------------------------------------------------------
(* decide_batch.                                                           *)

\* The current one of resources.chunks(MAX_EVALUATIONS).
Chunk(c) == LET last == from[c] + MaxEvaluations - 1
            IN  SubSeq(asked[c], from[c],
                       IF last < Len(asked[c]) THEN last ELSE Len(asked[c]))

\* The service evaluates each resource, and may leave an evaluation out.
LeaveOut(es, i) == SubSeq(es, 1, i - 1) \o SubSeq(es, i + 1, Len(es))
Evaluate(c) ==
    /\ pc[c] = "post"
    /\ \E es \in [1..Len(Chunk(c)) -> Evaluation], lost \in 0..Len(Chunk(c)) :
          /\ answer' = [answer EXCEPT ![c] =
                          IF lost = 0 THEN es ELSE LeaveOut(es, lost)]
          /\ said' = [said EXCEPT ![c] = @ \cup
                        {Chunk(c)[i] : i \in {j \in DOMAIN es : es[j] = "permit"}}]
    /\ Move(c, "map")
    /\ UNCHANGED <<asked, from, decided, entitled, url, tokenVars>>

\* evaluation_entitled: a permit with obligations entitles nobody.
Entitled(e) == e = "permit"

\* The resources answered and entitled, paired by position (zip).
Paired(c) == 1..(IF Len(answer[c]) < Len(Chunk(c)) THEN Len(answer[c]) ELSE Len(Chunk(c)))
Collect(c) ==
    /\ decided' = [decided EXCEPT ![c] = @ \cup {Chunk(c)[i] : i \in Paired(c)}]
    /\ entitled' = [entitled EXCEPT ![c] = @ \cup
                      {Chunk(c)[i] : i \in {j \in Paired(c) : Entitled(answer[c][j])}}]
    /\ from' = [from EXCEPT ![c] = @ + Len(Chunk(c))]
    /\ answer' = [answer EXCEPT ![c] = <<>>]
    /\ IF from'[c] > Len(asked[c]) THEN End(c, "ok") ELSE Move(c, "bearer")

\* Mutated form: without the count check, zip pairs what there is.
MapEvaluationsUncounted(c) ==
    /\ pc[c] = "map"
    /\ Collect(c)
    /\ UNCHANGED <<asked, url, tokenVars, said>>

\* map_evaluations, and the batch merged into the answer.  A count that does
\* not match fails the call.
MapEvaluations(c) ==
    /\ pc[c] = "map"
    /\ IF Len(answer[c]) = Len(Chunk(c)) THEN Collect(c)
       ELSE End(c, "error") /\ UNCHANGED <<from, answer, decided, entitled>>
    /\ UNCHANGED <<asked, url, tokenVars, said>>

\* The POST fails, times out or is rejected, in any batch.
PostFails(c) ==
    /\ pc[c] \in {"post", "map"}
    /\ End(c, "error")
    /\ UNCHANGED <<callVars, url, tokenVars, said>>

-----------------------------------------------------------------------------

Step(c) == \/ EvaluationsEndpoint(c) \/ Issue(c) \/ StoreToken(c)
           \/ Evaluate(c) \/ MapEvaluations(c)
Fail(c) == DiscoveryFails(c) \/ MintFails(c) \/ PostFails(c)

Next == \/ Tick
        \/ \E c \in Call : \/ \E rs \in Requests : Decide(c, rs)
                           \/ Lock(c) \/ Step(c) \/ Fail(c)

Spec == Init /\ [][Next]_vars

\* Every request ends within the client's timeout, and tokio's mutex serves
\* its waiters in order.
FairSpec == Spec /\ \A c \in Call : WF_vars(Step(c)) /\ SF_vars(Lock(c))

-----------------------------------------------------------------------------
(* Properties.                                                             *)

\* A call that succeeds has a decision for every resource it asked about, and
\* the entitled ones are exactly those the service permitted without
\* obligations during this call: whatever the batches, lost evaluations and
\* failures in between.
DecisionsAreTheServices ==
    \A c \in Call : result[c] = "ok" => /\ decided[c] = Range(asked[c])
                                        /\ entitled[c] = said[c]

\* Concurrent calls collapse to one token request: two tokens are never
\* stored closer together than the least time a token is cached.
MintsAreSpaced ==
    [][\A c \in Call : pc[c] = "minted" /\ pc'[c] = "post" => sinceMint >= Spacing]_vars

\* A token handed to a request is still valid.
TokenIsLive ==
    [][\A c \in Call : pc[c] # "post" /\ pc'[c] = "post" => tokenLeft' > 0]_vars

\* Every call ends: nobody waits forever for the token's lock.
CallsEnd == \A c \in Call : pc[c] # "idle" ~> pc[c] = "idle"

=============================================================================
