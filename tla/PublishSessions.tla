--------------------------- MODULE PublishSessions ---------------------------
(***************************************************************************)
(* Publish sessions and the gate on pushes (src/src/moderation.rs):        *)
(* POST /publish/sessions, the sessions each node holds in memory, their   *)
(* records in S3, and authorize_push, which takes a held session or looks  *)
(* the record up.                                                          *)
(*                                                                         *)
(* A session is known by the request o that opened it; its subject, chain  *)
(* and expiry are req[o]'s.  Nodes may differ in who decides and in their  *)
(* TTL, as they do while one instance replaces another.  All share the key *)
(* that seals records.                                                     *)
(***************************************************************************)
EXTENDS Integers, FiniteSets

CONSTANTS Node, Endpoint, Subject, Conn,
          Open,          \* requests to open a session
          NoOpen,        \* no session
          Suspendable,   \* bound: subjects that get suspended
          Entitled,      \* subjects whose token has the publish entitlement
          Mode,          \* [publishing] decisions of each node
          Ttl,           \* its session_ttl_secs
          MissTtl,       \* SESSION_MISS_TTL
          Lookups,       \* SESSION_LOOKUPS
          Misses,        \* SESSION_MISSES
          MaxTime,       \* bound: the clock
          MaxFaults      \* bound: failed calls and restarts

ASSUME NoOpenAssumption == NoOpen \notin Open
ASSUME SubjectAssumption == Entitled \subseteq Subject /\ Suspendable \subseteq Subject
ASSUME ModeAssumption == Mode \in [Node -> {"local", "shadow", "pdp"}]
ASSUME TtlAssumption == Ttl \in [Node -> Nat \ {0}]
ASSUME LimitAssumption == /\ MissTtl \in Nat /\ Lookups \in Nat
                          /\ Misses \in Nat \ {0}
ASSUME BoundAssumption == MaxTime \in Nat /\ MaxFaults \in Nat

NoSession == [by |-> NoOpen, expires |-> 0]
Session == [by : Open, expires : Nat]
NoPush == [how |-> "none", by |-> NoOpen]

VARIABLES
    now,        \* the clock
    suspended,  \* per node: the subjects its moderation view suspends
    opc,        \* where each open request is
    req,        \* its data
    locally,    \* requests that the local answer permits
    chained,    \* sessions that keep the chain they were decided with
    record,     \* S3 moderation/sessions/<endpoint>
    late,       \* failed record writes that may still take effect
    sessions,   \* PublishGate.sessions, per node
    misses,     \* PublishGate.misses, per node
    conn,       \* the node and endpoint of each connection
    cpc,        \* where the push on a connection is
    found,      \* the record its lookup read
    last,       \* the connection's last answer
    faults,     \* faults so far
    granted,    \* history: until when each session was granted
    overdue     \* history: connections last answered past the session's grant

reqVars == <<req, locally, chained>>
openVars == <<opc, reqVars, late>>
pushVars == <<cpc, found, last, overdue>>
vars == <<now, suspended, openVars, record, sessions, misses, conn, pushVars,
          faults, granted>>

TypeOK ==
    /\ now \in 0..MaxTime
    /\ suspended \in [Node -> SUBSET Subject]
    /\ opc \in [Open -> {"new", "asking", "storing", "inserting", "opened",
                         "refused"}]
    /\ req \in [Open -> [node : Node, endpoint : Endpoint, subject : Subject,
                         verdict : {"none", "permit", "deny", "unavailable"},
                         expires : Nat]]
    /\ locally \subseteq Open /\ chained \subseteq Open
    /\ record \in [Endpoint -> Open \cup {NoOpen}]
    /\ late \subseteq Open
    /\ sessions \in [Node -> [Endpoint -> Session \cup {NoSession}]]
    /\ DOMAIN misses = Node
    /\ \A n \in Node : /\ DOMAIN misses[n] \subseteq Endpoint
                       /\ \A e \in DOMAIN misses[n] : misses[n][e] \in 0..MaxTime
    /\ conn \in [Conn -> [node : Node, endpoint : Endpoint]]
    /\ cpc \in [Conn -> {"idle", "lookup", "read"}]
    /\ found \in [Conn -> Open \cup {NoOpen}]
    /\ last \in [Conn -> [how : {"none", "accepted", "NoSession", "Suspended",
                                 "Blocked"},
                          by : Open \cup {NoOpen}]]
    /\ overdue \subseteq Conn
    /\ faults \in 0..MaxFaults
    /\ granted \in [Open -> Nat]

Init ==
    /\ now = 0
    /\ suspended = [n \in Node |-> {}]
    /\ opc = [o \in Open |-> "new"]
    /\ req \in [Open -> [node : Node, endpoint : Endpoint, subject : Subject,
                         verdict : {"none"}, expires : {0}]]
    /\ locally = {} /\ chained = {}
    /\ record = [e \in Endpoint |-> NoOpen]
    /\ late = {}
    /\ sessions = [n \in Node |-> [e \in Endpoint |-> NoSession]]
    /\ misses = [n \in Node |-> [e \in {} |-> 0]]
    /\ conn \in [Conn -> [node : Node, endpoint : Endpoint]]
    /\ cpc = [c \in Conn |-> "idle"]
    /\ found = [c \in Conn |-> NoOpen]
    /\ last = [c \in Conn |-> NoPush]
    /\ overdue = {}
    /\ faults = 0
    /\ granted = [o \in Open |-> 0]

-----------------------------------------------------------------------------
(* The clock, and the moderation view the gate reads (module Moderation).  *)

Tick ==
    /\ now < MaxTime
    /\ now' = now + 1
    /\ UNCHANGED <<suspended, openVars, record, sessions, misses, conn,
                   pushVars, faults, granted>>

Suspend(n, s) ==
    /\ suspended' = [suspended EXCEPT ![n] = IF s \in @ THEN @ \ {s}
                                             ELSE @ \cup {s}]
    /\ UNCHANGED <<now, openVars, record, sessions, misses, conn, pushVars,
                   faults, granted>>

-----------------------------------------------------------------------------
(* open_session, with publisher_with_chain.                                *)

\* The local answer, read before the decision service is asked.
LocalPermits(o) == /\ req[o].subject \notin suspended[req[o].node]
                   /\ req[o].subject \in Entitled

\* publisher_with_chain up to the decision, for a valid token of a person.
OpenCheck(o) ==
    LET n == req[o].node
        local == LocalPermits(o)
    IN  /\ opc[o] = "new"
        /\ opc' = [opc EXCEPT ![o] =
              IF \/ Mode[n] = "local" /\ ~local
                 \/ Mode[n] = "pdp" /\ req[o].subject \in suspended[n]
              THEN "refused" ELSE "asking"]
        /\ locally' = IF local THEN locally \cup {o} ELSE locally
        /\ UNCHANGED <<now, suspended, req, chained, late, record, sessions,
                       misses, conn, pushVars, faults, granted>>

\* The session is granted for the node's TTL from now, and its record written.
Grant(o, verdict, chain) ==
    LET expires == now + Ttl[req[o].node]
    IN  /\ opc' = [opc EXCEPT ![o] = "storing"]
        /\ req' = [req EXCEPT ![o].verdict = verdict, ![o].expires = expires]
        /\ chained' = IF chain THEN chained \cup {o} ELSE chained
        /\ granted' = [granted EXCEPT ![o] = expires]

Refuse(o) ==
    /\ opc' = [opc EXCEPT ![o] = "refused"]
    /\ UNCHANGED <<req, chained, granted>>

Verdicts(n) == IF Mode[n] = "local" THEN {"none"}
               ELSE {"permit", "deny", "unavailable"}

\* Only a session the decision service permitted keeps its chain.
KeepsChain(n, verdict) == verdict = "permit"

\* Who decides: the decision service in pdp, the local answer otherwise.
Permitted(o, verdict) == IF Mode[req[o].node] = "pdp" THEN verdict = "permit"
                         ELSE o \in locally

\* The decision is in (none is asked in local) and may refuse; so may the proof
\* of possession, checked next.
OpenDecided(o) ==
    LET n == req[o].node
    IN  /\ opc[o] = "asking"
        /\ \/ \E verdict \in Verdicts(n) :
                 Permitted(o, verdict) /\ Grant(o, verdict, KeepsChain(n, verdict))
           \/ Refuse(o)
        /\ UNCHANGED <<now, suspended, locally, late, record, sessions, misses,
                       conn, pushVars, faults>>

OpenStore(o) ==
    /\ opc[o] = "storing"
    /\ record' = [record EXCEPT ![req[o].endpoint] = o]
    /\ opc' = [opc EXCEPT ![o] = "inserting"]
    /\ UNCHANGED <<now, suspended, reqVars, late, sessions, misses, conn,
                   pushVars, faults, granted>>

\* The write fails: the session is opened all the same.
OpenStoreFails(o) ==
    /\ opc[o] = "storing"
    /\ faults < MaxFaults
    /\ faults' = faults + 1
    /\ opc' = [opc EXCEPT ![o] = "inserting"]
    /\ late' = late \cup {o}
    /\ UNCHANGED <<now, suspended, reqVars, record, sessions, misses, conn,
                   pushVars, granted>>

LateStore(o) ==
    /\ o \in late
    /\ record' = [record EXCEPT ![req[o].endpoint] = o]
    /\ late' = late \ {o}
    /\ UNCHANGED <<now, suspended, opc, reqVars, sessions, misses, conn,
                   pushVars, faults, granted>>

\* open_session_with_chain: drop what has expired and insert.
Hold(n, e, o, ttl) ==
    sessions' = [sessions EXCEPT ![n] = [f \in Endpoint |->
        IF f = e THEN [by |-> o, expires |-> now + ttl]
        ELSE IF @[f].expires > now THEN @[f] ELSE NoSession]]

\* The session is held, and 201 answered.
OpenInsert(o) ==
    LET n == req[o].node
        e == req[o].endpoint
    IN  /\ opc[o] = "inserting"
        /\ Hold(n, e, o, Ttl[n])
        /\ opc' = [opc EXCEPT ![o] = "opened"]
        /\ granted' = [granted EXCEPT ![o] = now + Ttl[n]]
        /\ UNCHANGED <<now, suspended, reqVars, late, record, misses, conn,
                       pushVars, faults>>

-----------------------------------------------------------------------------
(* authorize_push.                                                         *)

\* The answer; history: whether the session was within its grant.
Answer(c, how, o) ==
    /\ last' = [last EXCEPT ![c] = [how |-> how, by |-> o]]
    /\ overdue' = IF o = NoOpen \/ now < granted[o] THEN overdue \ {c}
                  ELSE overdue \cup {c}
    /\ cpc' = [cpc EXCEPT ![c] = "idle"]
    /\ found' = [found EXCEPT ![c] = NoOpen]

\* Mutated form of DecidedSession: every mode takes a session without a chain.
DecidedSessionAny(n, o) == TRUE

\* decided_session.  The chain was built for the session's own subject.
DecidedSession(n, o) == Mode[n] = "pdp" => o \in chained

\* The checks on the session, whether held or read back.
Judge(c, o) ==
    LET n == conn[c].node
    IN  \E blocked \in BOOLEAN :
           Answer(c, IF req[o].subject \in suspended[n] THEN "Suspended"
                     ELSE IF blocked THEN "Blocked"
                     ELSE IF DecidedSession(n, o) THEN "accepted"
                     ELSE "NoSession", o)

\* Mutated form of Held: an expired session is used until it is purged.
HeldExpired(n, e) == sessions[n][e] # NoSession

\* held_session finds a live session.
Held(n, e) == sessions[n][e] # NoSession /\ sessions[n][e].expires > now

InLookup(n) == {c \in Conn : conn[c].node = n /\ cpc[c] \in {"lookup", "read"}}
RecentlyMissed(n, e) == e \in DOMAIN misses[n] /\ now - misses[n][e] < MissTtl

\* A lookup is not refused by a recent miss and has a permit.
MayLookUp(n, e) == /\ ~RecentlyMissed(n, e)
                   /\ Cardinality(InLookup(n)) < Lookups

\* A push arrives.  Its connection names the endpoint, unless the event that
\* closed it was handled first.  A held session decides the push at once;
\* otherwise a lookup starts.
Push(c) ==
    LET n == conn[c].node
        e == conn[c].endpoint
    IN  /\ cpc[c] = "idle"
        /\ \/ Answer(c, "NoSession", NoOpen)
           \/ Held(n, e) /\ Judge(c, sessions[n][e].by)
           \/ ~Held(n, e) /\ ~MayLookUp(n, e) /\ Answer(c, "NoSession", NoOpen)
           \/ /\ ~Held(n, e) /\ MayLookUp(n, e)
              /\ cpc' = [cpc EXCEPT ![c] = "lookup"]
              /\ UNCHANGED <<found, last, overdue>>
        /\ UNCHANGED <<now, suspended, openVars, record, sessions, misses, conn,
                       faults, granted>>

\* get_session: S3 reads the record.
GetSession(c) ==
    /\ cpc[c] = "lookup"
    /\ cpc' = [cpc EXCEPT ![c] = "read"]
    /\ found' = [found EXCEPT ![c] = record[conn[c].endpoint]]
    /\ UNCHANGED <<now, suspended, openVars, record, sessions, misses, conn,
                   last, overdue, faults, granted>>

\* missed: at the limit, forget what is no longer recent, then the oldest.
Missed(n, e) ==
    LET m == misses[n]
        recent == IF Cardinality(DOMAIN m) >= Misses
                  THEN {f \in DOMAIN m : now - m[f] < MissTtl} ELSE DOMAIN m
        dropped == IF Cardinality(recent) >= Misses
                   THEN {{f} : f \in {f \in recent : \A g \in recent : m[f] <= m[g]}}
                   ELSE {{}}
    IN  \E out \in dropped :
           misses' = [misses EXCEPT ![n] =
              [f \in (recent \ out) \cup {e} |-> IF f = e THEN now ELSE m[f]]]

Least(a, b) == IF a <= b THEN a ELSE b

\* Mutated form of TimeLeft: a session read back lasts as long as a new one.
TimeLeftFull(n, o) == Ttl[n]

\* How long a session read back is held.
TimeLeft(n, o) == Least(req[o].expires - now, Ttl[n])

\* There is a record, and it has not expired.
Live(o) == o # NoOpen /\ req[o].expires > now

\* look_up finds a live record: it is held, whatever is held by now, and
\* judged.
LookUpHit(c) ==
    LET n == conn[c].node
        e == conn[c].endpoint
        o == found[c]
    IN  /\ cpc[c] = "read"
        /\ Live(o)
        /\ Hold(n, e, o, TimeLeft(n, o))
        /\ Judge(c, o)
        /\ UNCHANGED <<now, suspended, openVars, record, misses, conn,
                       faults, granted>>

\* There is no record, or it has expired.
LookUpMiss(c) ==
    /\ cpc[c] = "read"
    /\ ~Live(found[c])
    /\ Missed(conn[c].node, conn[c].endpoint)
    /\ Answer(c, "NoSession", NoOpen)
    /\ UNCHANGED <<now, suspended, openVars, record, sessions, conn, faults,
                   granted>>

\* The read fails or takes longer than SESSION_LOOKUP_TIMEOUT.
LookUpFails(c) ==
    /\ cpc[c] \in {"lookup", "read"}
    /\ faults < MaxFaults
    /\ faults' = faults + 1
    /\ Missed(conn[c].node, conn[c].endpoint)
    /\ Answer(c, "NoSession", NoOpen)
    /\ UNCHANGED <<now, suspended, openVars, record, sessions, conn, granted>>

\* The node restarts: memory is lost and its requests end; a write it had sent
\* may still take effect.
Restart(n) ==
    LET mine == {c \in Conn : conn[c].node = n}
        ends == {o \in Open : req[o].node = n
                              /\ opc[o] \in {"asking", "storing", "inserting"}}
    IN  /\ faults < MaxFaults
        /\ faults' = faults + 1
        /\ sessions' = [sessions EXCEPT ![n] = [e \in Endpoint |-> NoSession]]
        /\ misses' = [misses EXCEPT ![n] = [e \in {} |-> 0]]
        /\ cpc' = [c \in Conn |-> IF c \in mine THEN "idle" ELSE cpc[c]]
        /\ found' = [c \in Conn |-> IF c \in mine THEN NoOpen ELSE found[c]]
        /\ late' = late \cup {o \in ends : opc[o] = "storing"}
        /\ opc' = [o \in Open |-> IF o \in ends THEN "refused" ELSE opc[o]]
        /\ UNCHANGED <<now, suspended, reqVars, record, conn, last, overdue,
                       granted>>

OpenStep(o) == \/ OpenCheck(o) \/ OpenDecided(o) \/ OpenStore(o)
               \/ OpenStoreFails(o) \/ LateStore(o) \/ OpenInsert(o)

PushStep(c) == \/ Push(c) \/ GetSession(c) \/ LookUpHit(c) \/ LookUpMiss(c)
               \/ LookUpFails(c)

Next == \/ Tick
        \/ \E n \in Node, s \in Suspendable : Suspend(n, s)
        \/ \E o \in Open : OpenStep(o)
        \/ \E c \in Conn : PushStep(c)
        \/ \E n \in Node : Restart(n)

Spec == Init /\ [][Next]_vars

-----------------------------------------------------------------------------
(* Properties.                                                             *)

\* Every session that is held or stored was granted for that endpoint, and no
\* copy of it outlasts the grant: looking a record up again and again, on any
\* node and after any restart, never makes a session longer.
SessionsGranted ==
    /\ \A n \in Node, e \in Endpoint :
          LET s == sessions[n][e]
          IN  s # NoSession => /\ req[s.by].endpoint = e
                               /\ 0 < s.expires /\ s.expires <= granted[s.by]
    /\ \A e \in Endpoint :
          record[e] # NoOpen => /\ req[record[e]].endpoint = e
                                /\ 0 < req[record[e]].expires

\* What the invariant needs to know of requests and lookups.
RequestsGranted ==
    /\ \A o \in Open :
          /\ req[o].expires <= granted[o]
          /\ opc[o] \in {"storing", "inserting", "opened"} \/ o \in late =>
                0 < req[o].expires
          /\ opc[o] \in {"storing", "inserting"} =>
                granted[o] <= now + Ttl[req[o].node]
          /\ o \in chained => req[o].verdict = "permit"
          /\ 0 < granted[o] => 0 < req[o].expires
          /\ opc[o] \in {"new", "asking"} => /\ granted[o] = 0
                                             /\ o \notin late \cup chained
    /\ \A c \in Conn :
          /\ found[c] # NoOpen => /\ req[found[c]].endpoint = conn[c].endpoint
                                  /\ 0 < req[found[c]].expires
          /\ last[c].by # NoOpen => 0 < granted[last[c].by]

\* "accepts iroh pushes only from an endpoint with a live session": an accepted
\* push was within the grant of a session for its endpoint.
AcceptedIsLive ==
    \A c \in Conn : last[c].how = "accepted" =>
       /\ last[c].by # NoOpen
       /\ req[last[c].by].endpoint = conn[c].endpoint
       /\ c \notin overdue

\* On a node in pdp, an accepted push has a session that the decision service
\* permitted, also if another node opened it in another mode or it was read
\* back after a restart.
PdpPushesPermitted ==
    \A c \in Conn : last[c].how = "accepted" /\ Mode[conn[c].node] = "pdp" =>
       req[last[c].by].verdict = "permit"

\* The inductive invariant behind AcceptedIsLive and PdpPushesPermitted.
SessionsInv == /\ SessionsGranted /\ RequestsGranted /\ AcceptedIsLive
               /\ PdpPushesPermitted

\* "A push on a permitted session is accepted until the session expires": while
\* a session lives that this node opened, that the decision service permitted,
\* and that is the only one opened here for its endpoint, no push that finds a
\* session is told there is none.
OpenedIsAccepted ==
    [][\A c \in Conn, o \in Open :
          LET Here(p) == /\ opc[p] = "opened"
                         /\ req[p].node = conn[c].node
                         /\ req[p].endpoint = conn[c].endpoint
          IN  /\ Push(c)
              /\ Here(o) /\ \A p \in Open : Here(p) => p = o
              /\ Live(o) /\ req[o].verdict = "permit"
              => ~(last'[c].how = "NoSession" /\ last'[c].by # NoOpen)]_vars

=============================================================================
