------------------------ MODULE PublishSessionsProofs ------------------------
(***************************************************************************)
(* Proofs about PublishSessions, for any nodes, endpoints, requests, TTLs  *)
(* and decision modes: no session outlasts its grant, and a push accepted  *)
(* in pdp has a session the decision service permitted.                    *)
(***************************************************************************)
EXTENDS PublishSessions, TLAPS

AllInv == TypeOK /\ SessionsInv

Data == [node : Node, endpoint : Endpoint, subject : Subject,
         verdict : {"none", "permit", "deny", "unavailable"}, expires : Nat]

\* NoSession is not a session.
LEMMA NoSessionIsNone == NoSession \notin Session
  BY NoOpenAssumption, Zenon DEF NoSession, Session

\* What the types say of one request, and of one connection.
LEMMA RequestType ==
    ASSUME TypeOK, NEW o \in Open
    PROVE  /\ req[o].node \in Node /\ req[o].endpoint \in Endpoint
           /\ req[o].expires \in Nat /\ granted[o] \in Nat /\ now \in Nat
  BY DEF TypeOK

\* The same of one connection.
LEMMA ConnType ==
    ASSUME TypeOK, NEW c \in Conn
    PROVE  /\ conn[c].node \in Node /\ conn[c].endpoint \in Endpoint
           /\ found[c] \in Open \cup {NoOpen}
           /\ last[c].by \in Open \cup {NoOpen}
  BY Zenon DEF TypeOK

\* What the invariant says of one request, one held session and one record.
LEMMA RequestAt ==
    ASSUME RequestsGranted, NEW o \in Open
    PROVE  /\ req[o].expires <= granted[o]
           /\ opc[o] \in {"storing", "inserting", "opened"} \/ o \in late =>
                 0 < req[o].expires
           /\ opc[o] \in {"storing", "inserting"} =>
                 granted[o] <= now + Ttl[req[o].node]
           /\ o \in chained => req[o].verdict = "permit"
           /\ 0 < granted[o] => 0 < req[o].expires
           /\ opc[o] \in {"new", "asking"} => /\ granted[o] = 0
                                              /\ o \notin late \cup chained
  BY Zenon DEF RequestsGranted

\* The same of one live session.
LEMMA SessionAt ==
    ASSUME SessionsGranted, NEW n \in Node, NEW e \in Endpoint,
           sessions[n][e] # NoSession
    PROVE  /\ req[sessions[n][e].by].endpoint = e
           /\ 0 < sessions[n][e].expires
           /\ sessions[n][e].expires <= granted[sessions[n][e].by]
  BY Zenon DEF SessionsGranted

\* The same of one stored record.
LEMMA RecordAt ==
    ASSUME SessionsGranted, NEW e \in Endpoint, record[e] # NoOpen
    PROVE  req[record[e]].endpoint = e /\ 0 < req[record[e]].expires
  BY Zenon DEF SessionsGranted

\* The same of the record a connection has found.
LEMMA FoundAt ==
    ASSUME RequestsGranted, NEW c \in Conn, found[c] # NoOpen
    PROVE  /\ req[found[c]].endpoint = conn[c].endpoint
           /\ 0 < req[found[c]].expires
  BY Zenon DEF RequestsGranted

\* The same of the request behind a connection's last accepted push.
LEMMA LastAt ==
    ASSUME RequestsGranted, NEW c \in Conn, last[c].by # NoOpen
    PROVE  0 < granted[last[c].by]
  BY Zenon DEF RequestsGranted

\* Nothing is held, stored or accepted at first.
LEMMA InitInv == Init => AllInv
  <1> SUFFICES ASSUME Init PROVE AllInv
    BY Zenon
  <1> USE NoOpenAssumption, BoundAssumption DEF Init
  <1>1. TypeOK
    <2>1. /\ DOMAIN misses = Node
          /\ \A n \in Node : DOMAIN misses[n] = {}
      BY Zenon
    <2>2. /\ sessions \in [Node -> [Endpoint -> Session \cup {NoSession}]]
          /\ req \in [Open -> Data]
      BY DEF Data
    <2>3. /\ last \in [Conn -> [how : {"none", "accepted", "NoSession",
                 "Suspended", "Blocked"}, by : Open \cup {NoOpen}]]
      BY Zenon DEF NoPush
    <2> QED
      BY <2>1, <2>2, <2>3 DEF TypeOK, Data
  <1>2. SessionsGranted
    BY Zenon DEF SessionsGranted
  <1>3. \A o \in Open : req[o].expires = 0 /\ o \notin chained
    BY Zenon
  <1>4. RequestsGranted
    BY <1>3 DEF RequestsGranted, NoPush
  <1>5. AcceptedIsLive /\ PdpPushesPermitted
    BY Zenon DEF AcceptedIsLive, PdpPushesPermitted, NoPush
  <1> QED
    BY <1>1, <1>2, <1>4, <1>5, Zenon DEF AllInv, SessionsInv

\* The clock and the moderation view do not matter to the invariant.
LEMMA EnvironmentInv ==
    ASSUME AllInv,
           Tick \/ \E n \in Node, s \in Suspendable : Suspend(n, s)
    PROVE  AllInv'
  <1> USE BoundAssumption DEF AllInv, SessionsInv, openVars, reqVars, pushVars
  <1>0. /\ UNCHANGED <<openVars, record, sessions, misses, conn, pushVars,
                       faults, granted>>
        /\ now' \in 0..MaxTime /\ now <= now'
    <2>1. now \in 0..MaxTime
      BY Zenon DEF TypeOK
    <2>2. CASE Tick
      BY <2>1, <2>2 DEF Tick
    <2>3. CASE \E n \in Node, s \in Suspendable : Suspend(n, s)
      BY <2>1, <2>3 DEF Suspend
    <2> QED
      BY <2>2, <2>3, Zenon
  <1>1. suspended' \in [Node -> SUBSET Subject]
    <2>1. CASE Tick
      BY <2>1, Zenon DEF Tick, TypeOK
    <2>2. ASSUME NEW n \in Node, NEW s \in Suspendable, Suspend(n, s)
          PROVE  suspended' \in [Node -> SUBSET Subject]
      BY <2>2, SubjectAssumption DEF Suspend, TypeOK
    <2> QED
      BY <2>1, <2>2, Zenon
  <1>2. TypeOK'
    BY <1>0, <1>1, Zenon DEF TypeOK
  <1>3. SessionsGranted' /\ AcceptedIsLive' /\ PdpPushesPermitted'
    BY <1>0, Zenon DEF SessionsGranted, AcceptedIsLive, PdpPushesPermitted
  <1>4. \A o \in Open : opc[o] \in {"storing", "inserting"} =>
           granted[o] <= now' + Ttl[req[o].node]
    <2> SUFFICES ASSUME NEW o \in Open, opc[o] \in {"storing", "inserting"}
                 PROVE  granted[o] <= now' + Ttl[req[o].node]
      BY Zenon
    <2>1. /\ granted[o] \in Nat /\ now \in Nat /\ now' \in Nat
          /\ Ttl[req[o].node] \in Nat
      BY <1>0, TtlAssumption DEF TypeOK
    <2> QED
      BY <2>1, <1>0 DEF RequestsGranted
  <1>5. RequestsGranted'
    BY <1>0, <1>4, Zenon DEF RequestsGranted
  <1> QED
    BY <1>2, <1>3, <1>5, Zenon

\* A step that changes only where requests are keeps what was granted.
LEMMA HeldFacts ==
    ASSUME AllInv
    PROVE  /\ \A n \in Node, e \in Endpoint : sessions[n][e] # NoSession =>
                 /\ sessions[n][e].by \in Open
                 /\ sessions[n][e].expires \in Nat
                 /\ 0 < granted[sessions[n][e].by]
           /\ \A e \in Endpoint : record[e] # NoOpen =>
                 record[e] \in Open /\ 0 < granted[record[e]]
           /\ \A c \in Conn : found[c] # NoOpen =>
                 found[c] \in Open /\ 0 < granted[found[c]]
           /\ \A c \in Conn : last[c].by # NoOpen => last[c].by \in Open
  <1> USE NoSessionIsNone DEF AllInv, SessionsInv
  <1>0. \A o \in Open : granted[o] \in Nat /\ req[o].expires \in Nat
    BY Zenon DEF TypeOK
  <1>1. \A n \in Node, e \in Endpoint : sessions[n][e] # NoSession =>
           /\ sessions[n][e].by \in Open
           /\ sessions[n][e].expires \in Nat
           /\ 0 < granted[sessions[n][e].by]
    <2> SUFFICES ASSUME NEW n \in Node, NEW e \in Endpoint,
                        sessions[n][e] # NoSession
                 PROVE  /\ sessions[n][e].by \in Open
                        /\ sessions[n][e].expires \in Nat
                        /\ 0 < granted[sessions[n][e].by]
      BY Zenon
    <2>1. sessions[n][e] \in Session
      BY DEF TypeOK
    <2>2. sessions[n][e].by \in Open /\ sessions[n][e].expires \in Nat
      BY <2>1, Zenon DEF Session
    <2>3. /\ 0 < sessions[n][e].expires
          /\ sessions[n][e].expires <= granted[sessions[n][e].by]
      BY Zenon DEF SessionsGranted
    <2> QED
      BY <2>2, <2>3, <1>0
  <1>2. \A e \in Endpoint : record[e] # NoOpen =>
           record[e] \in Open /\ 0 < granted[record[e]]
    BY <1>0 DEF TypeOK, SessionsGranted, RequestsGranted
  <1>3. \A c \in Conn : found[c] # NoOpen =>
           found[c] \in Open /\ 0 < granted[found[c]]
    BY <1>0 DEF TypeOK, RequestsGranted
  <1>4. \A c \in Conn : last[c].by # NoOpen => last[c].by \in Open
    BY Zenon DEF TypeOK
  <1> QED
    BY <1>1, <1>2, <1>3, <1>4, Zenon

\* The check reads the local answer and moves the request on.
LEMMA CheckInv ==
    ASSUME AllInv, NEW o \in Open, OpenCheck(o)
    PROVE  AllInv'
  <1> USE DEF AllInv, SessionsInv, OpenCheck, pushVars
  <1>1. /\ opc' \in [Open -> {"new", "asking", "storing", "inserting",
                              "opened", "refused"}]
        /\ opc[o] = "new" /\ opc'[o] \in {"asking", "refused"}
        /\ \A p \in Open : p # o => opc'[p] = opc[p]
        /\ locally' \subseteq Open
    BY Zenon DEF TypeOK
  <1>2. TypeOK'
    BY <1>1, Zenon DEF TypeOK
  <1>3. SessionsGranted' /\ AcceptedIsLive' /\ PdpPushesPermitted'
    BY Zenon DEF SessionsGranted, AcceptedIsLive, PdpPushesPermitted
  <1>4. RequestsGranted'
    BY <1>1, Zenon DEF RequestsGranted
  <1> QED
    BY <1>2, <1>3, <1>4, Zenon

\* A grant: the request's data is new, and nothing refers to it yet.
LEMMA GrantInv ==
    ASSUME AllInv, NEW o \in Open, OpenDecided(o)
    PROVE  AllInv'
  <1> USE DEF AllInv, SessionsInv, pushVars
  <1>0. /\ opc[o] = "asking" /\ granted[o] = 0
        /\ UNCHANGED <<now, suspended, locally, late, record, sessions, misses,
                       conn, cpc, found, last, overdue, faults>>
    BY Zenon DEF OpenDecided, RequestsGranted
  <1>1. CASE Refuse(o)
    <2>1. /\ opc' \in [Open -> {"new", "asking", "storing", "inserting",
                                "opened", "refused"}]
          /\ opc'[o] = "refused"
          /\ \A p \in Open : p # o => opc'[p] = opc[p]
          /\ UNCHANGED <<req, chained, granted>>
      BY <1>1, Zenon DEF TypeOK, Refuse
    <2>2. TypeOK'
      BY <1>0, <2>1, Zenon DEF TypeOK
    <2>3. SessionsGranted' /\ AcceptedIsLive' /\ PdpPushesPermitted'
      BY <1>0, <2>1, Zenon DEF SessionsGranted, AcceptedIsLive, PdpPushesPermitted
    <2>4. RequestsGranted'
      BY <1>0, <2>1, Zenon DEF RequestsGranted
    <2> QED
      BY <2>2, <2>3, <2>4, Zenon
  <1>2. ASSUME NEW v \in {"none", "permit", "deny", "unavailable"},
               Grant(o, v, KeepsChain(req[o].node, v))
        PROVE  AllInv'
    <2> DEFINE expires == now + Ttl[req[o].node]
    <2>0. /\ chained' \subseteq chained \cup {o}
          /\ o \in chained' => v = "permit" \/ o \in chained
      BY <1>2, Zenon DEF KeepsChain, Grant
    <2>1. expires \in Nat /\ 0 < expires /\ now \in Nat /\ req[o] \in Data
      <3>1. req[o].node \in Node /\ now \in Nat /\ req[o] \in Data
        BY DEF TypeOK, Data
      <3>2. Ttl[req[o].node] \in Nat \ {0}
        BY <3>1, TtlAssumption, Zenon
      <3> QED
        BY <3>1, <3>2
    <2>2. /\ opc' \in [Open -> {"new", "asking", "storing", "inserting",
                                "opened", "refused"}]
          /\ opc'[o] = "storing"
          /\ \A p \in Open : p # o => opc'[p] = opc[p]
      BY <1>2, Zenon DEF TypeOK, Grant
    <2>3. /\ req' \in [Open -> Data]
          /\ req'[o].expires = expires
          /\ req'[o].verdict = v
          /\ \A p \in Open : /\ req'[p].endpoint = req[p].endpoint
                             /\ req'[p].node = req[p].node
          /\ \A p \in Open : p # o => req'[p] = req[p]
      BY <1>2, <2>1, Zenon DEF TypeOK, Grant, Data
    <2>4. /\ granted' \in [Open -> Nat]
          /\ granted'[o] = expires
          /\ \A p \in Open : p # o => granted'[p] = granted[p]
      BY <1>2, <2>1, Zenon DEF TypeOK, Grant
    <2> HIDE DEF expires
    <2>5. TypeOK'
      BY <1>0, <2>0, <2>2, <2>3, <2>4, Zenon DEF TypeOK, Data
    <2>6. SessionsGranted'
      <3>1. ASSUME NEW n \in Node, NEW e \in Endpoint, sessions[n][e] # NoSession
            PROVE  /\ req'[sessions[n][e].by].endpoint = e
                   /\ 0 < sessions[n][e].expires
                   /\ sessions[n][e].expires <= granted'[sessions[n][e].by]
        <4>1. sessions[n][e].by \in Open /\ 0 < granted[sessions[n][e].by]
          BY <3>1, HeldFacts, Zenon
        <4>2. sessions[n][e].by # o
          BY <4>1, <1>0, RequestAt
        <4> QED
          BY <3>1, <4>1, <4>2, <2>3, <2>4, SessionAt
      <3>2. ASSUME NEW e \in Endpoint, record[e] # NoOpen
            PROVE  req'[record[e]].endpoint = e /\ 0 < req'[record[e]].expires
        <4>1. record[e] \in Open /\ 0 < granted[record[e]]
          BY <3>2, HeldFacts, Zenon
        <4>2. record[e] # o
          BY <4>1, <1>0, RequestAt
        <4> QED
          BY <3>2, <4>1, <4>2, <2>3, RecordAt, Zenon
      <3>3. sessions' = sessions /\ record' = record
        BY <1>0, Zenon
      <3> HIDE DEF AllInv, SessionsInv
      <3> QED
        BY <3>1, <3>2, <3>3, Zenon DEF SessionsGranted
    <2>7. ASSUME NEW p \in Open
          PROVE  /\ req'[p].expires <= granted'[p]
                 /\ (\/ opc'[p] \in {"storing", "inserting", "opened"}
                     \/ p \in late') => 0 < req'[p].expires
                 /\ opc'[p] \in {"storing", "inserting"} =>
                       granted'[p] <= now' + Ttl[req'[p].node]
                 /\ p \in chained' => req'[p].verdict = "permit"
                 /\ 0 < granted'[p] => 0 < req'[p].expires
                 /\ opc'[p] \in {"new", "asking"} =>
                       granted'[p] = 0 /\ p \notin late' \cup chained'
      <3>1. CASE p = o
        <4>1. o \notin chained
          BY <1>0, Zenon DEF RequestsGranted
        <4> QED
          BY <3>1, <4>1, <1>0, <2>0, <2>1, <2>2, <2>3, <2>4 DEF expires
      <3>2. CASE p # o
        BY <3>2, <1>0, <2>0, <2>2, <2>3, <2>4, Zenon DEF RequestsGranted
      <3> QED
        BY <3>1, <3>2, Zenon
    <2>8. \A c \in Conn :
             /\ found'[c] # NoOpen => /\ req'[found'[c]].endpoint = conn'[c].endpoint
                                      /\ 0 < req'[found'[c]].expires
             /\ last'[c].by # NoOpen => 0 < granted'[last'[c].by]
      <3> SUFFICES ASSUME NEW c \in Conn
                   PROVE  /\ found[c] # NoOpen =>
                                /\ req'[found[c]].endpoint = conn[c].endpoint
                                /\ 0 < req'[found[c]].expires
                          /\ last[c].by # NoOpen => 0 < granted'[last[c].by]
        BY <1>0, Zenon
      <3>1. ASSUME found[c] # NoOpen
            PROVE  /\ req'[found[c]].endpoint = conn[c].endpoint
                   /\ 0 < req'[found[c]].expires
        <4>1. found[c] \in Open /\ 0 < granted[found[c]]
          BY <3>1, HeldFacts, Zenon
        <4>2. found[c] # o
          BY <4>1, <1>0, RequestAt
        <4> QED
          BY <3>1, <4>1, <4>2, <2>3, FoundAt, Zenon
      <3>2. ASSUME last[c].by # NoOpen PROVE 0 < granted'[last[c].by]
        <4>1. last[c].by \in Open /\ 0 < granted[last[c].by]
          BY <3>2, HeldFacts, Zenon DEF RequestsGranted
        <4>2. last[c].by # o
          BY <4>1, <1>0, RequestAt
        <4> QED
          BY <4>1, <4>2, <2>4, Zenon
      <3> QED
        BY <3>1, <3>2, Zenon
    <2>9. RequestsGranted'
      BY <2>7, <2>8, Zenon DEF RequestsGranted
    <2>10. \A c \in Conn : last[c].how = "accepted" =>
              last[c].by \in Open /\ last[c].by # o
      BY <1>0, HeldFacts DEF AcceptedIsLive, RequestsGranted
    <2>11. AcceptedIsLive' /\ PdpPushesPermitted'
      BY <1>0, <2>3, <2>10, Zenon DEF AcceptedIsLive, PdpPushesPermitted
    <2> QED
      BY <2>5, <2>6, <2>9, <2>11, Zenon
  <1> QED
    BY <1>1, <1>2, Zenon DEF OpenDecided, Verdicts

\* A record is written for its own endpoint, now or late, or fails to be.
LEMMA StoreInv ==
    ASSUME AllInv, NEW o \in Open,
           OpenStore(o) \/ OpenStoreFails(o) \/ LateStore(o)
    PROVE  AllInv'
  <1> USE DEF AllInv, SessionsInv, pushVars, reqVars
  <1>0. /\ 0 < req[o].expires /\ req[o].endpoint \in Endpoint
        /\ opc[o] \notin {"new", "asking"}
    BY Zenon DEF OpenStore, OpenStoreFails, LateStore, RequestsGranted, TypeOK
  <1>1. /\ record' \in [Endpoint -> Open \cup {NoOpen}]
        /\ \A e \in Endpoint : \/ record'[e] = record[e]
                               \/ record'[e] = o /\ e = req[o].endpoint
        /\ opc' \in [Open -> {"new", "asking", "storing", "inserting",
                              "opened", "refused"}]
        /\ \A p \in Open : p # o => opc'[p] = opc[p]
        /\ opc'[o] = opc[o] \/ (opc[o] = "storing" /\ opc'[o] = "inserting")
        /\ late' \subseteq late \cup {o}
        /\ faults' \in 0..MaxFaults
        /\ UNCHANGED <<now, suspended, req, locally, chained, sessions, misses,
                       conn, cpc, found, last, overdue, granted>>
    <2>1. CASE OpenStore(o)
      BY <2>1, <1>0, Zenon DEF OpenStore, TypeOK
    <2>2. CASE OpenStoreFails(o)
      <3>1. /\ record' = record /\ late' = late \cup {o}
            /\ opc' = [opc EXCEPT ![o] = "inserting"] /\ opc[o] = "storing"
            /\ UNCHANGED <<now, suspended, req, locally, chained, sessions,
                           misses, conn, cpc, found, last, overdue, granted>>
        BY <2>2, Zenon DEF OpenStoreFails
      <3>2. faults' \in 0..MaxFaults
        BY <2>2, BoundAssumption DEF OpenStoreFails, TypeOK
      <3>3. /\ record \in [Endpoint -> Open \cup {NoOpen}]
            /\ opc \in [Open -> {"new", "asking", "storing", "inserting",
                                 "opened", "refused"}]
        BY Zenon DEF TypeOK
      <3> HIDE DEF AllInv
      <3> QED
        BY <3>1, <3>2, <3>3, Zenon
    <2>3. CASE LateStore(o)
      BY <2>3, <1>0, Zenon DEF LateStore, TypeOK
    <2> QED
      BY <2>1, <2>2, <2>3, Zenon
  <1>2. TypeOK'
    BY <1>1, Zenon DEF TypeOK
  <1>3. SessionsGranted'
    <2>1. ASSUME NEW e \in Endpoint, record'[e] # NoOpen
          PROVE  req[record'[e]].endpoint = e /\ 0 < req[record'[e]].expires
      BY <2>1, <1>0, <1>1, RecordAt, Zenon
    <2> QED
      BY <2>1, <1>1, Zenon DEF SessionsGranted
  <1>4. RequestsGranted'
    <2>1. ASSUME NEW p \in Open
          PROVE  /\ (\/ opc'[p] \in {"storing", "inserting", "opened"}
                     \/ p \in late') => 0 < req[p].expires
                 /\ opc'[p] \in {"storing", "inserting"} =>
                       granted[p] <= now + Ttl[req[p].node]
                 /\ opc'[p] \in {"new", "asking"} =>
                       granted[p] = 0 /\ p \notin late' \cup chained
      <3>1. CASE p = o
        BY <3>1, <1>0, <1>1, RequestAt, Zenon
      <3>2. CASE p # o
        BY <3>2, <1>1, RequestAt, Zenon
      <3> QED
        BY <3>1, <3>2, Zenon
    <2> QED
      BY <2>1, <1>1, Zenon DEF RequestsGranted
  <1>5. AcceptedIsLive' /\ PdpPushesPermitted'
    BY <1>1, Zenon DEF AcceptedIsLive, PdpPushesPermitted
  <1> QED
    BY <1>2, <1>3, <1>4, <1>5, Zenon

\* What Hold leaves: the new session, and for others what was held or nothing.
LEMMA HoldFacts ==
    ASSUME AllInv, NEW n \in Node, NEW e \in Endpoint, NEW o \in Open,
           NEW ttl, now + ttl \in Nat, Hold(n, e, o, ttl)
    PROVE  /\ sessions' \in [Node -> [Endpoint -> Session \cup {NoSession}]]
           /\ sessions'[n][e] = [by |-> o, expires |-> now + ttl]
           /\ \A m \in Node, f \in Endpoint : m # n \/ f # e =>
                 sessions'[m][f] \in {sessions[m][f], NoSession}
  <1>1. [by |-> o, expires |-> now + ttl] \in Session
    BY Zenon DEF Session
  <1> DEFINE here == [f \in Endpoint |->
                 IF f = e THEN [by |-> o, expires |-> now + ttl]
                 ELSE IF sessions[n][f].expires > now THEN sessions[n][f]
                      ELSE NoSession]
  <1>2. sessions' = [sessions EXCEPT ![n] = here]
    BY Zenon DEF Hold
  <1>3. here \in [Endpoint -> Session \cup {NoSession}]
    BY <1>1 DEF AllInv, TypeOK
  <1>4. sessions \in [Node -> [Endpoint -> Session \cup {NoSession}]]
    BY Zenon DEF AllInv, TypeOK
  <1> QED
    BY <1>2, <1>3, <1>4, Zenon

\* Opening holds the session for as long as it is granted.
LEMMA InsertInv ==
    ASSUME AllInv, NEW o \in Open, OpenInsert(o)
    PROVE  AllInv'
  <1> USE DEF AllInv, SessionsInv, pushVars, reqVars
  <1> DEFINE n == req[o].node
             e == req[o].endpoint
             ttl == Ttl[n]
  <1>0. /\ opc[o] = "inserting" /\ 0 < req[o].expires
        /\ granted[o] <= now + ttl
        /\ n \in Node /\ e \in Endpoint /\ now \in Nat
    <2>1. opc[o] = "inserting"
      BY Zenon DEF OpenInsert
    <2> QED
      BY <2>1, RequestAt, RequestType, Zenon
  <1>1. ttl \in Nat /\ 0 < ttl /\ now + ttl \in Nat
    BY <1>0, TtlAssumption
  <1>2. /\ Hold(n, e, o, ttl)
        /\ UNCHANGED <<now, suspended, req, locally, chained, late, record,
                       misses, conn, cpc, found, last, overdue, faults>>
    BY Zenon DEF OpenInsert
  <1>3. /\ granted' \in [Open -> Nat]
        /\ granted'[o] = now + ttl
        /\ \A p \in Open : p # o => granted'[p] = granted[p]
    BY <1>1, Zenon DEF OpenInsert, TypeOK
  <1>4. /\ opc' \in [Open -> {"new", "asking", "storing", "inserting",
                              "opened", "refused"}]
        /\ opc'[o] = "opened"
        /\ \A p \in Open : p # o => opc'[p] = opc[p]
    BY Zenon DEF OpenInsert, TypeOK
  <1> HIDE DEF n, e, ttl
  <1>5. /\ sessions' \in [Node -> [Endpoint -> Session \cup {NoSession}]]
        /\ sessions'[n][e] = [by |-> o, expires |-> now + ttl]
        /\ \A m \in Node, f \in Endpoint : m # n \/ f # e =>
              sessions'[m][f] \in {sessions[m][f], NoSession}
    BY <1>0, <1>1, <1>2, HoldFacts, Zenon
  <1>6. \A p \in Open : granted[p] \in Nat /\ granted[p] <= granted'[p]
    <2>1. \A p \in Open : granted[p] \in Nat
      BY Zenon DEF TypeOK
    <2> QED
      BY <2>1, <1>0, <1>3
  <1>7. TypeOK'
    BY <1>2, <1>3, <1>4, <1>5, Zenon DEF TypeOK
  <1>8. ASSUME NEW m \in Node, NEW f \in Endpoint, sessions'[m][f] # NoSession
        PROVE  /\ req[sessions'[m][f].by].endpoint = f
               /\ 0 < sessions'[m][f].expires
               /\ sessions'[m][f].expires <= granted'[sessions'[m][f].by]
    <2>1. CASE m = n /\ f = e
      <3>1. sessions'[m][f].by = o /\ sessions'[m][f].expires = now + ttl
        BY <2>1, <1>5
      <3>2. req[o].endpoint = f
        BY <2>1, Zenon DEF e
      <3>3. 0 < now + ttl /\ now + ttl <= now + ttl
        <4> HIDE DEF AllInv
        <4> QED
          BY <1>0, <1>1
      <3> QED
        BY <3>1, <3>2, <3>3, <1>3, Zenon
    <2>2. CASE m # n \/ f # e
      <3>1. sessions'[m][f] = sessions[m][f] /\ sessions[m][f] # NoSession
        BY <2>2, <1>5, <1>8, Zenon
      <3>2. /\ sessions[m][f].by \in Open /\ sessions[m][f].expires \in Nat
        BY <3>1, HeldFacts, Zenon
      <3>3. /\ granted[sessions[m][f].by] \in Nat
            /\ granted'[sessions[m][f].by] \in Nat
        BY <3>2, <1>3, <1>6, Zenon
      <3> QED
        <4>1. /\ req[sessions[m][f].by].endpoint = f
              /\ 0 < sessions[m][f].expires
              /\ sessions[m][f].expires <= granted[sessions[m][f].by]
          BY <3>1, SessionAt, Zenon
        <4>2. granted[sessions[m][f].by] <= granted'[sessions[m][f].by]
          BY <3>2, <1>6, Zenon
        <4> DEFINE x == sessions[m][f].expires
                   g == granted[sessions[m][f].by]
                   h == granted'[sessions[m][f].by]
        <4>3. x \in Nat /\ g \in Nat /\ h \in Nat /\ x <= g /\ g <= h /\ 0 < x
          BY <3>2, <3>3, <4>1, <4>2, Zenon
        <4>4. x <= h
          <5> HIDE DEF x, g, h, AllInv
          <5> QED
            BY <4>3
        <4> QED
          BY <3>1, <4>1, <4>4, Zenon
    <2> QED
      BY <2>1, <2>2, Zenon
  <1>9. SessionsGranted'
    BY <1>2, <1>8, Zenon DEF SessionsGranted
  <1>10. ASSUME NEW p \in Open
         PROVE  /\ req'[p].expires <= granted'[p]
                /\ (\/ opc'[p] \in {"storing", "inserting", "opened"}
                    \/ p \in late') => 0 < req'[p].expires
                /\ opc'[p] \in {"storing", "inserting"} =>
                      granted'[p] <= now' + Ttl[req'[p].node]
                /\ p \in chained' => req'[p].verdict = "permit"
                /\ 0 < granted'[p] => 0 < req'[p].expires
                /\ opc'[p] \in {"new", "asking"} =>
                      granted'[p] = 0 /\ p \notin late' \cup chained'
    <2>0. req[p].expires \in Nat /\ granted[p] \in Nat
      BY Zenon DEF TypeOK
    <2>1. CASE p = o
      <3>1. o \in chained => req[o].verdict = "permit"
        BY RequestAt, Zenon
      <3>2. req[o].expires <= granted[o]
        BY RequestAt, Zenon
      <3>3. /\ granted'[o] = now + ttl /\ req' = req /\ opc'[o] = "opened"
            /\ chained' = chained
        BY <1>2, <1>3, <1>4, Zenon
      <3>4. 0 < req[o].expires /\ granted[o] <= now + ttl
        BY <1>0, Zenon
      <3>5. req[o].expires <= now + ttl
        BY <3>2, <3>4, <2>0, <2>1, <1>0, <1>1
      <3> HIDE DEF AllInv
      <3> QED
        BY <3>1, <3>3, <3>4, <3>5, <2>1, Zenon
    <2>2. CASE p # o
      BY <2>2, <1>2, <1>3, <1>4, Zenon DEF RequestsGranted
    <2> QED
      BY <2>1, <2>2, Zenon
  <1>11. \A c \in Conn :
            /\ found'[c] # NoOpen => /\ req'[found'[c]].endpoint = conn'[c].endpoint
                                     /\ 0 < req'[found'[c]].expires
            /\ last'[c].by # NoOpen => 0 < granted'[last'[c].by]
    <2>1. \A p \in Open : 0 < granted[p] => 0 < granted'[p]
      BY <1>3, <1>6
    <2> QED
      BY <1>2, <2>1, HeldFacts, Zenon DEF RequestsGranted
  <1>12. RequestsGranted'
    BY <1>10, <1>11, Zenon DEF RequestsGranted
  <1>13. AcceptedIsLive' /\ PdpPushesPermitted'
    BY <1>2, Zenon DEF AcceptedIsLive, PdpPushesPermitted
  <1> QED
    BY <1>7, <1>9, <1>12, <1>13, Zenon

\* An answer on connection c keeps the invariant, if an accepting one names a
\* session of the endpoint that is within its grant and, in pdp, permitted.
LEMMA AnswerInv ==
    ASSUME AllInv, NEW c \in Conn, NEW o \in Open \cup {NoOpen},
           NEW how \in {"accepted", "NoSession", "Suspended", "Blocked"},
           Answer(c, how, o),
           UNCHANGED <<openVars, conn, granted, now>>,
           o # NoOpen => 0 < granted[o],
           how = "accepted" => /\ o # NoOpen
                               /\ req[o].endpoint = conn[c].endpoint
                               /\ now < granted[o]
                               /\ Mode[conn[c].node] = "pdp" => o \in chained
    PROVE  /\ RequestsGranted' /\ AcceptedIsLive' /\ PdpPushesPermitted'
           /\ cpc' \in [Conn -> {"idle", "lookup", "read"}]
           /\ found' \in [Conn -> Open \cup {NoOpen}]
           /\ last' \in [Conn -> [how : {"none", "accepted", "NoSession",
                  "Suspended", "Blocked"}, by : Open \cup {NoOpen}]]
           /\ overdue' \subseteq Conn
  <1> USE DEF AllInv, SessionsInv, openVars, reqVars
  <1>1. /\ cpc' \in [Conn -> {"idle", "lookup", "read"}]
        /\ found' \in [Conn -> Open \cup {NoOpen}]
        /\ found'[c] = NoOpen
        /\ \A d \in Conn : d # c => found'[d] = found[d]
    BY Zenon DEF Answer, TypeOK
  <1>2. /\ last' \in [Conn -> [how : {"none", "accepted", "NoSession",
               "Suspended", "Blocked"}, by : Open \cup {NoOpen}]]
        /\ last'[c].how = how /\ last'[c].by = o
        /\ \A d \in Conn : d # c => last'[d] = last[d]
    BY Zenon DEF Answer, TypeOK
  <1>3. /\ overdue' \subseteq Conn
        /\ how = "accepted" => c \notin overdue'
        /\ \A d \in Conn : d # c => (d \in overdue' <=> d \in overdue)
    BY Zenon DEF Answer, TypeOK
  <1>4. RequestsGranted'
    <2>1. \A d \in Conn :
             /\ found'[d] # NoOpen => /\ req'[found'[d]].endpoint = conn'[d].endpoint
                                      /\ 0 < req'[found'[d]].expires
             /\ last'[d].by # NoOpen => 0 < granted'[last'[d].by]
      <3> SUFFICES ASSUME NEW d \in Conn
                   PROVE  /\ found'[d] # NoOpen =>
                                /\ req[found'[d]].endpoint = conn[d].endpoint
                                /\ 0 < req[found'[d]].expires
                          /\ last'[d].by # NoOpen => 0 < granted[last'[d].by]
        BY Zenon
      <3>1. CASE d = c
        BY <3>1, <1>1, <1>2, Zenon
      <3>2. CASE d # c
        BY <3>2, <1>1, <1>2, FoundAt, LastAt, Zenon
      <3> QED
        BY <3>1, <3>2, Zenon
    <2> QED
      BY <2>1, Zenon DEF RequestsGranted
  <1>5. AcceptedIsLive'
    BY <1>2, <1>3, Zenon DEF AcceptedIsLive
  <1>6. how = "accepted" /\ Mode[conn[c].node] = "pdp" => req[o].verdict = "permit"
    BY Zenon DEF RequestsGranted
  <1>7. PdpPushesPermitted'
    BY <1>2, <1>6, Zenon DEF PdpPushesPermitted
  <1> QED
    BY <1>1, <1>2, <1>3, <1>4, <1>5, <1>7, Zenon

\* What Judge answers.
LEMMA JudgeFacts ==
    ASSUME NEW c \in Conn, NEW o, Judge(c, o)
    PROVE  \E how \in {"accepted", "NoSession", "Suspended", "Blocked"} :
              /\ Answer(c, how, o)
              /\ how = "accepted" => DecidedSession(conn[c].node, o)
  <1>1. PICK blocked \in BOOLEAN :
           Answer(c, IF req[o].subject \in suspended[conn[c].node] THEN "Suspended"
                     ELSE IF blocked THEN "Blocked"
                     ELSE IF DecidedSession(conn[c].node, o) THEN "accepted"
                     ELSE "NoSession", o)
    BY Zenon DEF Judge
  <1> DEFINE how == IF req[o].subject \in suspended[conn[c].node] THEN "Suspended"
                    ELSE IF blocked THEN "Blocked"
                    ELSE IF DecidedSession(conn[c].node, o) THEN "accepted"
                    ELSE "NoSession"
  <1>2. /\ how \in {"accepted", "NoSession", "Suspended", "Blocked"}
        /\ how = "accepted" => DecidedSession(conn[c].node, o)
    BY Zenon
  <1>3. Answer(c, how, o)
    BY <1>1, Zenon
  <1> HIDE DEF how
  <1> QED
    BY <1>2, <1>3, Zenon

\* A push that is answered at once, or starts a lookup.
LEMMA PushInv ==
    ASSUME AllInv, NEW c \in Conn, Push(c)
    PROVE  AllInv'
  <1> USE DEF AllInv, SessionsInv
  <1> DEFINE n == conn[c].node
             e == conn[c].endpoint
  <1>0. /\ UNCHANGED <<now, suspended, openVars, record, sessions, misses,
                       conn, faults, granted>>
        /\ n \in Node /\ e \in Endpoint
    BY Zenon DEF Push, TypeOK
  <1>1. SessionsGranted'
    BY <1>0, Zenon DEF SessionsGranted, openVars, reqVars
  <1>2. CASE Answer(c, "NoSession", NoOpen)
    <2>1. /\ RequestsGranted' /\ AcceptedIsLive' /\ PdpPushesPermitted'
          /\ cpc' \in [Conn -> {"idle", "lookup", "read"}]
          /\ found' \in [Conn -> Open \cup {NoOpen}]
          /\ last' \in [Conn -> [how : {"none", "accepted", "NoSession",
                 "Suspended", "Blocked"}, by : Open \cup {NoOpen}]]
          /\ overdue' \subseteq Conn
      BY <1>0, <1>2, AnswerInv, Zenon
    <2>2. TypeOK'
      BY <1>0, <2>1, Zenon DEF TypeOK, openVars, reqVars
    <2> QED
      BY <1>1, <2>1, <2>2, Zenon
  <1>3. CASE Held(n, e) /\ Judge(c, sessions[n][e].by)
    <2> DEFINE o == sessions[n][e].by
    <2>1. /\ o \in Open /\ sessions[n][e].expires \in Nat
          /\ sessions[n][e].expires > now
          /\ req[o].endpoint = e
          /\ sessions[n][e].expires <= granted[o]
      BY <1>0, <1>3, HeldFacts, Zenon DEF Held, SessionsGranted
    <2> HIDE DEF o, n, e
    <2>2. now < granted[o] /\ 0 < granted[o]
      <3>1. now \in Nat /\ granted[o] \in Nat
        BY <2>1, RequestType, Zenon
      <3> DEFINE x == sessions[n][e].expires
      <3>2. x \in Nat /\ x > now /\ x <= granted[o]
        BY <2>1, Zenon
      <3> HIDE DEF x, AllInv
      <3> QED
        BY <3>1, <3>2
    <2> USE DEF o, n, e
    <2>3. PICK how \in {"accepted", "NoSession", "Suspended", "Blocked"} :
             /\ Answer(c, how, o)
             /\ how = "accepted" => DecidedSession(n, o)
      BY <1>3, JudgeFacts, Zenon
    <2> HIDE DEF o
    <2>4. /\ RequestsGranted' /\ AcceptedIsLive' /\ PdpPushesPermitted'
          /\ cpc' \in [Conn -> {"idle", "lookup", "read"}]
          /\ found' \in [Conn -> Open \cup {NoOpen}]
          /\ last' \in [Conn -> [how : {"none", "accepted", "NoSession",
                 "Suspended", "Blocked"}, by : Open \cup {NoOpen}]]
          /\ overdue' \subseteq Conn
      BY <1>0, <2>1, <2>2, <2>3, AnswerInv, NoOpenAssumption, Zenon DEF DecidedSession
    <2>5. TypeOK'
      BY <1>0, <2>4, Zenon DEF TypeOK, openVars, reqVars
    <2> QED
      BY <1>1, <2>4, <2>5, Zenon
  <1>4. CASE cpc' = [cpc EXCEPT ![c] = "lookup"] /\ UNCHANGED <<found, last, overdue>>
    <2>1. TypeOK'
      BY <1>0, <1>4, Zenon DEF TypeOK, openVars, reqVars
    <2>2. RequestsGranted' /\ AcceptedIsLive' /\ PdpPushesPermitted'
      BY <1>0, <1>4, Zenon DEF RequestsGranted, AcceptedIsLive, PdpPushesPermitted,
                        openVars, reqVars
    <2> QED
      BY <1>1, <2>1, <2>2, Zenon
  <1> QED
    BY <1>2, <1>3, <1>4, Zenon DEF Push

\* What is remembered of a miss is its time.
LEMMA MissedFacts ==
    ASSUME TypeOK, NEW n \in Node, NEW e \in Endpoint, Missed(n, e)
    PROVE  /\ DOMAIN misses' = Node
           /\ \A m \in Node : /\ DOMAIN misses'[m] \subseteq Endpoint
                              /\ \A f \in DOMAIN misses'[m] :
                                    misses'[m][f] \in 0..MaxTime
  <1>1. PICK S : /\ S \subseteq DOMAIN misses[n]
                 /\ misses' = [misses EXCEPT ![n] =
                       [f \in S \cup {e} |-> IF f = e THEN now ELSE misses[n][f]]]
    <2> DEFINE mm == misses[n]
               recent == IF Cardinality(DOMAIN mm) >= Misses
                         THEN {f \in DOMAIN mm : now - mm[f] < MissTtl}
                         ELSE DOMAIN mm
    <2>1. recent \subseteq DOMAIN mm
      BY Zenon
    <2>2. \E out : misses' = [misses EXCEPT ![n] =
             [f \in (recent \ out) \cup {e} |-> IF f = e THEN now ELSE mm[f]]]
      BY Zenon DEF Missed
    <2>3. PICK out : misses' = [misses EXCEPT ![n] =
             [f \in (recent \ out) \cup {e} |-> IF f = e THEN now ELSE mm[f]]]
      BY <2>2, Zenon
    <2>4. recent \ out \subseteq DOMAIN misses[n]
      BY <2>1, Zenon
    <2> HIDE DEF recent
    <2> QED
      BY <2>3, <2>4, Zenon
  <1> DEFINE here == [f \in S \cup {e} |-> IF f = e THEN now ELSE misses[n][f]]
  <1>2. /\ DOMAIN here \subseteq Endpoint
        /\ \A f \in DOMAIN here : here[f] \in 0..MaxTime
    BY <1>1, Zenon DEF TypeOK
  <1>3. misses' = [misses EXCEPT ![n] = here] /\ DOMAIN misses = Node
    BY <1>1, Zenon DEF TypeOK
  <1> HIDE DEF here
  <1>4. \A m \in Node : misses'[m] = IF m = n THEN here ELSE misses[m]
    BY <1>3, Zenon
  <1> QED
    BY <1>2, <1>3, <1>4, Zenon DEF TypeOK

\* A lookup reads the record, finds a session, misses or fails.
LEMMA LookUpInv ==
    ASSUME AllInv, NEW c \in Conn,
           GetSession(c) \/ LookUpHit(c) \/ LookUpMiss(c) \/ LookUpFails(c)
    PROVE  AllInv'
  <1> USE DEF AllInv, SessionsInv
  <1> DEFINE n == conn[c].node
             e == conn[c].endpoint
  <1>0. n \in Node /\ e \in Endpoint
    BY Zenon DEF TypeOK
  <1>1. CASE GetSession(c)
    <2> USE <1>1 DEF GetSession, openVars, reqVars
    <2>1. /\ found' \in [Conn -> Open \cup {NoOpen}]
          /\ found'[c] = record[e]
          /\ \A d \in Conn : d # c => found'[d] = found[d]
      BY <1>0, Zenon DEF TypeOK
    <2>2. TypeOK'
      BY <2>1, Zenon DEF TypeOK
    <2>3. SessionsGranted' /\ AcceptedIsLive' /\ PdpPushesPermitted'
      BY ZenonT(30) DEF SessionsGranted, AcceptedIsLive, PdpPushesPermitted
    <2>4. record[e] # NoOpen => req[record[e]].endpoint = e /\ 0 < req[record[e]].expires
      BY <1>0, Zenon DEF SessionsGranted
    <2>5. RequestsGranted'
      BY <2>1, <2>4, Zenon DEF RequestsGranted
    <2> QED
      BY <2>2, <2>3, <2>5, Zenon
  <1>2. CASE LookUpHit(c)
    <2> DEFINE o == found[c]
               left == TimeLeft(n, o)
    <2>1. /\ o \in Open /\ req[o].expires > now /\ req[o].endpoint = e
          /\ req[o].expires \in Nat /\ now \in Nat /\ granted[o] \in Nat
          /\ req[o].expires <= granted[o]
      <3>1. o # NoOpen /\ req[o].expires > now
        BY <1>2, Zenon DEF LookUpHit, Live
      <3>2. o \in Open
        BY <3>1, ConnType, Zenon
      <3> QED
        BY <3>1, <3>2, RequestType, RequestAt, FoundAt, Zenon
    <2>2. Ttl[n] \in Nat /\ 0 < Ttl[n]
      BY <1>0, TtlAssumption
    <2>3. /\ now + left \in Nat /\ 0 < now + left
          /\ now + left <= granted[o] /\ now < granted[o] /\ 0 < granted[o]
      <3>1. left = Least(req[o].expires - now, Ttl[n])
        BY Zenon DEF TimeLeft
      <3> HIDE DEF o, left, n, e, AllInv
      <3> DEFINE u == req[o].expires
                 g == granted[o]
                 x == Ttl[n]
      <3>3. /\ u \in Nat /\ g \in Nat /\ x \in Nat /\ now \in Nat
            /\ u > now /\ u <= g /\ 0 < x
        BY <2>1, <2>2, Zenon
      <3>4. left = Least(u - now, x)
        BY <3>1, Zenon
      <3> HIDE DEF u, g, x
      <3>5. now + left \in Nat /\ 0 < now + left /\ now + left <= g /\ now < g /\ 0 < g
        BY <3>3, <3>4 DEF Least
      <3> QED
        BY <3>5, Zenon DEF g
    <2>4. /\ Hold(n, e, o, left) /\ Judge(c, o)
          /\ UNCHANGED <<now, suspended, openVars, record, misses, conn,
                         faults, granted>>
      BY <1>2, Zenon DEF LookUpHit
    <2>5. PICK how \in {"accepted", "NoSession", "Suspended", "Blocked"} :
             /\ Answer(c, how, o)
             /\ how = "accepted" => DecidedSession(n, o)
      BY <2>4, JudgeFacts, Zenon
    <2> HIDE DEF o, left, n, e
    <2>6. /\ sessions' \in [Node -> [Endpoint -> Session \cup {NoSession}]]
          /\ sessions'[n][e] = [by |-> o, expires |-> now + left]
          /\ \A m \in Node, f \in Endpoint : m # n \/ f # e =>
                sessions'[m][f] \in {sessions[m][f], NoSession}
      <3>1. now + left \in Nat /\ o \in Open /\ Hold(n, e, o, left)
        BY <2>1, <2>3, <2>4, Zenon
      <3> HIDE DEF AllInv
      <3> QED
        BY <1>0, <3>1, HoldFacts, Zenon
    <2>7. /\ RequestsGranted' /\ AcceptedIsLive' /\ PdpPushesPermitted'
          /\ cpc' \in [Conn -> {"idle", "lookup", "read"}]
          /\ found' \in [Conn -> Open \cup {NoOpen}]
          /\ last' \in [Conn -> [how : {"none", "accepted", "NoSession",
                 "Suspended", "Blocked"}, by : Open \cup {NoOpen}]]
          /\ overdue' \subseteq Conn
      BY <2>1, <2>3, <2>4, <2>5, AnswerInv, NoOpenAssumption, Zenon DEF DecidedSession, n, e
    <2>8. TypeOK'
      BY <2>4, <2>6, <2>7, Zenon DEF TypeOK, openVars, reqVars
    <2>9. ASSUME NEW m \in Node, NEW f \in Endpoint, sessions'[m][f] # NoSession
          PROVE  /\ req[sessions'[m][f].by].endpoint = f
                 /\ 0 < sessions'[m][f].expires
                 /\ sessions'[m][f].expires <= granted[sessions'[m][f].by]
      <3>1. CASE m = n /\ f = e
        <4>1. sessions'[m][f].by = o /\ sessions'[m][f].expires = now + left
          BY <3>1, <2>6
        <4> HIDE DEF AllInv
        <4> QED
          BY <3>1, <4>1, <2>1, <2>3, Zenon
      <3>2. CASE m # n \/ f # e
        <4>1. sessions'[m][f] = sessions[m][f] /\ sessions[m][f] # NoSession
          BY <3>2, <2>6, <2>9, Zenon
        <4> QED
          BY <4>1, SessionAt
      <3> QED
        BY <3>1, <3>2, Zenon
    <2>10. SessionsGranted'
      BY <2>4, <2>9, Zenon DEF SessionsGranted, openVars, reqVars
    <2> QED
      BY <2>7, <2>8, <2>10, Zenon
  <1>3. CASE LookUpMiss(c) \/ LookUpFails(c)
    <2>1. /\ Missed(n, e) /\ Answer(c, "NoSession", NoOpen)
          /\ UNCHANGED <<now, suspended, openVars, record, sessions, conn,
                         granted>>
          /\ faults' \in 0..MaxFaults
      <3>1. faults \in 0..MaxFaults
        BY Zenon DEF TypeOK
      <3>2. CASE LookUpMiss(c)
        BY <3>1, <3>2, Zenon DEF LookUpMiss
      <3>3. CASE LookUpFails(c)
        BY <3>1, <3>3, BoundAssumption DEF LookUpFails
      <3> QED
        BY <1>3, <3>2, <3>3, Zenon
    <2>2. /\ RequestsGranted' /\ AcceptedIsLive' /\ PdpPushesPermitted'
          /\ cpc' \in [Conn -> {"idle", "lookup", "read"}]
          /\ found' \in [Conn -> Open \cup {NoOpen}]
          /\ last' \in [Conn -> [how : {"none", "accepted", "NoSession",
                 "Suspended", "Blocked"}, by : Open \cup {NoOpen}]]
          /\ overdue' \subseteq Conn
      BY <2>1, AnswerInv, Zenon
    <2>3. /\ DOMAIN misses' = Node
          /\ \A m \in Node : /\ DOMAIN misses'[m] \subseteq Endpoint
                             /\ \A f \in DOMAIN misses'[m] :
                                   misses'[m][f] \in 0..MaxTime
      BY <1>0, <2>1, MissedFacts, Zenon
    <2>4. TypeOK'
      BY <2>1, <2>2, <2>3, Zenon DEF TypeOK, openVars, reqVars
    <2>5. SessionsGranted'
      BY <2>1, Zenon DEF SessionsGranted, openVars, reqVars
    <2> QED
      BY <2>2, <2>4, <2>5, Zenon
  <1> QED
    BY <1>1, <1>2, <1>3, Zenon

\* A restart only forgets.
LEMMA RestartInv ==
    ASSUME AllInv, NEW n \in Node, Restart(n)
    PROVE  AllInv'
  <1> USE DEF AllInv, SessionsInv, reqVars
  <1>1. /\ sessions' \in [Node -> [Endpoint -> Session \cup {NoSession}]]
        /\ \A m \in Node, e \in Endpoint :
              sessions'[m][e] \in {sessions[m][e], NoSession}
    BY Zenon DEF Restart, TypeOK
  <1>2. /\ DOMAIN misses' = Node
        /\ \A m \in Node : /\ DOMAIN misses'[m] \subseteq Endpoint
                           /\ \A f \in DOMAIN misses'[m] :
                                 misses'[m][f] \in 0..MaxTime
    <2>1. misses' = [misses EXCEPT ![n] = [e \in {} |-> 0]] /\ DOMAIN misses = Node
      BY Zenon DEF Restart, TypeOK
    <2>2. \A m \in Node : misses'[m] = IF m = n THEN [e \in {} |-> 0] ELSE misses[m]
      BY <2>1, Zenon
    <2>3. DOMAIN [e \in {} |-> 0] = {}
      BY Zenon
    <2> QED
      BY <2>1, <2>2, <2>3, Zenon DEF TypeOK
  <1>3. /\ cpc' \in [Conn -> {"idle", "lookup", "read"}]
        /\ found' \in [Conn -> Open \cup {NoOpen}]
        /\ \A c \in Conn : found'[c] \in {found[c], NoOpen}
    BY Zenon DEF Restart, TypeOK
  <1>4. /\ opc' \in [Open -> {"new", "asking", "storing", "inserting",
                              "opened", "refused"}]
        /\ late' \subseteq Open
        /\ \A o \in Open : \/ opc'[o] = opc[o] /\ (o \in late' => o \in late)
                           \/ /\ opc'[o] = "refused"
                              /\ o \in late' => o \in late \/ opc[o] = "storing"
    <2>1. opc \in [Open -> {"new", "asking", "storing", "inserting", "opened",
                            "refused"}] /\ late \subseteq Open
      BY Zenon DEF TypeOK
    <2> DEFINE ends == {o \in Open : /\ req[o].node = n
                                     /\ opc[o] \in {"asking", "storing",
                                                    "inserting"}}
    <2>2. /\ late' = late \cup {o \in ends : opc[o] = "storing"}
          /\ opc' = [o \in Open |-> IF o \in ends THEN "refused" ELSE opc[o]]
      BY Zenon DEF Restart
    <2>3. ends \subseteq Open
      BY Zenon
    <2> HIDE DEF AllInv, ends
    <2> QED
      BY <2>1, <2>2, <2>3, Zenon
  <1>5. /\ UNCHANGED <<now, suspended, req, locally, chained, record, conn, last,
                       overdue, granted>>
        /\ faults' \in 0..MaxFaults
    <2>1. faults \in 0..MaxFaults
      BY Zenon DEF TypeOK
    <2>2. faults' = faults + 1 /\ faults < MaxFaults
      BY Zenon DEF Restart
    <2>3. UNCHANGED <<now, suspended, req, locally, chained, record, conn, last,
                      overdue, granted>>
      BY Zenon DEF Restart
    <2> HIDE DEF AllInv
    <2> QED
      BY <2>1, <2>2, <2>3, BoundAssumption
  <1>6. TypeOK'
    BY <1>1, <1>2, <1>3, <1>4, <1>5, Zenon DEF TypeOK
  <1>7. SessionsGranted'
    <2>1. ASSUME NEW m \in Node, NEW e \in Endpoint, sessions'[m][e] # NoSession
          PROVE  /\ req[sessions'[m][e].by].endpoint = e
                 /\ 0 < sessions'[m][e].expires
                 /\ sessions'[m][e].expires <= granted[sessions'[m][e].by]
      <3>1. sessions'[m][e] = sessions[m][e]
        BY <2>1, <1>1, Zenon
      <3> QED
        BY <2>1, <3>1, SessionAt, Zenon
    <2>2. ASSUME NEW e \in Endpoint, record[e] # NoOpen
          PROVE  req[record[e]].endpoint = e /\ 0 < req[record[e]].expires
      BY <2>2, RecordAt, Zenon
    <2> HIDE DEF AllInv, SessionsInv
    <2> QED
      BY <2>1, <2>2, <1>5, Zenon DEF SessionsGranted
  <1>8. \A o \in Open :
           /\ opc'[o] \in {"storing", "inserting", "opened"} \/ o \in late' =>
                 0 < req[o].expires
           /\ opc'[o] \in {"storing", "inserting"} =>
                 granted[o] <= now + Ttl[req[o].node]
           /\ opc'[o] \in {"new", "asking"} => /\ granted[o] = 0
                                               /\ o \notin late' \cup chained
    BY <1>4, Zenon DEF RequestsGranted
  <1>9. RequestsGranted'
    BY <1>3, <1>5, <1>8, Zenon DEF RequestsGranted
  <1>10. AcceptedIsLive' /\ PdpPushesPermitted'
    BY <1>5, Zenon DEF AcceptedIsLive, PdpPushesPermitted
  <1> QED
    BY <1>6, <1>7, <1>9, <1>10, Zenon

\* The invariant holds in every reachable state: every held or stored session
\* was granted for its endpoint and ends within its grant, however often and
\* wherever it is read back.
THEOREM SessionsInvariant == Spec => [](TypeOK /\ SessionsInv)
  <1>1. Init => AllInv
    BY InitInv, Zenon
  <1>2. AllInv /\ [Next]_vars => AllInv'
    <2> SUFFICES ASSUME AllInv, [Next]_vars PROVE AllInv'
      BY Zenon
    <2>1. CASE Tick \/ \E n \in Node, s \in Suspendable : Suspend(n, s)
      BY <2>1, EnvironmentInv, Zenon
    <2>2. ASSUME NEW o \in Open, OpenStep(o) PROVE AllInv'
      BY <2>2, CheckInv, GrantInv, StoreInv, InsertInv, Zenon DEF OpenStep
    <2>3. ASSUME NEW c \in Conn, PushStep(c) PROVE AllInv'
      BY <2>3, PushInv, LookUpInv, Zenon DEF PushStep
    <2>4. ASSUME NEW n \in Node, Restart(n) PROVE AllInv'
      BY <2>4, RestartInv, Zenon
    <2>5. CASE UNCHANGED vars
      <3> USE <2>5 DEF vars, openVars, reqVars, pushVars, AllInv, SessionsInv
      <3>1. TypeOK'
        BY Zenon DEF TypeOK
      <3>2. SessionsGranted' /\ AcceptedIsLive' /\ PdpPushesPermitted'
        BY Zenon DEF SessionsGranted, AcceptedIsLive, PdpPushesPermitted
      <3>3. RequestsGranted'
        BY Zenon DEF RequestsGranted
      <3> QED
        BY <3>1, <3>2, <3>3, Zenon
    <2> QED
      BY <2>1, <2>2, <2>3, <2>4, <2>5, Zenon DEF Next
  <1> QED
    BY <1>1, <1>2, PTL DEF Spec, AllInv

\* No held or stored copy of a session outlasts the grant, for any number of
\* nodes, restarts and lookups.
THEOREM SessionsKeepTheirGrant == Spec => []SessionsGranted
  BY SessionsInvariant, PTL DEF SessionsInv

\* Every accepted push had a session of its endpoint, within its grant.
THEOREM PushesAreLive == Spec => []AcceptedIsLive
  BY SessionsInvariant, PTL DEF SessionsInv

\* Every push accepted in pdp had a session the decision service permitted.
THEOREM PdpTakesPermitted == Spec => []PdpPushesPermitted
  BY SessionsInvariant, PTL DEF SessionsInv

=============================================================================
