-------------------------- MODULE MCCatalogPublish --------------------------
(* Model-checking instances of CatalogPublish.                             *)
EXTENDS CatalogPublish, TLC

CONSTANTS r1, r2

NoCondition == [ifMatch |-> {}, ifNoneMatch |-> {}]
OnSeq(n) == [ifMatch |-> {<<"strong", n>>}, ifNoneMatch |-> {}]
OnWeak(n) == [ifMatch |-> {<<"weak", n>>}, ifNoneMatch |-> {}]
OnNone == [ifMatch |-> {}, ifNoneMatch |-> {AnyTag}]
Garbled == [ifMatch |-> {Unreadable}, ifNoneMatch |-> {AnyTag}]

EveryKind == {NoCondition, OnSeq(1), OnWeak(1), OnNone, Garbled}

\* The initial states, with bounds: a pointer from before envelopes has seq 1,
\* which a request repeats or exceeds and a tag names, and at most one of the
\* requests has headers that never hold.
FewStarts ==
    /\ Init
    /\ pointer.seq <= 1
    /\ \A q, r \in Request :
          {req[q].cond, req[r].cond} \subseteq {OnWeak(1), Garbled} => q = r

BoundedSpec == FewStarts /\ [][Next]_vars

Requests == Permutations(Request)

=============================================================================
