------------------------- MODULE MCPublishSessions -------------------------
(* Model-checking instances of PublishSessions.                            *)
EXTENDS PublishSessions, TLC

CONSTANTS old, new

\* An instance that decides locally is replaced by one that asks.
LocalThenPdp == (old :> "local") @@ (new :> "pdp")
ShadowThenPdp == (old :> "shadow") @@ (new :> "pdp")
SameTtl == [n \in Node |-> 2]
HalvedTtl == (old :> 2) @@ (new :> 1)

Symmetric == Permutations(Endpoint) \cup Permutations(Subject)
             \cup Permutations(Open) \cup Permutations(Conn)

=============================================================================
