---------------------------- MODULE MCModeration ----------------------------
(* Model-checking instances of Moderation.                                 *)
EXTENDS Moderation, TLC

CONSTANTS n1, n2, s, b

\* A suspended subject and a blocked hash: reload lists suspensions first.
SuspensionThenBlock == (s :> 1) @@ (b :> 2)

Symmetric == Permutations(Node) \cup Permutations(Op)

=============================================================================
