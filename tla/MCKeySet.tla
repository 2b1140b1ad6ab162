----------------------------- MODULE MCKeySet -----------------------------
(* Model-checking instance of KeySet.                                      *)
EXTENDS KeySet, TLC

CONSTANTS k1, k2, k3, v1, v2, v3

\* k1 is rotated out; k3 is not P-256, and once the only key published.
Rotations == <<{k1, k3}, {k3}, {k1, k2, k3}, {k2}>>
Presented == (v1 :> k1) @@ (v2 :> k2) @@ (v3 :> k3)

=============================================================================
