----------------------------- MODULE MCNodeKey -----------------------------
(* Model-checking instance of NodeKey.                                     *)
EXTENDS NodeKey

CONSTANTS i1, i2, i3

=============================================================================
