---------------------------- MODULE MCPushIngest ----------------------------
(* Model-checking instances of PushIngest.                                 *)
EXTENDS PushIngest, TLC

CONSTANTS p1, p2, h1, h2

\* Two pushes of one blob, and one push of each of two blobs.
OneBlob == (p1 :> h1) @@ (p2 :> h1)
OneEach == (p1 :> h1) @@ (p2 :> h2)

=============================================================================
