---------------------------- MODULE MCTlsReload ----------------------------
(* Model-checking instance of TlsReload.                                   *)
EXTENDS TlsReload

\* The third certificate keeps the second one's key.
Certificates == <<1, 2, 2>>

=============================================================================
