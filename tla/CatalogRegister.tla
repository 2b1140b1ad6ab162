-------------------------- MODULE CatalogRegister --------------------------
(***************************************************************************)
(* What a creator's catalog promises its publishers and readers: one       *)
(* current version whose `seq` only increases, and answers that never go   *)
(* back behind an answer already given.  CatalogPublish implements it.     *)
(***************************************************************************)
EXTENDS Integers

CONSTANTS Version,   \* the versions a publisher may make current
          None       \* no catalog yet, with `seq` 0

VARIABLES current,     \* the current version
          announced    \* the highest `seq` any answer has named, 0 at first

registerVars == <<current, announced>>

RegisterInit ==
    /\ current = None
    /\ announced = 0

\* A newer version becomes current.
Advance ==
    /\ \E v \in Version : v.seq > current.seq /\ current' = v
    /\ UNCHANGED announced

\* An answer (to a publish or a read) names a version that is or was current
\* and is not older than the version it must at least show.
Announce ==
    /\ \E n \in 1..current.seq :
          announced' = IF n > announced THEN n ELSE announced
    /\ UNCHANGED current

RegisterSpec == RegisterInit /\ [][Advance \/ Announce]_registerVars

=============================================================================
