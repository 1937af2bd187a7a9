--------------------------- MODULE MCApplications ---------------------------
(***************************************************************************)
(* Instances of Applications for TLC.                                      *)
(***************************************************************************)
EXTENDS Applications, TLC

CONSTANTS r1, r2, p1, e1, e2

Identities == {f @@ g : f \in Permutations({r1, r2}), g \in Permutations({e1, e2})}
=============================================================================
