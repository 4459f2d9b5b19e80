--------------------------- MODULE MCDangerAccess ---------------------------
(* Symmetry for checking DangerAccess. *)
EXTENDS DangerAccess, TLC

Symmetry == Permutations(Calls)
=============================================================================
