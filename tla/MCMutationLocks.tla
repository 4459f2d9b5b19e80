--------------------------- MODULE MCMutationLocks ---------------------------
(* The instance of MutationEffects that TLC checks: two files, and the        *)
(* unknown footprint of commands, deletions and moves.                        *)
EXTENDS MutationEffects

MCFootprints == {{}, {<<"src", "a">>}, {<<"src", "b">>}}
=============================================================================
