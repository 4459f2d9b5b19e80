--------------------------- MODULE MCFileDispatch ----------------------------
(* The instance of FileDispatch that TLC checks: its cfg gives three reads,   *)
(* two mutations, a channel of two places and two read threads.                *)
EXTENDS FileDispatch

=============================================================================
