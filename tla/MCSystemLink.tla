------------------------------ MODULE MCSystemLink ------------------------------
(* The instance of SystemLink that TLC checks: two requests over up to five   *)
(* processes.                                                                 *)
EXTENDS SystemLink

================================================================================
