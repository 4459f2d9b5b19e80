---------------------------- MODULE MCRunExecution ----------------------------
(* The instance of RunExecution that TLC checks: three tool calls over two    *)
(* model turns, two crashes and a finalization that cannot be saved.          *)
EXTENDS RunExecution

===============================================================================
