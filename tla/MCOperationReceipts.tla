--------------------------- MODULE MCOperationReceipts ---------------------------
(* The instance of OperationReceipts that TLC checks: two operations, with   *)
(* room for one finished result in memory.                                    *)
EXTENDS OperationReceipts

==================================================================================
