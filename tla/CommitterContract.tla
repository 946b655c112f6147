------------------------- MODULE CommitterContract -------------------------
(* NetfilterCommitter implements RepairContract. *)
EXTENDS NetfilterCommitter

Told ==
    IF stopper = "stopped" THEN "over"
    ELSE IF ctl.st # "idle" THEN "asking"
    ELSE granted

Contract == INSTANCE RepairContract WITH told <- Told, repairing <- InPass

(* The committer keeps the contract the lifecycle code relies on when it   *)
(* takes rules down: between the return of setMode(paused), or of stop(),  *)
(* and the next call no repair runs and none begins.                       *)
ImplementsContract == Contract!ContractSpec

=============================================================================
