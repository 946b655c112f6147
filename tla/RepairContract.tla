--------------------------- MODULE RepairContract ---------------------------
(***************************************************************************)
(* What the lifecycle code may rely on when it talks to the committer: the *)
(* contract of setMode() and stop() in netfilter_committer.go, without the *)
(* channels, the latch, the timer and the retries.                         *)
(*                                                                         *)
(* `told` is the last mode the lifecycle got an answer for, or "asking"    *)
(* while a setMode call is in flight, or "over" once stop() returned.      *)
(***************************************************************************)
CONSTANTS Modes

VARIABLES told, repairing

contractVars == <<told, repairing>>

ContractTypeOK ==
    /\ told \in Modes \cup {"asking", "over"}
    /\ repairing \in BOOLEAN

ContractInit == told = "starting" /\ repairing = FALSE

Ask ==
    /\ told # "over"
    /\ told' = "asking"
    /\ UNCHANGED repairing

(* setMode returns; an answer that forbids repairs means none is running. *)
Answer ==
    /\ told = "asking"
    /\ told' \in Modes
    /\ told' # "ready" => ~repairing
    /\ UNCHANGED repairing

(* A repair begins only while the lifecycle permits it, or is asking. *)
BeginRepair ==
    /\ told \in {"ready", "asking"}
    /\ ~repairing
    /\ repairing' = TRUE
    /\ UNCHANGED told

EndRepair ==
    /\ repairing
    /\ repairing' = FALSE
    /\ UNCHANGED told

(* stop() returned: no repair runs, and none will begin. *)
Over ==
    /\ ~repairing
    /\ told' = "over"
    /\ UNCHANGED repairing

ContractNext == Ask \/ Answer \/ BeginRepair \/ EndRepair \/ Over

ContractSpec == ContractInit /\ [][ContractNext]_contractVars

=============================================================================
