---------------------------- MODULE MCCommitter ----------------------------
(* Instances of NetfilterCommitter for TLC. *)
EXTENDS CommitterContract

(* The modes the lifecycle asks for. *)
BothModes == {"ready", "paused"}
=============================================================================
