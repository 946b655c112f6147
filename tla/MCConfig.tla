------------------------------- MODULE MCConfig -------------------------------
(* Instances of ConfigStore for TLC. *)
EXTENDS ConfigStore, TLC

CONSTANTS h1, h2, n1, n2

BothFamilies == <<"v4", "v6">>
=============================================================================
