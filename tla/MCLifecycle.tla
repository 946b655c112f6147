---------------------------- MODULE MCLifecycle ----------------------------
(* Instances of RoutingLifecycle for TLC. *)
EXTENDS RoutingLifecycle

CONSTANTS d, g1, g2, g3, h1

(* The firmware rewrites the table of the DNS remap, or all of them. *)
TwoTables == {{d}, {d, g1, g2}}
=============================================================================
