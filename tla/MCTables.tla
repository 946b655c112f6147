------------------------------- MODULE MCTables -------------------------------
(* Instances of RoutingTables for TLC. *)
EXTENDS RoutingTables, TLC

CONSTANTS a, b, gw1, gw2

Mixes == {a :> "link" @@ b :> "link", a :> "link" @@ b :> "tproxy"}
LinkAndBlackhole == {a :> "link" @@ b :> "blackhole"}

(* The interface comes up, gains an address and loses it; or the daemon is    *)
(* killed, and killed again in its cleaner.                                   *)
LinksAndKills == {[turns |-> 3, changes |-> 3, crashes |-> 0], [turns |-> 2, changes |-> 2, crashes |-> 2]}
OneKill == {[turns |-> 2, changes |-> 0, crashes |-> 1]}
TwoKills == {[turns |-> 1, changes |-> 0, crashes |-> 2]}
ManyChanges == {[turns |-> 1, changes |-> 5, crashes |-> 0]}

OneFamily == <<"v4">>
BothFamilies == <<"v4", "v6">>
=============================================================================
