------------------------------- MODULE MCPersist -------------------------------
(* Small instances of RecordsPersist: `shop' is an alias of `edge'; the rules *)
(* match `shop' and `blog'.                                                   *)
EXTENDS RecordsPersist, TLC

CONSTANTS shop, edge, blog

AllNames   == {shop, edge, blog}
TwoNames   == {shop, edge}
Aliased    == [n \in AllNames |-> IF n = shop THEN edge ELSE None]
TwoAliased == [n \in TwoNames |-> IF n = shop THEN edge ELSE None]
================================================================================
