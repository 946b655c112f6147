------------------------------- MODULE MCChains -------------------------------
(* Instances of IPTablesChains for TLC. *)
EXTENDS IPTablesChains

CONSTANTS a, b, P

(* Every kind, each with those it shares a table or the preamble with. *)
Pairs == {a :> "direct" @@ b :> "interface",
          a :> "interface" @@ b :> "blackhole",
          a :> "remap" @@ b :> "tproxy"}
MarkingPair == a :> "interface" @@ b :> "blackhole"

(* Short courses with an incident, and long ones that enable, disable and     *)
(* enable again.                                                              *)
ShortAndLong == {[kind |-> k, turns |-> 2, incidents |-> 1] : k \in Pairs}
                \cup {[kind |-> k, turns |-> 3, incidents |-> 0] : k \in Pairs \ {MarkingPair}}
OneShort == {[kind |-> MarkingPair, turns |-> 2, incidents |-> 1]}
MarkedLeft == {<<P, b>>}
NothingLeft == {<<>>}
OneFamily == <<"v4">>
=============================================================================
