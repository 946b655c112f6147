-------------------------------- MODULE MCDns --------------------------------
(* Small instances of DnsRouting: `shop' is an alias of `edge', and `edge'   *)
(* and `blog' may share an address of a content network.                     *)
EXTENDS DnsRouting

CONSTANTS a1, a2, a3, a4, g1, g2, s1, shop, edge, blog

Rule(names, patterns, statics) == [names |-> names, patterns |-> patterns, statics |-> statics]

A(name, addr, ttl)    == [type |-> "A", name |-> name, addr |-> addr, ttl |-> ttl]
CNAME(name, to, ttl)  == [type |-> "CNAME", name |-> name, to |-> to, ttl |-> ttl]
LINK(name, to, ttl)   == [type |-> "LINK", name |-> name, to |-> to, ttl |-> ttl]

TwoGroups  == <<g1, g2>>
WithSubs   == <<g1, s1>>

(* edits: a name moves between a group and a subscription *)
EditRules    == (g1 :> Rule({shop}, {}, {a4})) @@ (s1 :> Rule({}, {edge}, {}))
EditListings == (g1 :> {Rule(N, {}, {a4}) : N \in {{}, {shop}}})
                @@ (s1 :> {Rule({}, {edge}, {}), Rule({shop}, {}, {})})
EditAnswers  == {<<CNAME(shop, edge, 1), A(edge, a1, 1)>>, <<LINK(shop, edge, 1), A(edge, a1, 1)>>,
                 <<A(edge, a1, 1)>>, <<CNAME(shop, edge, 1)>>, <<CNAME(shop, shop, 1)>>}

(* clock: round robin and short TTLs, one static address *)
ClockRules   == (g1 :> Rule({shop}, {}, {a4})) @@ (g2 :> Rule({}, {blog}, {}))
ClockListings == (g1 :> {Rule(N, {}, {a4}) : N \in {{}, {shop}}}) @@ (g2 :> {Rule({}, {blog}, {})})
ClockAnswers == {<<CNAME(shop, edge, 3), A(edge, a1, 1)>>, <<CNAME(shop, edge, 1), A(edge, a2, 3)>>,
                 <<CNAME(shop, edge, 1)>>, <<A(blog, a3, 0)>>, <<A(edge, a4, 1)>>}


(* a rule that is added while the routing is down *)
AddedRules    == g1 :> Rule({}, {}, {})
AddedListings == g1 :> {Rule({shop}, {}, {})}
FlipAnswers == {<<A(shop, a1, 1)>>}

(* an alias that moves from one name to another *)
MovedAnswers == {<<CNAME(shop, edge, 1), A(edge, a1, 1)>>, <<A(shop, a2, 1)>>}

(* an address two names share, and an answer with a CNAME alone *)
SharedRules   == g1 :> Rule({shop, blog}, {}, {})
SharedAnswers == {<<A(edge, a1, 0)>>, <<A(blog, a1, 2)>>, <<CNAME(shop, edge, 1)>>}
OneGroup == <<g1>>

(* a static address that is taken from the rules while DNS knows it *)
StaticRules    == g1 :> Rule({shop}, {}, {a4})
StaticListings == g1 :> {Rule({shop}, {}, {})}
StaticAnswers  == {<<A(shop, a4, 1)>>}

(* rules that may be taken from the first group *)
StaleRules == (g1 :> Rule({shop}, {}, {})) @@ (g2 :> Rule({shop}, {}, {}))
StaleListings == (g1 :> {Rule({}, {}, {})}) @@ (g2 :> {Rule({shop}, {}, {})})
================================================================================
