------------------------------ MODULE DnsRouting ------------------------------
(***************************************************************************)
(* From a DNS answer to a routed address: the handlers of the DNS proxy     *)
(* (dns.go, dns_https.go) fill the records cache (recordsCache/records.go), *)
(* look the name up in the rules (app.go, searchDomain) and put the address *)
(* into the ipset of the group that wins (group.go); meanwhile the API      *)
(* edits the rules under cfgMu (api/v1/handlers.go) and the lifecycle takes *)
(* the routing down and up (app.go, bringUpRouting), both of which fill the *)
(* ipsets from the cache.  Each lock section of the code is one action.     *)
(*                                                                          *)
(* A rule list is [names, patterns, statics]: the names its domain and      *)
(* namespace rules match (the trie), the names its regular expressions      *)
(* match, and the addresses of its subnet rules.  Time is in ticks; an      *)
(* answer, an edit and a bring-up take less than a tick.                    *)
(***************************************************************************)
EXTENDS Integers, Sequences, FiniteSets, TLC

CONSTANTS
  Names, Addrs,
  Order,            \* the groups in the order of routingGroups()
  SubGroups,        \* the groups that belong to subscriptions
  FirstRules,       \* the rule list of each group at the start
  Listings,         \* the rule lists an edit may give to each group
  Answers,          \* the answer sections an upstream may send
  AdditionalTTL, ClientTTLCap, MaxRecordTTL,
  MaxTime,          \* bound: the clock stops here
  Handlers,         \* the goroutines that serve clients
  Kinds,            \* what else happens: subset of EditKinds \cup {"flip"}
  MaxEdits,         \* bound: edits of the rules
  Overlap,          \* whether edits and bring-up may run at the same time
  None

EditKinds == {"rules", "put", "rebuild"}
Groups == {Order[i] : i \in DOMAIN Order}

RuleLists == [names : SUBSET Names, patterns : SUBSET Names, statics : SUBSET Addrs]
ResourceRecords == [type : {"A"}, name : Names, addr : Addrs, ttl : Nat]
                   \cup [type : {"CNAME", "LINK"}, name : Names, to : Names, ttl : Nat]

ASSUME OrderAssumption == SubGroups \subseteq Groups /\ None \notin Groups \cup Names /\ Order # <<>>
ASSUME SequenceAssumption == Order \in Seq(Groups) /\ IsFiniteSet(Names)
ASSUME TtlAssumption ==
  AdditionalTTL \in Nat /\ ClientTTLCap \in Nat /\ MaxRecordTTL \in Nat \ {0} /\ MaxTime \in Nat \ {0}
ASSUME RulesAssumption == FirstRules \in [Groups -> RuleLists] /\ Listings \in [Groups -> SUBSET RuleLists]
ASSUME AnswerAssumption == Answers \subseteq Seq(ResourceRecords) \ {<<>>}
ASSUME EditsAssumption == MaxEdits \in Nat

VARIABLES
  now,        \* the clock
  addresses,  \* Records.addresses: [name -> [address -> deadline]], 0 = none
  aliases,    \* Records.aliases: [name -> [to, deadline]] or None
  rules,      \* Group.Rules
  trie,       \* domainTrie: the group a name is inserted with, or None
  active,     \* routingActive
  up,         \* Group.enabled, and with it the group's ipset
  object,     \* which *Group of a subscription is the current one
  hosts,      \* Group.staticHostV4
  ipset,      \* [group -> [address -> deadline]], 0 = none, Forever = timeout 0
  task,       \* what each handler is doing
  edit,       \* the holder of cfgMu
  edits,      \* edits made so far
  life,       \* the bring-up in progress
  held        \* what clients remember: [names, addr, until]

cache == <<addresses, aliases>>
kernel == <<up, object, hosts, ipset>>
vars == <<now, addresses, aliases, rules, trie, active, up, object, hosts, ipset,
          task, edit, edits, life, held>>

--------------------------------------------------------------------------------
(* Times to live (ttl.go) *)

Largest(S) == CHOOSE x \in S : \A y \in S : y <= x
Smallest(S) == CHOOSE x \in S : \A y \in S : x <= y

Forever == MaxTime + MaxRecordTTL + AdditionalTTL + 1
Deadlines == 0 .. Forever

ipsetTTLFromRecord(ttl) == Largest({1, Smallest({ttl, MaxRecordTTL}) + AdditionalTTL})

(* A netlink timeout of 0 is a permanent entry. *)
EntryUntil(timeout) == IF timeout = 0 THEN Forever ELSE now + timeout

(* Mutant: an address whose deadline is now has a timeout of 0. *)
ipsetTTLOrZero(found) == {<<p[1], p[2] - now>> : p \in {q \in found : q[2] >= now}}

ipsetTTLFromDeadline(found) == {<<p[1], p[2] - now>> : p \in {q \in found : q[2] > now}}

--------------------------------------------------------------------------------
(* The records cache *)

Valid(n) == {a \in Addrs : addresses[n][a] > 0 /\ now <= addresses[n][a]}

(* Mutant: the aliases are not followed. *)
GetOwnAddresses(name) == {<<a, addresses[name][a]>> : a \in Valid(name)}

(* GetAddresses: the addresses of the first name along the aliases that has  *)
(* any which has not expired, with their deadlines.  The code gives up at a  *)
(* name it has seen: no name of that cycle has a valid address, so to walk   *)
(* on for as many steps as there are names finds nothing either.             *)
GetAddresses(name) ==
  LET walk[k \in 0 .. Cardinality(Names)] ==
        IF k = 0 THEN name
        ELSE LET n == walk[k - 1]
             IN  IF Valid(n) = {} /\ aliases[n] # None /\ aliases[n].deadline >= now
                 THEN aliases[n].to ELSE n
      last == walk[Cardinality(Names)]
  IN  {<<a, addresses[last][a]>> : a \in Valid(last)}

(* reverseAliases is the inverse of aliases: both change under one lock. *)
Pointing(names) == {n \in Names : aliases[n] # None /\ aliases[n].to \in names}

(* Distance of every name that GetAliases reaches from `name'. *)
AliasLevel(name) ==
  LET within[k \in 0 .. Cardinality(Names)] ==
        IF k = 0 THEN {name} ELSE within[k - 1] \cup Pointing(within[k - 1])
  IN  [n \in within[Cardinality(Names)] |->
         Smallest({k \in 0 .. Cardinality(Names) : n \in within[k]})]

(* GetAliases walks breadth first; siblings come in no particular order. *)
GetAliases(name) ==
  LET level == AliasLevel(name)
  IN  {s \in [1 .. Cardinality(DOMAIN level) -> DOMAIN level] :
         /\ \A i, j \in DOMAIN s : i # j => s[i] # s[j]
         /\ \A i, j \in DOMAIN s : i < j => level[s[i]] <= level[s[j]]}

(* Mutant: an address that is known keeps its deadline. *)
AddAddressOnce(name, addr, ttl) ==
  addresses' = [addresses EXCEPT ![name][addr] = IF @ > 0 THEN @ ELSE now + ttl]

AddAddress(name, addr, ttl) ==
  addresses' = [addresses EXCEPT ![name][addr] = now + ttl]

(* Mutant: a name may become an alias of itself. *)
AddAnyAlias(name, to, ttl) ==
  aliases' = [aliases EXCEPT ![name] = [to |-> to, deadline |-> now + ttl]]

AddAlias(name, to, ttl) ==
  aliases' = IF name = to THEN aliases
             ELSE [aliases EXCEPT ![name] = [to |-> to, deadline |-> now + ttl]]

--------------------------------------------------------------------------------
(* The rules *)

First(S) ==
  IF S = {} THEN None
  ELSE Order[Smallest({i \in DOMAIN Order : Order[i] \in S})]

UpGroups == {g \in Groups : up[g]}

(* RebuildTrie: the first insertion of a name wins. *)
BuiltTrie == [n \in Names |-> First({g \in UpGroups : n \in rules[g].names})]

searchFallback(name) == First({g \in UpGroups : name \in rules[g].patterns})

searchDomain(name) ==
  IF trie[name] # None /\ trie[name] \in UpGroups THEN trie[name]
  ELSE searchFallback(name)

Matches(g, name) == name \in rules[g].names \cup rules[g].patterns

(* desiredSubnets: the static addresses for ever, and every address the      *)
(* cache knows for a matching name until its last deadline.                  *)
desiredSubnets(g) ==
  [a \in Addrs |->
     IF a \in rules[g].statics THEN Forever
     ELSE Largest({0} \cup
            {p[2] : p \in {q \in UNION {GetAddresses(n) : n \in {m \in Names : Matches(g, m)}} :
                             q[1] = a /\ q[2] > now}})]

(* sync: adds what is missing or lives longer, deletes what is not desired,  *)
(* and never shortens an entry.                                              *)
Synced(g) ==
  [a \in Addrs |-> IF desiredSubnets(g)[a] = 0 THEN 0
                   ELSE Largest({ipset[g][a], desiredSubnets(g)[a]})]

Sync(g) ==
  IF up[g]
  THEN /\ ipset' = [ipset EXCEPT ![g] = Synced(g)]
       /\ hosts' = [hosts EXCEPT ![g] = rules[g].statics]
  ELSE UNCHANGED <<ipset, hosts>>

--------------------------------------------------------------------------------
(* Handlers: dnsResponseHook, handleMessage, processARecord,                 *)
(* processCNameRecord, processHTTPSRecord.  An HTTPS record is a LINK (its   *)
(* target) followed by an A of the target for every address hint.            *)

Idle == [step |-> "idle", answer |-> <<>>, rest |-> <<>>, addrs |-> {},
         names |-> <<>>, target |-> None]

Going(h, step) == task[h].step = step
Goto(h, t) == task' = [task EXCEPT ![h] = t]

(* The loop of handleMessage: on to the next record of the answer. *)
NextRecord(t) ==
  [t EXCEPT !.rest = Tail(@), !.addrs = {}, !.names = <<>>, !.target = None,
            !.step = IF Len(t.rest) > 1 THEN "store" ELSE "deliver"]

Receive(h) ==
  /\ Going(h, "idle")
  /\ \E m \in Answers : Goto(h, [Idle EXCEPT !.step = "store", !.answer = m, !.rest = m])
  /\ UNCHANGED <<now, cache, rules, trie, active, kernel, edit, edits, life, held>>

StoreRecord(h) ==
  /\ Going(h, "store")
  /\ LET rr  == Head(task[h].rest)
         ttl == ipsetTTLFromRecord(rr.ttl)
     IN  \/ /\ rr.type = "A"
            /\ AddAddress(rr.name, rr.addr, ttl)
            /\ Goto(h, [task[h] EXCEPT !.step = "aliases", !.addrs = {<<rr.addr, ttl>>}])
            /\ UNCHANGED aliases
         \/ /\ rr.type = "CNAME"
            /\ AddAlias(rr.name, rr.to, ttl)
            /\ Goto(h, [task[h] EXCEPT !.step = "addresses"])
            /\ UNCHANGED addresses
         \/ /\ rr.type = "LINK"
            /\ AddAlias(rr.name, rr.to, ttl)
            /\ Goto(h, NextRecord(task[h]))
            /\ UNCHANGED addresses
  /\ UNCHANGED <<now, rules, trie, active, kernel, edit, edits, life, held>>

ReadAddresses(h) ==
  /\ Going(h, "addresses")
  /\ LET found == GetAddresses(Head(task[h].rest).name)
     IN  Goto(h, [task[h] EXCEPT !.step = "aliases", !.addrs = ipsetTTLFromDeadline(found)])
  /\ UNCHANGED <<now, cache, rules, trie, active, kernel, edit, edits, life, held>>

ReadAliases(h) ==
  /\ Going(h, "aliases")
  /\ \E s \in GetAliases(Head(task[h].rest).name) :
       Goto(h, [task[h] EXCEPT !.step = "search", !.names = s])
  /\ UNCHANGED <<now, cache, rules, trie, active, kernel, edit, edits, life, held>>

(* searchDomain reads the rules under cfgMu: it waits for an edit to end.    *)
SearchName(h) ==
  /\ Going(h, "search")
  /\ edit.step = "idle"
  /\ LET t == task[h]
         g == searchDomain(Head(t.names))
     IN  Goto(h, IF g # None /\ t.addrs # {}
                 THEN [t EXCEPT !.step = "add", !.names = <<>>,
                                !.target = [group |-> g, object |-> object[g]]]
                 ELSE IF g # None \/ Len(t.names) = 1 THEN NextRecord(t)
                 ELSE [t EXCEPT !.names = Tail(@)])
  /\ UNCHANGED <<now, cache, rules, trie, active, kernel, edit, edits, life, held>>

(* AddIPv4Subnet of the group found: refused by a group that is off or has   *)
(* been replaced, and for an address that is a static host; otherwise the    *)
(* entry is written over whatever was there.                                 *)
AddSubnet(h) ==
  /\ Going(h, "add")
  /\ \E p \in task[h].addrs :
       LET g == task[h].target.group
           t == [task[h] EXCEPT !.addrs = @ \ {p}]
       IN  /\ ipset' = IF up[g] /\ object[g] = task[h].target.object /\ p[1] \notin hosts[g]
                       THEN [ipset EXCEPT ![g][p[1]] = EntryUntil(p[2])]
                       ELSE ipset
           /\ Goto(h, IF t.addrs = {} THEN NextRecord(t) ELSE t)
  /\ UNCHANGED <<now, cache, rules, trie, active, up, object, hosts, edit, edits, life, held>>

(* What the client is told: capAnswersTTL applies to its copy only. *)
ClientTTL(ttl) == IF ClientTTLCap = 0 THEN ttl ELSE Smallest({ttl, ClientTTLCap})

Records(answer) == {answer[i] : i \in DOMAIN answer}

Learned(answer) ==
  {[names |-> {rr.name : rr \in Records(answer)},
    addr  |-> r.addr,
    until |-> now + Smallest({ClientTTL(rr.ttl) : rr \in Records(answer)})]
     : r \in {rr \in Records(answer) : rr.type = "A"}}

Deliver(h) ==
  /\ Going(h, "deliver")
  /\ held' = held \cup {k \in Learned(task[h].answer) : k.until > now}
  /\ Goto(h, Idle)
  /\ UNCHANGED <<now, cache, rules, trie, active, kernel, edit, edits, life>>

Handle(h) ==
  \/ StoreRecord(h) \/ ReadAddresses(h) \/ ReadAliases(h)
  \/ SearchName(h) \/ AddSubnet(h) \/ Deliver(h)

--------------------------------------------------------------------------------
(* Edits: PutGroup, PutRules, CreateRule and PutRule, and the rebuilding of  *)
(* the subscription groups.  The editor holds cfgMu from its first step to   *)
(* its last one.                                                             *)

NoEdit == [step |-> "idle", kind |-> None, group |-> None, enabled |-> FALSE, todo |-> <<>>]
NoLife == [step |-> "idle", todo |-> <<>>, draft |-> None]

EditIs(step) == edit.step = step

(* routingMutationMu: held for the whole of a bring-up and of a rebuild. *)
MutationFree == life.step = "idle" /\ ~(edit.kind = "rebuild" /\ edit.step # "begin")

BeginEdit ==
  /\ EditIs("idle") /\ edits < MaxEdits
  /\ Overlap \/ life.step = "idle"
  /\ \E k \in Kinds \cap EditKinds, g \in Groups :
       /\ (g \in SubGroups) <=> (k = "rebuild")
       /\ edit' = [NoEdit EXCEPT !.step = IF k = "put" /\ up[g] THEN "disable"
                                          ELSE IF k = "rebuild" THEN "begin" ELSE "mutate",
                                 !.kind = k, !.group = g, !.enabled = up[g]]
  /\ edits' = edits + 1
  /\ UNCHANGED <<now, cache, rules, trie, active, kernel, task, life, held>>

(* PutGroup takes the group down before it changes it ... *)
EditDisable ==
  /\ EditIs("disable") /\ MutationFree
  /\ up' = [up EXCEPT ![edit.group] = FALSE]
  /\ ipset' = [ipset EXCEPT ![edit.group] = [a \in Addrs |-> 0]]
  /\ edit' = [edit EXCEPT !.step = "mutate"]
  /\ UNCHANGED <<now, cache, rules, trie, active, object, hosts, task, edits, life, held>>

(* Mutant: the handler syncs the groups and leaves the trie as it was. *)
EditMutateKeepsTrie ==
  /\ EditIs("mutate")
  /\ \E l \in Listings[edit.group] : rules' = [rules EXCEPT ![edit.group] = l]
  /\ edit' = IF ~edit.enabled THEN NoEdit
             ELSE [edit EXCEPT !.step = IF edit.kind = "put" THEN "enable" ELSE "sync", !.todo = Order]
  /\ UNCHANGED <<now, cache, trie, active, kernel, task, edits, life, held>>

EditMutate ==
  /\ EditIs("mutate")
  /\ \E l \in Listings[edit.group] : rules' = [rules EXCEPT ![edit.group] = l]
  /\ edit' = IF ~edit.enabled THEN NoEdit
             ELSE [edit EXCEPT !.step = IF edit.kind = "put" THEN "enable" ELSE "trie"]
  /\ UNCHANGED <<now, cache, trie, active, kernel, task, edits, life, held>>

(* ... and puts it up again after. *)
EditEnable ==
  /\ EditIs("enable") /\ MutationFree
  /\ up' = [up EXCEPT ![edit.group] = TRUE]
  /\ edit' = [edit EXCEPT !.step = "trie"]
  /\ UNCHANGED <<now, cache, rules, trie, active, object, hosts, ipset, task, edits, life, held>>

(* rebuildSubscriptionGroupsLocked: the old groups off, new objects with the *)
(* new rules on.  When routing is down nothing is enabled and nothing synced.*)
EditRebuild ==
  /\ EditIs("begin") /\ MutationFree
  /\ \E l \in Listings[edit.group] : rules' = [rules EXCEPT ![edit.group] = l]
  /\ object' = [g \in Groups |-> IF g \in SubGroups THEN object[g] + 1 ELSE object[g]]
  /\ hosts' = [g \in Groups |-> IF g \in SubGroups THEN {} ELSE hosts[g]]
  /\ ipset' = [g \in Groups |-> IF g \in SubGroups THEN [a \in Addrs |-> 0] ELSE ipset[g]]
  /\ up' = [g \in Groups |-> IF g \in SubGroups THEN active ELSE up[g]]
  /\ edit' = IF active THEN [edit EXCEPT !.step = "trie"] ELSE NoEdit
  /\ UNCHANGED <<now, cache, trie, active, task, edits, life, held>>

(* SyncAllGroups: the trie first, then every group that is up. *)
EditTrie ==
  /\ EditIs("trie")
  /\ trie' = BuiltTrie
  /\ edit' = [edit EXCEPT !.step = "sync", !.todo = Order]
  /\ UNCHANGED <<now, cache, rules, active, kernel, task, edits, life, held>>

EditSync ==
  /\ EditIs("sync")
  /\ Sync(Head(edit.todo))
  /\ edit' = IF Len(edit.todo) = 1 THEN NoEdit ELSE [edit EXCEPT !.todo = Tail(@)]
  /\ UNCHANGED <<now, cache, rules, trie, active, up, object, task, edits, life, held>>

Editing ==
  \/ EditDisable \/ EditMutate \/ EditEnable \/ EditRebuild \/ EditTrie \/ EditSync

--------------------------------------------------------------------------------
(* Lifecycle: bringUpRouting and bringDownRouting, under routingMutationMu   *)
(* and without cfgMu.                                                        *)

BringUp ==
  /\ "flip" \in Kinds
  /\ ~active /\ MutationFree /\ (Overlap \/ EditIs("idle"))
  /\ active' = TRUE
  /\ up' = [g \in Groups |-> TRUE]
  /\ life' = [NoLife EXCEPT !.step = "sync", !.todo = Order]
  /\ UNCHANGED <<now, cache, rules, trie, object, hosts, ipset, task, edit, edits, held>>

(* Every group is filled from the cache before the trie is rebuilt. *)
BringUpSync ==
  /\ life.step = "sync"
  /\ Sync(Head(life.todo))
  /\ life' = [life EXCEPT !.todo = Tail(@), !.step = IF Len(life.todo) = 1 THEN "read" ELSE @]
  /\ UNCHANGED <<now, cache, rules, trie, active, up, object, task, edit, edits, held>>

BringUpReadRules ==
  /\ life.step = "read"
  /\ life' = [life EXCEPT !.step = "store", !.draft = BuiltTrie]
  /\ UNCHANGED <<now, cache, rules, trie, active, kernel, task, edit, edits, held>>

BringUpStoreTrie ==
  /\ life.step = "store"
  /\ trie' = life.draft
  /\ life' = NoLife
  /\ UNCHANGED <<now, cache, rules, active, kernel, task, edit, edits, held>>

BringDown ==
  /\ "flip" \in Kinds
  /\ active /\ MutationFree /\ (Overlap \/ EditIs("idle"))
  /\ active' = FALSE
  /\ up' = [g \in Groups |-> FALSE]
  /\ ipset' = [g \in Groups |-> [a \in Addrs |-> 0]]
  /\ UNCHANGED <<now, cache, rules, trie, object, hosts, task, edit, edits, life, held>>

Lifecycle == BringUpSync \/ BringUpReadRules \/ BringUpStoreTrie

--------------------------------------------------------------------------------
(* Time *)

Alive(deadline) == IF deadline > now + 1 THEN deadline ELSE 0

(* A tick; the kernel drops the entries whose timeout has run out. *)
Tick ==
  /\ now < MaxTime
  /\ \A h \in Handlers : Going(h, "idle")
  /\ EditIs("idle") /\ life.step = "idle"
  /\ now' = now + 1
  /\ ipset' = [g \in Groups |-> [a \in Addrs |-> Alive(ipset[g][a])]]
  /\ held' = {k \in held : k.until > now + 1}
  /\ UNCHANGED <<cache, rules, trie, active, up, object, hosts, task, edit, edits, life>>

cleanupRecords ==
  /\ \/ \E n \in Names, a \in Addrs : addresses[n][a] > 0 /\ addresses[n][a] < now
     \/ \E n \in Names : aliases[n] # None /\ aliases[n].deadline < now
  /\ addresses' = [n \in Names |-> [a \in Addrs |->
                     IF addresses[n][a] < now THEN 0 ELSE addresses[n][a]]]
  /\ aliases' = [n \in Names |->
                   IF aliases[n] # None /\ aliases[n].deadline < now THEN None ELSE aliases[n]]
  /\ UNCHANGED <<now, rules, trie, active, kernel, task, edit, edits, life, held>>

--------------------------------------------------------------------------------
(* The daemon has started and its routing is up. *)
Init ==
  /\ now = 1
  /\ addresses = [n \in Names |-> [a \in Addrs |-> 0]]
  /\ aliases = [n \in Names |-> None]
  /\ rules = FirstRules
  /\ active = TRUE
  /\ up = [g \in Groups |-> TRUE]
  /\ trie = BuiltTrie
  /\ object = [g \in Groups |-> 0]
  /\ hosts = [g \in Groups |-> rules[g].statics]
  /\ ipset = [g \in Groups |-> [a \in Addrs |-> IF a \in rules[g].statics THEN Forever ELSE 0]]
  /\ task = [h \in Handlers |-> Idle]
  /\ edit = NoEdit
  /\ edits = 0
  /\ life = NoLife
  /\ held = {}

Next ==
  \/ \E h \in Handlers : Receive(h) \/ Handle(h)
  \/ BeginEdit \/ Editing
  \/ BringUp \/ BringDown \/ Lifecycle
  \/ Tick \/ cleanupRecords

Spec == Init /\ [][Next]_vars

--------------------------------------------------------------------------------
(* Properties *)

(* Every variable stays in its type; the clock and the ipset deadlines stay  *)
(* within the bounds.                                                        *)
TypeOK ==
  /\ now \in 1 .. MaxTime
  /\ addresses \in [Names -> [Addrs -> Deadlines]]
  /\ \A n \in Names : aliases[n] = None \/ (aliases[n].to \in Names \ {n} /\ aliases[n].deadline \in Deadlines)
  /\ \A g \in Groups : rules[g] = FirstRules[g] \/ rules[g] \in Listings[g]
  /\ trie \in [Names -> Groups \cup {None}]
  /\ active \in BOOLEAN /\ up \in [Groups -> BOOLEAN]
  /\ object \in [Groups -> 0 .. MaxEdits]
  /\ hosts \in [Groups -> SUBSET Addrs]
  /\ ipset \in [Groups -> [Addrs -> Deadlines]]
  /\ \A h \in Handlers : task[h].answer \in Answers \cup {<<>>}
  /\ edits \in 0 .. MaxEdits
  /\ \A k \in held : k.names \subseteq Names /\ k.addr \in Addrs /\ k.until > now

(* Nothing but handlers is at work, and the routing is up. *)
Settled == active /\ EditIs("idle") /\ life.step = "idle"

(* The group that should carry a name, by the rules as they are now. *)
Owner(name) ==
  LET g == First({x \in UpGroups : name \in rules[x].names})
  IN  IF g # None THEN g ELSE searchFallback(name)

(* While a client may use an address it was given, the address is in the     *)
(* ipset of a group that owns one of the names it was asked by; the cap on   *)
(* client TTLs exists "so that the cache of the OS and of applications does  *)
(* not outlive the ipset entry" (constant.go:20).                            *)
ClientsAreRouted ==
  Settled => \A k \in held :
    LET owners == {Owner(n) : n \in k.names} \ {None}
    IN  owners # {} => \E g \in owners : ipset[g][k.addr] > now

(* Once an edit or a bring-up is over, names are looked up by the rules that *)
(* are in force and not by those of an earlier moment (RebuildTrie).         *)
TrieFollowsRules == Settled => trie = BuiltTrie

(* Once an edit is over, only the addresses of subnet rules are permanent: an *)
(* entry learned from DNS has a timeout, whatever its TTL and however late it *)
(* is added (ttl.go:44).                                                     *)
NothingForever ==
  Settled =>
    \A g \in Groups, a \in Addrs : ipset[g][a] = Forever => a \in rules[g].statics

(* Once an edit is over and no answer is in flight, a group routes only the  *)
(* addresses its rules ask for: SyncAllGroups is called "to remove the stale *)
(* addresses of the groups the rules were taken from" (app.go:290).          *)
StaleIsRemoved ==
  Settled /\ (\A h \in Handlers : Going(h, "idle")) =>
    \A g \in Groups, a \in Addrs :
      ipset[g][a] > now => desiredSubnets(g)[a] > 0
================================================================================
