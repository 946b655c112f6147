--------------------------- MODULE DnsRoutingProofs ---------------------------
(***************************************************************************)
(* Proofs about DnsRouting for every value of the constants: its types, and,*)
(* when edits and bring-up do not overlap, that lookups follow the rules and*)
(* that no entry learned from DNS is permanent; and, when answers need no   *)
(* alias, that what clients hold is routed.                                 *)
(***************************************************************************)
EXTENDS DnsRouting, TLAPS, WellFoundedInduction, FiniteSetTheorems

MaxTimeout == MaxRecordTTL + AdditionalTTL

(* The records that an upstream may send, and the addresses in them. *)
KnownRecords == UNION {Records(m) : m \in Answers}
Known == {rr.addr : rr \in {r \in KnownRecords : r.type = "A"}}

Tries == [Names -> Groups \cup {None}]

--------------------------------------------------------------------------------
(* Types *)

HandlerSteps == {"idle", "store", "addresses", "aliases", "search", "add", "deliver"}

(* What a handler carries: the records it has left to do, the entries it has *)
(* found, with timeouts that are never 0, and where they go.                 *)
Targets == [group : Groups, object : Nat] \cup {None}

Tasks == [step : HandlerSteps, answer : Answers \cup {<<>>}, rest : Seq(KnownRecords),
          addrs : SUBSET (Known \X (1 .. MaxTimeout)), names : Seq(Names), target : Targets]

TaskOK(t) ==
  /\ t \in Tasks
  /\ t.step \notin {"idle", "deliver"} => t.rest # <<>>
  /\ t.step = "search" => t.names # <<>>
  /\ t.step = "add" => t.target \in [group : Groups, object : Nat]

Edits == [step : {"idle", "disable", "begin", "mutate", "enable", "trie", "sync"},
          kind : EditKinds \cup {None}, group : Groups \cup {None}, enabled : BOOLEAN, todo : Seq(Groups)]

EditOK ==
  /\ edit \in Edits
  /\ edit.step # "idle" => edit.group \in Groups
  /\ edit.step = "begin" => edit.group \in SubGroups
  /\ edit.step = "sync" => edit.todo # <<>>

Lives == [step : {"idle", "sync", "read", "store"}, todo : Seq(Groups), draft : Tries \cup {None}]

LifeOK ==
  /\ life \in Lives
  /\ life.step = "sync" => life.todo # <<>>
  /\ life.step = "store" => life.draft \in Tries

AliasOK(n, x) == x = None \/ (x.to \in Names \ {n} /\ x.deadline \in 0 .. Forever - 1)

(* No deadline in the cache is further ahead than the longest timeout, and so *)
(* none could be taken for Forever; the addresses are those of answers.      *)
CacheOK ==
  /\ addresses \in [Names -> [Addrs -> 0 .. Forever - 1]]
  /\ \A n \in Names, a \in Addrs : addresses[n][a] <= now + MaxTimeout
  /\ \A n \in Names, a \in Addrs : addresses[n][a] > 0 => a \in Known
  /\ aliases = [n \in Names |-> aliases[n]]
  /\ \A n \in Names : AliasOK(n, aliases[n])

RulesOK ==
  /\ rules \in [Groups -> RuleLists]
  /\ \A g \in Groups : rules[g] = FirstRules[g] \/ rules[g] \in Listings[g]

(* A rebuild that has begun has been counted and has not replaced the        *)
(* objects yet.                                                              *)
ObjectsOK ==
  /\ edits \in 0 .. MaxEdits
  /\ object \in [Groups -> Nat]
  /\ \A g \in Groups : object[g] <= edits
  /\ edit.step = "begin" => \A g \in Groups : object[g] < edits

GroupsOK ==
  /\ active \in BOOLEAN
  /\ up \in [Groups -> BOOLEAN]
  /\ hosts \in [Groups -> SUBSET Addrs]
  /\ ipset \in [Groups -> [Addrs -> Deadlines]]

TasksOK ==
  /\ task = [h \in Handlers |-> task[h]]
  /\ \A h \in Handlers : TaskOK(task[h])

HeldOK == \A k \in held : k.names \subseteq Names /\ k.addr \in Addrs /\ k.until > now

TypesInv ==
  /\ now \in 1 .. MaxTime
  /\ CacheOK
  /\ RulesOK
  /\ trie \in Tries
  /\ GroupsOK
  /\ ObjectsOK
  /\ TasksOK
  /\ EditOK
  /\ LifeOK
  /\ HeldOK

--------------------------------------------------------------------------------
(* Numbers *)

(* A set of natural numbers has a least member. *)
LEMMA Least ==
  ASSUME NEW T, T \subseteq Nat, T # {}
  PROVE  \E x \in T : \A y \in T : x <= y
<1> DEFINE R == OpToRel(<, Nat)
<1>1. IsWellFoundedOn(R, Nat)
  BY NatLessThanWellFounded
<1>2. \A x, y \in Nat : y < x => <<y, x>> \in R
  BY DEF OpToRel
<1>3. \E x \in T : \A y \in T : ~ (<<y, x>> \in R)
  <2> HIDE DEF R
  <2> QED BY <1>1, WFMin
<1>4. \A x, y \in T : ~ (y < x) => x <= y
  <2> SUFFICES ASSUME NEW x \in Nat, NEW y \in Nat, ~ (y < x) PROVE x <= y
    OBVIOUS
  <2> QED OBVIOUS
<1>5. PICK x \in T : \A y \in T : ~ (<<y, x>> \in R)
  BY <1>3
<1>6. \A y \in T : ~ (y < x)
  <2> HIDE DEF R
  <2> QED BY <1>2, <1>5
<1> QED BY <1>4, <1>6

(* Induction over the natural numbers, with the induction hypothesis as a set. *)
LEMMA NatSetInduction ==
  ASSUME NEW S, 0 \in S, \A n \in Nat : n \in S => n + 1 \in S
  PROVE  Nat \subseteq S
<1> DEFINE T == Nat \ S
<1> SUFFICES ASSUME T # {} PROVE FALSE
  OBVIOUS
<1>1. PICK x \in T : \A y \in T : x <= y
  <2> T \subseteq Nat OBVIOUS
  <2> HIDE DEF T
  <2> QED BY Least
<1>2. x - 1 \in T /\ x - 1 < x
  OBVIOUS
<1> QED BY <1>1, <1>2

LEMMA SmallestIs ==
  ASSUME NEW S, S \subseteq Nat, S # {}
  PROVE  Smallest(S) \in S /\ \A y \in S : Smallest(S) <= y
BY Least DEF Smallest

(* A set of natural numbers with a bound has a greatest member. *)
LEMMA LargestIs ==
  ASSUME NEW b \in Nat, NEW S, S \subseteq 0 .. b, S # {}
  PROVE  Largest(S) \in S /\ \A y \in S : y <= Largest(S)
<1> DEFINE T == {b - x : x \in S}
<1>1. T \subseteq Nat /\ T # {}
  <2>1. \A x \in S : x \in Nat /\ x <= b
    OBVIOUS
  <2>2. \A x \in S : b - x \in Nat
    BY <2>1
  <2> QED BY <2>2
<1>2. PICK d \in T : \A y \in T : d <= y
  <2> HIDE DEF T
  <2> QED BY <1>1, Least
<1>3. PICK x \in S : d = b - x
  BY <1>2
<1>4. \A y \in S : y <= x
  <2> TAKE y \in S
  <2>1. b - y \in T
    OBVIOUS
  <2>2. b - x <= b - y
    BY <2>1, <1>2, <1>3
  <2> QED BY <2>2
<1> QED BY <1>3, <1>4 DEF Largest

LEMMA Bounds ==
  /\ MaxTimeout \in Nat \ {0}
  /\ Forever \in Nat
  /\ Forever = MaxTime + MaxTimeout + 1
  /\ MaxTime \in Nat \ {0}
BY TtlAssumption DEF MaxTimeout, Forever

(* An entry learned from an answer always has a timeout, and a bounded one. *)
LEMMA RecordTTL ==
  ASSUME NEW ttl \in Nat
  PROVE  ipsetTTLFromRecord(ttl) \in 1 .. MaxTimeout
<1>1. /\ Smallest({ttl, MaxRecordTTL}) \in {ttl, MaxRecordTTL}
      /\ Smallest({ttl, MaxRecordTTL}) <= MaxRecordTTL
  BY SmallestIs, TtlAssumption
<1> DEFINE s == Smallest({ttl, MaxRecordTTL})
<1> HIDE DEF s
<1>2. s \in Nat /\ s <= MaxRecordTTL
  BY <1>1, TtlAssumption DEF s
<1>3. {1, s + AdditionalTTL} \subseteq 0 .. MaxTimeout
  BY <1>2, TtlAssumption DEF MaxTimeout
<1>4. /\ Largest({1, s + AdditionalTTL}) \in {1, s + AdditionalTTL}
      /\ 1 <= Largest({1, s + AdditionalTTL})
  BY <1>3, Bounds, LargestIs
<1>5. ipsetTTLFromRecord(ttl) = Largest({1, s + AdditionalTTL})
  BY DEF ipsetTTLFromRecord, s
<1> QED BY <1>3, <1>4, <1>5, Bounds

--------------------------------------------------------------------------------
(* Lookup *)

(* The first group of a set is one of the set. *)
LEMMA FirstIn ==
  ASSUME NEW S, S \subseteq Groups
  PROVE  First(S) \in S \cup {None}
<1>1. CASE S = {}
  BY <1>1 DEF First
<1>2. CASE S # {}
  <2> DEFINE I == {i \in DOMAIN Order : Order[i] \in S}
  <2>1. I \subseteq Nat /\ I # {}
    BY <1>2, SequenceAssumption DEF Groups
  <2>2. Smallest(I) \in I
    <3> HIDE DEF I
    <3> QED BY <2>1, SmallestIs
  <2> QED BY <1>2, <2>2 DEF First
<1> QED BY <1>1, <1>2

LEMMA TrieIsTyped == BuiltTrie \in Tries
<1>1. \A n \in Names : First({g \in UpGroups : n \in rules[g].names}) \in Groups \cup {None}
  <2> TAKE n \in Names
  <2>1. {g \in UpGroups : n \in rules[g].names} \subseteq Groups
    BY DEF UpGroups
  <2> QED BY <2>1, FirstIn
<1> QED BY <1>1 DEF BuiltTrie, Tries

LEMMA SearchFinds ==
  ASSUME NEW n
  PROVE  searchDomain(n) \in Groups \cup {None}
<1>1. searchFallback(n) \in Groups \cup {None}
  <2>1. {g \in UpGroups : n \in rules[g].patterns} \subseteq Groups
    BY DEF UpGroups
  <2> QED BY <2>1, FirstIn DEF searchFallback
<1> QED BY <1>1 DEF searchDomain, UpGroups

--------------------------------------------------------------------------------
(* The records of an answer *)

LEMMA KnownIs ==
  /\ KnownRecords \subseteq ResourceRecords
  /\ Known \subseteq Addrs
  /\ \A rr \in KnownRecords :
       /\ rr.name \in Names /\ rr.ttl \in Nat
       /\ rr.type = "A" => rr.addr \in Known
       /\ rr.type \in {"CNAME", "LINK"} => rr.to \in Names
       /\ rr.type \in {"A", "CNAME", "LINK"}
<1>1. ASSUME NEW m \in Answers, NEW rr \in Records(m) PROVE rr \in ResourceRecords
  <2>1. m \in Seq(ResourceRecords)
    BY AnswerAssumption
  <2> QED BY <2>1 DEF Records
<1>2. KnownRecords \subseteq ResourceRecords
  BY <1>1 DEF KnownRecords
<1>3. ASSUME NEW rr \in ResourceRecords
      PROVE  /\ rr.name \in Names /\ rr.ttl \in Nat
             /\ rr.type = "A" => rr.addr \in Addrs
             /\ rr.type \in {"CNAME", "LINK"} => rr.to \in Names
             /\ rr.type \in {"A", "CNAME", "LINK"}
  <2>1. CASE rr \in [type : {"A"}, name : Names, addr : Addrs, ttl : Nat]
    BY <2>1
  <2>2. CASE rr \in [type : {"CNAME", "LINK"}, name : Names, to : Names, ttl : Nat]
    BY <2>2
  <2> QED BY <2>1, <2>2 DEF ResourceRecords
<1>4. \A rr \in KnownRecords : rr.type = "A" => rr.addr \in Known
  BY DEF Known
<1>5. Known \subseteq Addrs
  BY <1>2, <1>3 DEF Known
<1> QED BY <1>2, <1>3, <1>4, <1>5

LEMMA AnswerIs ==
  ASSUME NEW m \in Answers
  PROVE  m \in Seq(KnownRecords) /\ m # <<>>
<1>1. m \in Seq(ResourceRecords) \ {<<>>}
  BY AnswerAssumption
<1>2. \A i \in 1 .. Len(m) : m[i] \in KnownRecords
  BY <1>1 DEF KnownRecords, Records
<1> QED BY <1>1, <1>2

--------------------------------------------------------------------------------
(* GetAddresses *)

(* The recursive function in GetAddresses. *)
Onward(n) == IF Valid(n) = {} /\ aliases[n] # None /\ aliases[n].deadline >= now
             THEN aliases[n].to ELSE n
Walks(f, name, k) == f = [i \in 0 .. k |-> IF i = 0 THEN name ELSE Onward(f[i - 1])]

LEMMA WalkExists ==
  ASSUME NEW name, NEW n \in Nat
  PROVE  \E f : Walks(f, name, n)
<1> DEFINE I == {k \in Nat : \E f : Walks(f, name, k)}
<1>1. 0 \in I
  <2>1. Walks([m \in 0 .. 0 |-> name], name, 0)
    BY DEF Walks
  <2> QED BY <2>1
<1>2. ASSUME NEW k \in Nat, k \in I PROVE k + 1 \in I
  <2>1. PICK f : Walks(f, name, k)
    BY <1>2
  <2> DEFINE g == [m \in 0 .. k + 1 |-> IF m = k + 1 THEN Onward(f[k]) ELSE f[m]]
  <2>2. DOMAIN g = 0 .. k + 1 /\ \A m \in 0 .. k : g[m] = f[m]
    OBVIOUS
  <2>3. g = [m \in 0 .. k + 1 |-> g[m]]
    OBVIOUS
  <2>4. g[k + 1] = Onward(g[k])
    BY <2>2
  <2>5. \A m \in 0 .. k : f[m] = IF m = 0 THEN name ELSE Onward(f[m - 1])
    BY <2>1 DEF Walks
  <2> HIDE DEF g
  <2>6. \A m \in 0 .. k + 1 : g[m] = IF m = 0 THEN name ELSE Onward(g[m - 1])
    BY <2>2, <2>4, <2>5
  <2>7. Walks(g, name, k + 1)
    BY <2>3, <2>6 DEF Walks
  <2> QED BY <2>7
<1>3. Nat \subseteq I
  <2> HIDE DEF I
  <2> QED BY <1>1, <1>2, NatSetInduction
<1> QED BY <1>3

(* Wherever the walk along the aliases ends, it ends at a name: what         *)
(* GetAddresses returns are the valid addresses of one name.                 *)
LEMMA WalkEnds ==
  ASSUME CacheOK, NEW name \in Names
  PROVE  \E n \in Names : GetAddresses(name) = {<<a, addresses[n][a]>> : a \in Valid(n)}
<1> DEFINE c == Cardinality(Names)
<1>0. c \in Nat
  BY SequenceAssumption, FS_CardinalityType
<1> DEFINE f == CHOOSE f : Walks(f, name, c)
<1>1. Walks(f, name, c)
  <2> HIDE DEF c
  <2> QED BY <1>0, WalkExists
<1>2. GetAddresses(name) = {<<a, addresses[f[c]][a]>> : a \in Valid(f[c])}
  BY DEF GetAddresses, Walks, Onward
<1> HIDE DEF f, c
<1> DEFINE I == {k \in Nat : k <= c => f[k] \in Names}
<1>3. 0 \in I
  BY <1>0, <1>1 DEF Walks
<1>4. ASSUME NEW k \in Nat, k \in I PROVE k + 1 \in I
  <2> SUFFICES ASSUME k + 1 <= c PROVE f[k + 1] \in Names
    OBVIOUS
  <2>1. f[k] \in Names
    BY <1>0, <1>4
  <2>2. f[k + 1] = Onward(f[k])
    BY <1>0, <1>1 DEF Walks
  <2>3. AliasOK(f[k], aliases[f[k]])
    BY <2>1 DEF CacheOK
  <2> QED BY <2>1, <2>2, <2>3 DEF Onward, AliasOK
<1>5. Nat \subseteq I
  <2> HIDE DEF I
  <2> QED BY <1>3, <1>4, NatSetInduction
<1>6. f[c] \in Names
  BY <1>0, <1>5
<1> QED BY <1>2, <1>6

(* What it returns: known addresses, with deadlines that are not over. *)
LEMMA AddressesFound ==
  ASSUME CacheOK, now \in Nat, NEW name \in Names, NEW p \in GetAddresses(name)
  PROVE  p \in Known \X (1 .. Forever - 1) /\ p[2] >= now /\ p[2] <= now + MaxTimeout
<1>1. PICK n \in Names : GetAddresses(name) = {<<a, addresses[n][a]>> : a \in Valid(n)}
  BY WalkEnds
<1>2. PICK a \in Valid(n) : p = <<a, addresses[n][a]>>
  BY <1>1
<1>3. a \in Addrs /\ addresses[n][a] > 0 /\ now <= addresses[n][a]
  BY <1>2 DEF Valid
<1>4. addresses[n][a] \in 0 .. Forever - 1 /\ addresses[n][a] <= now + MaxTimeout
  BY <1>3 DEF CacheOK
<1>5. a \in Known
  BY <1>3 DEF CacheOK
<1> QED BY <1>2, <1>3, <1>4, <1>5, Bounds

--------------------------------------------------------------------------------
(* GetAliases *)

(* The recursive function in AliasLevel. *)
Farther(S) == S \cup Pointing(S)
Reaches(f, name, k) == f = [i \in 0 .. k |-> IF i = 0 THEN {name} ELSE Farther(f[i - 1])]

LEMMA ReachExists ==
  ASSUME NEW name, NEW n \in Nat
  PROVE  \E f : Reaches(f, name, n)
<1> DEFINE I == {k \in Nat : \E f : Reaches(f, name, k)}
<1>1. 0 \in I
  <2>1. Reaches([m \in 0 .. 0 |-> {name}], name, 0)
    BY DEF Reaches
  <2> QED BY <2>1
<1>2. ASSUME NEW k \in Nat, k \in I PROVE k + 1 \in I
  <2>1. PICK f : Reaches(f, name, k)
    BY <1>2
  <2> DEFINE g == [m \in 0 .. k + 1 |-> IF m = k + 1 THEN Farther(f[k]) ELSE f[m]]
  <2>2. DOMAIN g = 0 .. k + 1 /\ \A m \in 0 .. k : g[m] = f[m]
    OBVIOUS
  <2>3. g = [m \in 0 .. k + 1 |-> g[m]]
    OBVIOUS
  <2>4. g[k + 1] = Farther(g[k])
    BY <2>2
  <2>5. \A m \in 0 .. k : f[m] = IF m = 0 THEN {name} ELSE Farther(f[m - 1])
    BY <2>1 DEF Reaches
  <2> HIDE DEF g
  <2>6. \A m \in 0 .. k + 1 : g[m] = IF m = 0 THEN {name} ELSE Farther(g[m - 1])
    BY <2>2, <2>4, <2>5
  <2>7. Reaches(g, name, k + 1)
    BY <2>3, <2>6 DEF Reaches
  <2> QED BY <2>7
<1>3. Nat \subseteq I
  <2> HIDE DEF I
  <2> QED BY <1>1, <1>2, NatSetInduction
<1> QED BY <1>3

(* GetAliases returns names, the one that was asked for among them.          *)
LEMMA AliasesFound ==
  ASSUME NEW name \in Names, NEW s \in GetAliases(name)
  PROVE  s \in Seq(Names) /\ s # <<>>
<1> DEFINE c == Cardinality(Names)
<1>0. c \in Nat
  BY SequenceAssumption, FS_CardinalityType
<1> DEFINE f == CHOOSE f : Reaches(f, name, c)
<1>1. Reaches(f, name, c)
  <2> HIDE DEF c
  <2> QED BY <1>0, ReachExists
<1>2. DOMAIN AliasLevel(name) = f[c]
  BY DEF AliasLevel, Reaches, Farther
<1> HIDE DEF f, c
<1> DEFINE I == {k \in Nat : k <= c => f[k] \subseteq Names /\ name \in f[k]}
<1>3. 0 \in I
  BY <1>0, <1>1 DEF Reaches
<1>4. ASSUME NEW k \in Nat, k \in I PROVE k + 1 \in I
  <2> SUFFICES ASSUME k + 1 <= c PROVE f[k + 1] \subseteq Names /\ name \in f[k + 1]
    OBVIOUS
  <2>1. f[k] \subseteq Names /\ name \in f[k]
    BY <1>0, <1>4
  <2>2. f[k + 1] = Farther(f[k])
    <3>1. k + 1 \in 0 .. c /\ k + 1 # 0 /\ (k + 1) - 1 = k
      BY <1>0
    <3> HIDE DEF I
    <3> QED BY <1>1, <3>1 DEF Reaches
  <2> QED BY <2>1, <2>2 DEF Farther, Pointing
<1>5. Nat \subseteq I
  <2> HIDE DEF I
  <2> QED BY <1>3, <1>4, NatSetInduction
<1>6. f[c] \subseteq Names /\ name \in f[c]
  BY <1>0, <1>5
<1> DEFINE D == f[c]
           m == Cardinality(D)
<1>7. IsFiniteSet(D) /\ m \in Nat
  BY <1>6, SequenceAssumption, FS_Subset, FS_CardinalityType
<1>8. m # 0
  <2>1. D # {}
    BY <1>6
  <2> HIDE DEF D
  <2> QED BY <1>7, <2>1, FS_EmptySet
<1>9. s \in [1 .. m -> D]
  BY <1>2 DEF GetAliases
<1> HIDE DEF m, D
<1>10. s \in Seq(D) /\ s # <<>>
  BY <1>7, <1>8, <1>9
<1> QED BY <1>6, <1>10 DEF D


--------------------------------------------------------------------------------
(* desiredSubnets and sync *)

(* What a group asks for: its static addresses for ever, other addresses as  *)
(* long as the cache knows them, and nothing else.                           *)
LEMMA DesiredIs ==
  ASSUME CacheOK, now \in Nat, NEW g \in Groups, NEW a \in Addrs
  PROVE  /\ desiredSubnets(g)[a] \in Deadlines
         /\ a \in rules[g].statics => desiredSubnets(g)[a] = Forever
         /\ a \notin rules[g].statics => desiredSubnets(g)[a] < Forever
         /\ a \notin rules[g].statics /\ a \notin Known => desiredSubnets(g)[a] = 0
<1>1. CASE a \in rules[g].statics
  <2>1. desiredSubnets(g)[a] = Forever
    BY <1>1 DEF desiredSubnets
  <2> QED BY <1>1, <2>1, Bounds DEF Deadlines
<1>2. CASE a \notin rules[g].statics
  <2> DEFINE Q == {q \in UNION {GetAddresses(n) : n \in {m \in Names : Matches(g, m)}} : q[1] = a /\ q[2] > now}
             S == {0} \cup {p[2] : p \in Q}
  <2>1. desiredSubnets(g)[a] = Largest(S)
    BY <1>2 DEF desiredSubnets
  <2>2. \A q \in Q : q \in Known \X (1 .. Forever - 1) /\ q[1] = a
    BY AddressesFound
  <2>3. \A q \in Q : q[2] \in 0 .. Forever - 1 /\ a \in Known
    BY <2>2, Bounds
  <2> HIDE DEF Q
  <2>4. S \subseteq 0 .. Forever - 1 /\ 0 \in S
    BY <2>3, Bounds
  <2>5. a \notin Known => S = {0}
    BY <2>3
  <2>6. Forever - 1 \in Nat
    BY Bounds
  <2> HIDE DEF S
  <2>7. Largest(S) \in S
    BY <2>4, <2>6, LargestIs
  <2>8. Largest(S) \in 0 .. Forever - 1 /\ (a \notin Known => Largest(S) = 0)
    BY <2>4, <2>5, <2>7
  <2>9. Largest(S) \in Deadlines /\ Largest(S) < Forever
    BY <2>8, Bounds DEF Deadlines
  <2> QED BY <1>2, <2>1, <2>8, <2>9
<1> QED BY <1>1, <1>2

(* What a sync makes of an entry: it is permanent only for a static address, *)
(* or because it was already and DNS knows the address.                      *)
LEMMA SyncedIs ==
  ASSUME CacheOK, now \in Nat, GroupsOK, NEW g \in Groups
  PROVE  /\ Synced(g) \in [Addrs -> Deadlines]
         /\ \A a \in Addrs : Synced(g)[a] = Forever =>
              a \in rules[g].statics \/ (ipset[g][a] = Forever /\ a \in Known)
<1> SUFFICES ASSUME NEW a \in Addrs
             PROVE  /\ Synced(g)[a] \in Deadlines
                    /\ Synced(g)[a] = Forever =>
                         a \in rules[g].statics \/ (ipset[g][a] = Forever /\ a \in Known)
  BY DEF Synced
<1> DEFINE d == desiredSubnets(g)[a]
           e == ipset[g][a]
<1>1. /\ d \in Deadlines
      /\ a \notin rules[g].statics => d < Forever
      /\ a \notin rules[g].statics /\ a \notin Known => d = 0
  BY DesiredIs
<1>2. e \in Deadlines
  BY DEF GroupsOK
<1>3. Synced(g)[a] = IF d = 0 THEN 0 ELSE Largest({e, d})
  BY DEF Synced
<1> HIDE DEF d
<1>4. Largest({e, d}) \in {e, d}
  <2>1. {e, d} \subseteq 0 .. Forever
    BY <1>1, <1>2 DEF Deadlines
  <2> HIDE DEF e
  <2> QED BY <2>1, Bounds, LargestIs
<1>5. 0 \in Deadlines /\ Forever # 0
  BY Bounds DEF Deadlines
<1>6. Synced(g)[a] \in Deadlines
  BY <1>1, <1>2, <1>3, <1>4, <1>5
<1>7. ASSUME Synced(g)[a] = Forever, a \notin rules[g].statics PROVE e = Forever /\ a \in Known
  <2>1. d # 0 /\ d < Forever
    BY <1>1, <1>3, <1>5, <1>7
  <2>2. d # Forever
    BY <2>1, <1>1, Bounds DEF Deadlines
  <2> QED BY <1>1, <1>3, <1>4, <1>7, <2>1, <2>2
<1> QED BY <1>6, <1>7

(* A sync of a group keeps the types and touches no other group.             *)
LEMMA SyncIs ==
  ASSUME CacheOK, now \in Nat, GroupsOK, RulesOK, NEW g \in Groups, Sync(g)
  PROVE  /\ hosts' \in [Groups -> SUBSET Addrs]
         /\ ipset' \in [Groups -> [Addrs -> Deadlines]]
         /\ \A x \in Groups \ {g} : ipset'[x] = ipset[x]
         /\ ipset'[g] = IF up[g] THEN Synced(g) ELSE ipset[g]
<1>1. rules[g].statics \in SUBSET Addrs
  BY DEF RulesOK, RuleLists
<1>2. Synced(g) \in [Addrs -> Deadlines]
  BY SyncedIs
<1> QED BY <1>1, <1>2 DEF Sync, GroupsOK

--------------------------------------------------------------------------------
(* Types: the initial states and the handlers *)

LEMMA OrderIs ==
  /\ Order \in Seq(Groups) /\ Order # <<>>
  /\ \A g \in Groups : \E i \in 1 .. Len(Order) : Order[i] = g
BY OrderAssumption, SequenceAssumption DEF Groups

LEMMA IdleOK == TaskOK(Idle)
BY DEF TaskOK, Tasks, Targets, Idle, HandlerSteps

LEMMA InitTypes == Init => TypesInv
<1> SUFFICES ASSUME Init PROVE TypesInv
  OBVIOUS
<1> USE DEF Init
<1>1. now \in 1 .. MaxTime
  BY Bounds
<1>2. CacheOK
  BY Bounds DEF CacheOK, AliasOK
<1>3. RulesOK
  BY RulesAssumption DEF RulesOK
<1>4. trie \in Tries
  BY TrieIsTyped
<1>5. GroupsOK
  <2>1. \A g \in Groups : rules[g].statics \in SUBSET Addrs
    BY <1>3 DEF RulesOK, RuleLists
  <2>2. 0 \in Deadlines /\ Forever \in Deadlines
    BY Bounds DEF Deadlines
  <2> QED BY <2>1, <2>2 DEF GroupsOK
<1>6. ObjectsOK
  BY EditsAssumption DEF ObjectsOK, NoEdit
<1>7. TasksOK
  BY IdleOK DEF TasksOK
<1>8. EditOK
  BY DEF EditOK, Edits, NoEdit
<1>9. LifeOK
  BY DEF LifeOK, Lives, NoLife
<1>10. HeldOK
  BY DEF HeldOK
<1> QED BY <1>1, <1>2, <1>3, <1>4, <1>5, <1>6, <1>7, <1>8, <1>9, <1>10 DEF TypesInv

(* A step of a handler that leaves its task well typed.                      *)
LEMMA Goes ==
  ASSUME TasksOK, NEW h \in Handlers, NEW t, TaskOK(t), Goto(h, t)
  PROVE  TasksOK'
BY DEF TasksOK, Goto

(* The rest of an answer. *)
LEMMA TailIs ==
  ASSUME NEW X, NEW s \in Seq(X), s # <<>>
  PROVE  Head(s) \in X /\ Tail(s) \in Seq(X) /\ Len(s) \in Nat /\ (Len(s) # 1 => Tail(s) # <<>>)
<1>1. Len(s) \in Nat /\ Len(s) # 0 /\ Head(s) = s[1] /\ s[1] \in X
  OBVIOUS
<1>2. Tail(s) \in Seq(X) /\ Len(Tail(s)) = Len(s) - 1
  OBVIOUS
<1>3. Len(<<>>) = 0
  OBVIOUS
<1>4. Tail(s) = <<>> => Len(Tail(s)) = 0
  BY <1>3
<1>5. Len(s) # 1 => Len(Tail(s)) # 0
  BY <1>1, <1>2
<1> QED BY <1>1, <1>2, <1>4, <1>5

LEMMA HeadIs ==
  ASSUME NEW t, TaskOK(t), t.step \notin {"idle", "deliver"}
  PROVE  t.rest # <<>> /\ Head(t.rest) \in KnownRecords
BY TailIs DEF TaskOK, Tasks

LEMMA NextIs ==
  ASSUME NEW t, TaskOK(t), t.rest # <<>>
  PROVE  TaskOK(NextRecord(t))
<1>1. t.rest \in Seq(KnownRecords)
  BY DEF TaskOK, Tasks
<1>2. Tail(t.rest) \in Seq(KnownRecords) /\ (Len(t.rest) # 1 => Tail(t.rest) # <<>>) /\ Len(t.rest) \in Nat
  BY <1>1, TailIs
<1> DEFINE rest == Tail(t.rest)
           n == Len(t.rest)
           step == IF n > 1 THEN "store" ELSE "deliver"
<1>3. rest \in Seq(KnownRecords) /\ (n # 1 => rest # <<>>) /\ n \in Nat
  BY <1>2
<1>4. NextRecord(t) = [t EXCEPT !.rest = rest, !.addrs = {}, !.names = <<>>, !.target = None, !.step = step]
  BY DEF NextRecord, TaskOK, Tasks
<1> HIDE DEF rest, n
<1>5. step \in HandlerSteps /\ (step = "store" => rest # <<>>) /\ step \in {"store", "deliver"}
  <2>1. n > 1 => n # 1
    BY <1>3
  <2> QED BY <1>3, <2>1 DEF HandlerSteps
<1> HIDE DEF step
<1>6. t \in Tasks
  BY DEF TaskOK
<1>7. /\ {} \in SUBSET (Known \X (1 .. MaxTimeout))
      /\ <<>> \in Seq(Names) /\ None \in Targets
  BY DEF Targets
<1>8. NextRecord(t) \in Tasks
  BY <1>3, <1>4, <1>5, <1>6, <1>7 DEF Tasks
<1>9. NextRecord(t).step = step /\ NextRecord(t).rest = rest
  BY <1>4, <1>6 DEF Tasks
<1> QED BY <1>5, <1>8, <1>9 DEF TaskOK

LEMMA ReceiveTypes ==
  ASSUME TypesInv, NEW h \in Handlers, Receive(h)
  PROVE  TypesInv'
<1>1. PICK m \in Answers : Goto(h, [Idle EXCEPT !.step = "store", !.answer = m, !.rest = m])
  BY DEF Receive
<1>2. TaskOK([Idle EXCEPT !.step = "store", !.answer = m, !.rest = m])
  <2>1. m \in Seq(KnownRecords) /\ m # <<>>
    BY AnswerIs
  <2> QED BY <2>1, IdleOK DEF TaskOK, Tasks, Idle, HandlerSteps
<1>3. TasksOK'
  BY <1>1, <1>2, Goes DEF TypesInv
<1> QED BY <1>3 DEF TypesInv, Receive, CacheOK, RulesOK, GroupsOK, ObjectsOK, EditOK, LifeOK, HeldOK, cache, kernel

LEMMA StoreTypes ==
  ASSUME TypesInv, NEW h \in Handlers, StoreRecord(h)
  PROVE  TypesInv'
<1> DEFINE t == task[h]
           rr == Head(t.rest)
           ttl == ipsetTTLFromRecord(rr.ttl)
<1>1. TaskOK(t) /\ t.step = "store"
  BY DEF TypesInv, TasksOK, StoreRecord, Going
<1>2. rr \in KnownRecords /\ t.rest # <<>>
  BY <1>1, HeadIs
<1>3. ttl \in 1 .. MaxTimeout
  BY <1>2, KnownIs, RecordTTL
<1>4. now + ttl \in 1 .. Forever - 1
  <2> HIDE DEF ttl
  <2> QED BY <1>3, Bounds DEF TypesInv
<1>5. rr.name \in Names
  BY <1>2, KnownIs
<1>6. CASE rr.type = "A" /\ AddAddress(rr.name, rr.addr, ttl)
           /\ Goto(h, [t EXCEPT !.step = "aliases", !.addrs = {<<rr.addr, ttl>>}]) /\ UNCHANGED aliases
  <2>1. rr.addr \in Known /\ rr.addr \in Addrs
    BY <1>2, <1>6, KnownIs
  <2> HIDE DEF ttl, rr
  <2>2. CacheOK'
    <3> DEFINE d == now + ttl
    <3>1. d \in 0 .. Forever - 1 /\ d <= now + MaxTimeout
      BY <1>3, <1>4, Bounds DEF TypesInv
    <3>2. addresses' = [addresses EXCEPT ![rr.name][rr.addr] = d] /\ aliases' = aliases /\ now' = now
      BY <1>6 DEF AddAddress, StoreRecord
    <3> HIDE DEF d
    <3>3. addresses \in [Names -> [Addrs -> 0 .. Forever - 1]]
      BY DEF TypesInv, CacheOK
    <3>4. addresses' \in [Names -> [Addrs -> 0 .. Forever - 1]]
      BY <1>5, <2>1, <3>1, <3>2, <3>3
    <3>5. \A n \in Names, a \in Addrs :
            addresses'[n][a] = IF n = rr.name /\ a = rr.addr THEN d ELSE addresses[n][a]
      BY <1>5, <2>1, <3>2, <3>3
    <3>6. \A n \in Names, a \in Addrs :
            addresses'[n][a] <= now + MaxTimeout /\ (addresses'[n][a] > 0 => a \in Known)
      BY <2>1, <3>1, <3>5 DEF TypesInv, CacheOK
    <3> QED BY <3>2, <3>4, <3>6 DEF TypesInv, CacheOK, AliasOK
  <2>3. TaskOK([t EXCEPT !.step = "aliases", !.addrs = {<<rr.addr, ttl>>}])
    <3>1. {<<rr.addr, ttl>>} \in SUBSET (Known \X (1 .. MaxTimeout))
      BY <1>3, <2>1
    <3> QED BY <1>1, <1>2, <3>1 DEF TaskOK, Tasks, HandlerSteps
  <2>4. TasksOK'
    BY <1>6, <2>3, Goes DEF TypesInv
  <2> QED BY <2>2, <2>4 DEF TypesInv, StoreRecord, RulesOK, GroupsOK, ObjectsOK, EditOK, LifeOK, HeldOK, kernel
<1>7. ASSUME rr.type \in {"CNAME", "LINK"}, AddAlias(rr.name, rr.to, ttl), UNCHANGED addresses
      PROVE  CacheOK'
  <2>1. rr.to \in Names
    BY <1>2, <1>7, KnownIs
  <2> HIDE DEF ttl, rr
  <2>2. /\ addresses' \in [Names -> [Addrs -> 0 .. Forever - 1]] /\ now' = now
        /\ \A n \in Names, a \in Addrs : addresses'[n][a] <= now + MaxTimeout
        /\ \A n \in Names, a \in Addrs : addresses'[n][a] > 0 => a \in Known
    BY <1>7 DEF CacheOK, TypesInv, StoreRecord
  <2>3. CASE rr.name = rr.to
    BY <1>7, <2>2, <2>3 DEF CacheOK, AddAlias, AliasOK, TypesInv
  <2>4. CASE rr.name # rr.to
    <3>1. aliases' = [aliases EXCEPT ![rr.name] = [to |-> rr.to, deadline |-> now + ttl]]
      BY <1>7, <2>4 DEF AddAlias
    <3>2. now + ttl \in 0 .. Forever - 1
      BY <1>4
    <3>3. AliasOK(rr.name, [to |-> rr.to, deadline |-> now + ttl])
      BY <2>1, <2>4, <3>2 DEF AliasOK
    <3>4. aliases = [n \in Names |-> aliases[n]] /\ \A n \in Names : AliasOK(n, aliases[n])
      BY DEF TypesInv, CacheOK
    <3>5. aliases' = [n \in Names |-> aliases'[n]]
          /\ aliases'[rr.name] = [to |-> rr.to, deadline |-> now + ttl]
          /\ \A n \in Names \ {rr.name} : aliases'[n] = aliases[n]
      BY <1>5, <3>1, <3>4
    <3>6. \A n \in Names : AliasOK(n, aliases'[n])
      BY <1>5, <3>3, <3>4, <3>5
    <3>7. \A n \in Names : AliasOK(n, aliases[n])'
      BY <3>6 DEF AliasOK, Forever
    <3> QED BY <2>2, <3>5, <3>7 DEF CacheOK
  <2> QED BY <2>3, <2>4
<1>8. CASE rr.type = "CNAME" /\ AddAlias(rr.name, rr.to, ttl)
           /\ Goto(h, [t EXCEPT !.step = "addresses"]) /\ UNCHANGED addresses
  <2>1. CacheOK'
    BY <1>7, <1>8
  <2>2. TaskOK([t EXCEPT !.step = "addresses"])
    BY <1>1, <1>2 DEF TaskOK, Tasks, HandlerSteps
  <2>3. TasksOK'
    BY <1>8, <2>2, Goes DEF TypesInv
  <2> QED BY <2>1, <2>3 DEF TypesInv, StoreRecord, RulesOK, GroupsOK, ObjectsOK, EditOK, LifeOK, HeldOK, kernel
<1>9. CASE rr.type = "LINK" /\ AddAlias(rr.name, rr.to, ttl)
           /\ Goto(h, NextRecord(t)) /\ UNCHANGED addresses
  <2>1. CacheOK'
    BY <1>7, <1>9
  <2>2. TasksOK'
    BY <1>1, <1>2, <1>9, NextIs, Goes DEF TypesInv
  <2> QED BY <2>1, <2>2 DEF TypesInv, StoreRecord, RulesOK, GroupsOK, ObjectsOK, EditOK, LifeOK, HeldOK, kernel
<1> QED BY <1>6, <1>8, <1>9 DEF StoreRecord

(* The timeouts that are left of what the cache knows are never 0.           *)
LEMMA TimeoutsFound ==
  ASSUME CacheOK, now \in Nat, NEW name \in Names
  PROVE  ipsetTTLFromDeadline(GetAddresses(name)) \subseteq Known \X (1 .. MaxTimeout)
<1> SUFFICES ASSUME NEW p \in GetAddresses(name), p[2] > now
             PROVE  p[1] \in Known /\ p[2] - now \in 1 .. MaxTimeout
  BY DEF ipsetTTLFromDeadline
<1>1. p \in Known \X (1 .. Forever - 1) /\ p[2] <= now + MaxTimeout
  BY AddressesFound
<1> QED BY <1>1, Bounds

LEMMA ReadAddressesTypes ==
  ASSUME TypesInv, NEW h \in Handlers, ReadAddresses(h)
  PROVE  TypesInv'
<1> DEFINE t == task[h]
           found == ipsetTTLFromDeadline(GetAddresses(Head(t.rest).name))
<1>1. TaskOK(t) /\ t.step = "addresses"
  BY DEF TypesInv, TasksOK, ReadAddresses, Going
<1>2. Head(t.rest).name \in Names /\ t.rest # <<>>
  BY <1>1, HeadIs, KnownIs
<1>3. found \in SUBSET (Known \X (1 .. MaxTimeout))
  BY <1>2, TimeoutsFound DEF TypesInv
<1>4. Goto(h, [t EXCEPT !.step = "aliases", !.addrs = found])
  BY DEF ReadAddresses
<1> HIDE DEF found
<1>5. TaskOK([t EXCEPT !.step = "aliases", !.addrs = found])
  BY <1>1, <1>2, <1>3 DEF TaskOK, Tasks, HandlerSteps
<1>6. TasksOK'
  BY <1>4, <1>5, Goes DEF TypesInv
<1> QED BY <1>6 DEF TypesInv, ReadAddresses, CacheOK, RulesOK, GroupsOK, ObjectsOK, EditOK, LifeOK, HeldOK,
                    cache, kernel

LEMMA ReadAliasesTypes ==
  ASSUME TypesInv, NEW h \in Handlers, ReadAliases(h)
  PROVE  TypesInv'
<1> DEFINE t == task[h]
<1>1. TaskOK(t) /\ t.step = "aliases"
  BY DEF TypesInv, TasksOK, ReadAliases, Going
<1>2. Head(t.rest).name \in Names /\ t.rest # <<>>
  BY <1>1, HeadIs, KnownIs
<1>3. PICK s \in GetAliases(Head(t.rest).name) : Goto(h, [t EXCEPT !.step = "search", !.names = s])
  BY DEF ReadAliases
<1>4. s \in Seq(Names) /\ s # <<>>
  BY <1>2, AliasesFound
<1>5. TaskOK([t EXCEPT !.step = "search", !.names = s])
  BY <1>1, <1>2, <1>4 DEF TaskOK, Tasks, HandlerSteps
<1>6. TasksOK'
  BY <1>3, <1>5, Goes DEF TypesInv
<1> QED BY <1>6 DEF TypesInv, ReadAliases, CacheOK, RulesOK, GroupsOK, ObjectsOK, EditOK, LifeOK, HeldOK,
                    cache, kernel

LEMMA SearchTypes ==
  ASSUME TypesInv, NEW h \in Handlers, SearchName(h)
  PROVE  TypesInv'
<1> DEFINE t == task[h]
           g == searchDomain(Head(t.names))
<1>1. TaskOK(t) /\ t.step = "search"
  BY DEF TypesInv, TasksOK, SearchName, Going
<1>2. t.rest # <<>> /\ t.names \in Seq(Names) /\ t.names # <<>>
  BY <1>1 DEF TaskOK, Tasks
<1>3. g \in Groups \cup {None}
  BY SearchFinds
<1>4. \/ /\ g # None
         /\ Goto(h, [t EXCEPT !.step = "add", !.names = <<>>, !.target = [group |-> g, object |-> object[g]]])
      \/ Goto(h, NextRecord(t))
      \/ Len(t.names) # 1 /\ Goto(h, [t EXCEPT !.names = Tail(@)])
  BY DEF SearchName
<1> HIDE DEF g
<1>5. ASSUME g # None,
             Goto(h, [t EXCEPT !.step = "add", !.names = <<>>, !.target = [group |-> g, object |-> object[g]]])
      PROVE  TasksOK'
  <2> DEFINE x == [group |-> g, object |-> object[g]]
  <2>1. x \in [group : Groups, object : Nat]
    BY <1>3, <1>5 DEF TypesInv, ObjectsOK
  <2> HIDE DEF x
  <2>2. x \in Targets /\ <<>> \in Seq(Names)
    BY <2>1 DEF Targets
  <2>3. TaskOK([t EXCEPT !.step = "add", !.names = <<>>, !.target = x])
    BY <1>1, <1>2, <2>1, <2>2 DEF TaskOK, Tasks, HandlerSteps
  <2> QED BY <1>5, <2>3, Goes DEF TypesInv, x
<1>6. ASSUME Goto(h, NextRecord(t)) PROVE TasksOK'
  BY <1>1, <1>2, <1>6, NextIs, Goes DEF TypesInv
<1>7. ASSUME Len(t.names) # 1, Goto(h, [t EXCEPT !.names = Tail(@)]) PROVE TasksOK'
  <2>1. Tail(t.names) \in Seq(Names) /\ Tail(t.names) # <<>>
    BY <1>2, <1>7, TailIs
  <2>2. TaskOK([t EXCEPT !.names = Tail(@)])
    BY <1>1, <1>2, <2>1 DEF TaskOK, Tasks
  <2> QED BY <1>7, <2>2, Goes DEF TypesInv
<1>8. TasksOK'
  BY <1>4, <1>5, <1>6, <1>7
<1> QED BY <1>8 DEF TypesInv, SearchName, CacheOK, RulesOK, GroupsOK, ObjectsOK, EditOK, LifeOK, HeldOK,
                    cache, kernel

(* What AddSubnet writes has a timeout, which ends before Forever.           *)
LEMMA EntryIs ==
  ASSUME TypesInv, NEW timeout \in 1 .. MaxTimeout
  PROVE  EntryUntil(timeout) \in Deadlines /\ EntryUntil(timeout) # Forever
<1>1. now \in 1 .. MaxTime
  BY DEF TypesInv
<1>2. EntryUntil(timeout) = now + timeout
  BY DEF EntryUntil
<1> QED BY <1>1, <1>2, Bounds DEF Deadlines

(* What AddSubnet does: at most one entry changes, and not into a permanent  *)
(* one.                                                                      *)
LEMMA AddIs ==
  ASSUME TypesInv, NEW h \in Handlers, AddSubnet(h)
  PROVE  /\ TasksOK'
         /\ ipset' \in [Groups -> [Addrs -> Deadlines]]
         /\ \A g \in Groups, a \in Addrs :
              ipset'[g][a] # ipset[g][a] => up[g] /\ ipset'[g][a] # Forever
<1>1. TaskOK(task[h]) /\ task[h].step = "add" /\ task[h] \in Tasks
  BY DEF TypesInv, TasksOK, AddSubnet, Going, TaskOK
<1>2. PICK p \in task[h].addrs :
        LET g == task[h].target.group
            t == [task[h] EXCEPT !.addrs = @ \ {p}]
        IN  /\ ipset' = IF up[g] /\ object[g] = task[h].target.object /\ p[1] \notin hosts[g]
                        THEN [ipset EXCEPT ![g][p[1]] = EntryUntil(p[2])]
                        ELSE ipset
            /\ Goto(h, IF t.addrs = {} THEN NextRecord(t) ELSE t)
  BY DEF AddSubnet
<1> DEFINE g == task[h].target.group
           t == [task[h] EXCEPT !.addrs = @ \ {p}]
<1>3. g \in Groups /\ task[h].rest # <<>>
  BY <1>1 DEF TaskOK
<1>4. task[h].addrs \subseteq Known \X (1 .. MaxTimeout)
  BY <1>1 DEF Tasks
<1>5. p[1] \in Addrs /\ p[2] \in 1 .. MaxTimeout
  BY <1>4, KnownIs
<1>6. EntryUntil(p[2]) \in Deadlines /\ EntryUntil(p[2]) # Forever
  BY <1>5, EntryIs
<1>7. TaskOK(t) /\ t.rest # <<>>
  BY <1>1, <1>3, <1>4 DEF TaskOK, Tasks
<1>8. TasksOK'
  <2>1. Goto(h, IF t.addrs = {} THEN NextRecord(t) ELSE t)
    BY <1>2
  <2> HIDE DEF t
  <2>2. TaskOK(NextRecord(t))
    BY <1>7, NextIs
  <2>3. TaskOK(IF t.addrs = {} THEN NextRecord(t) ELSE t)
    BY <1>7, <2>2
  <2> QED BY <2>1, <2>3, Goes DEF TypesInv
<1>9. ipset \in [Groups -> [Addrs -> Deadlines]]
  BY DEF TypesInv, GroupsOK
<1>10. \/ ipset' = ipset
       \/ up[g] /\ ipset' = [ipset EXCEPT ![g][p[1]] = EntryUntil(p[2])]
  BY <1>2
<1> DEFINE e == EntryUntil(p[2])
<1>11. e \in Deadlines /\ e # Forever
  BY <1>6
<1> HIDE DEF e, g, t
<1>12. CASE ipset' = ipset
  BY <1>8, <1>9, <1>12
<1>13. CASE up[g] /\ ipset' = [ipset EXCEPT ![g][p[1]] = e]
  BY <1>3, <1>5, <1>8, <1>9, <1>11, <1>13
<1> QED BY <1>10, <1>12, <1>13 DEF e, g

LEMMA AddTypes ==
  ASSUME TypesInv, NEW h \in Handlers, AddSubnet(h)
  PROVE  TypesInv'
<1>1. TasksOK' /\ ipset' \in [Groups -> [Addrs -> Deadlines]]
  BY AddIs
<1> QED BY <1>1 DEF TypesInv, AddSubnet, CacheOK, RulesOK, GroupsOK, ObjectsOK, EditOK, LifeOK, HeldOK,
                    cache, kernel

LEMMA DeliverTypes ==
  ASSUME TypesInv, NEW h \in Handlers, Deliver(h)
  PROVE  TypesInv'
<1> DEFINE m == task[h].answer
<1>1. m \in Answers \cup {<<>>}
  BY DEF TypesInv, TasksOK, TaskOK, Tasks
<1>2. \A rr \in Records(m) : rr \in KnownRecords
  <2>1. CASE m \in Answers
    BY <2>1 DEF KnownRecords
  <2>2. CASE m = <<>>
    <3>1. Records(m) = {}
      BY <2>2 DEF Records
    <3> QED BY <3>1
  <2> QED BY <1>1, <2>1, <2>2
<1>3. \A k \in Learned(m) : k.names \subseteq Names /\ k.addr \in Addrs
  <2> TAKE k \in Learned(m)
  <2>1. PICK r \in Records(m) :
          /\ r.type = "A"
          /\ k = [names |-> {rr.name : rr \in Records(m)}, addr |-> r.addr,
                  until |-> now + Smallest({ClientTTL(rr.ttl) : rr \in Records(m)})]
    BY DEF Learned
  <2>2. r.addr \in Addrs
    BY <1>2, <2>1, KnownIs
  <2>3. \A rr \in Records(m) : rr.name \in Names
    BY <1>2, KnownIs
  <2> QED BY <2>1, <2>2, <2>3
<1>4. held' = held \cup {k \in Learned(m) : k.until > now} /\ now' = now
  BY DEF Deliver
<1>5. HeldOK'
  BY <1>3, <1>4 DEF HeldOK, TypesInv
<1>6. TasksOK'
  BY IdleOK, Goes DEF TypesInv, Deliver
<1> QED BY <1>5, <1>6 DEF TypesInv, Deliver, CacheOK, RulesOK, GroupsOK, ObjectsOK, EditOK, LifeOK,
                    cache, kernel

--------------------------------------------------------------------------------
(* Types: edits *)

LEMMA BeginTypes ==
  ASSUME TypesInv, BeginEdit
  PROVE  TypesInv'
<1>1. PICK k \in Kinds \cap EditKinds, g \in Groups :
        /\ (g \in SubGroups) <=> (k = "rebuild")
        /\ edit' = [NoEdit EXCEPT !.step = IF k = "put" /\ up[g] THEN "disable"
                                           ELSE IF k = "rebuild" THEN "begin" ELSE "mutate",
                                  !.kind = k, !.group = g, !.enabled = up[g]]
  BY DEF BeginEdit
<1>2. edit' = [step |-> IF k = "put" /\ up[g] THEN "disable"
                        ELSE IF k = "rebuild" THEN "begin" ELSE "mutate",
               kind |-> k, group |-> g, enabled |-> up[g], todo |-> <<>>]
  BY <1>1 DEF NoEdit
<1>3. EditOK'
  <2>1. up[g] \in BOOLEAN
    BY DEF TypesInv, GroupsOK
  <2>2. edit'.step = "begin" => k = "rebuild"
    BY <1>2
  <2>3. edit'.step \in {"disable", "begin", "mutate"} /\ edit'.group = g
    BY <1>2
  <2>4. edit' \in Edits
    BY <1>2, <2>1 DEF Edits
  <2> QED BY <1>1, <2>2, <2>3, <2>4 DEF EditOK
<1>4. ObjectsOK'
  <2>1. edits \in 0 .. MaxEdits /\ edits < MaxEdits /\ edits' = edits + 1 /\ object' = object
    BY DEF BeginEdit, TypesInv, ObjectsOK, kernel
  <2>2. object \in [Groups -> Nat] /\ \A x \in Groups : object[x] <= edits
    BY DEF TypesInv, ObjectsOK
  <2> QED BY <2>1, <2>2, EditsAssumption DEF ObjectsOK
<1> QED BY <1>3, <1>4 DEF TypesInv, BeginEdit, CacheOK, RulesOK, GroupsOK, TasksOK, LifeOK, HeldOK,
                    cache, kernel

LEMMA DisableTypes ==
  ASSUME TypesInv, EditDisable
  PROVE  TypesInv'
<1>1. GroupsOK'
  <2>1. [a \in Addrs |-> 0] \in [Addrs -> Deadlines]
    BY Bounds DEF Deadlines
  <2> QED BY <2>1 DEF TypesInv, GroupsOK, EditDisable
<1>2. EditOK'
  BY DEF TypesInv, EditOK, Edits, EditDisable, EditIs
<1>3. ObjectsOK'
  BY DEF TypesInv, ObjectsOK, EditDisable, EditOK, Edits
<1> QED BY <1>1, <1>2, <1>3 DEF TypesInv, EditDisable, CacheOK, RulesOK, TasksOK, LifeOK, HeldOK, cache

(* A rule list that an edit gives to its group.                              *)
LEMMA Listed ==
  ASSUME RulesOK, NEW g \in Groups, NEW l \in Listings[g], rules' = [rules EXCEPT ![g] = l]
  PROVE  RulesOK'
<1>1. l \in RuleLists
  BY RulesAssumption
<1>2. rules' \in [Groups -> RuleLists]
  BY <1>1 DEF RulesOK
<1>3. \A x \in Groups : rules'[x] = IF x = g THEN l ELSE rules[x]
  BY DEF RulesOK
<1> QED BY <1>2, <1>3 DEF RulesOK

LEMMA MutateTypes ==
  ASSUME TypesInv, EditMutate
  PROVE  TypesInv'
<1>1. edit \in Edits /\ edit.group \in Groups
  BY DEF TypesInv, EditOK, EditMutate, EditIs
<1>2. RulesOK'
  <2>1. PICK l \in Listings[edit.group] : rules' = [rules EXCEPT ![edit.group] = l]
    BY DEF EditMutate
  <2> QED BY <1>1, <2>1, Listed DEF TypesInv
<1>3. edit' = NoEdit \/ edit' = [edit EXCEPT !.step = "enable"] \/ edit' = [edit EXCEPT !.step = "trie"]
  BY DEF EditMutate
<1>4. EditOK' /\ edit'.step # "begin"
  <2>1. CASE edit' = NoEdit
    BY <2>1 DEF EditOK, Edits, NoEdit
  <2>2. CASE edit' = [edit EXCEPT !.step = "enable"]
    BY <1>1, <2>2 DEF EditOK, Edits
  <2>3. CASE edit' = [edit EXCEPT !.step = "trie"]
    BY <1>1, <2>3 DEF EditOK, Edits
  <2> QED BY <1>3, <2>1, <2>2, <2>3
<1>5. ObjectsOK'
  BY <1>4 DEF TypesInv, ObjectsOK, EditMutate, kernel
<1> QED BY <1>2, <1>4, <1>5 DEF TypesInv, EditMutate, CacheOK, GroupsOK, TasksOK, LifeOK, HeldOK, cache, kernel

LEMMA EnableTypes ==
  ASSUME TypesInv, EditEnable
  PROVE  TypesInv'
<1>1. edit \in Edits /\ edit.group \in Groups
  BY DEF TypesInv, EditOK, EditEnable, EditIs
<1>2. EditOK' /\ edit'.step # "begin"
  BY <1>1 DEF EditEnable, EditOK, Edits
<1>3. GroupsOK'
  BY DEF TypesInv, GroupsOK, EditEnable
<1>4. ObjectsOK'
  BY <1>2 DEF TypesInv, ObjectsOK, EditEnable
<1> QED BY <1>2, <1>3, <1>4 DEF TypesInv, EditEnable, CacheOK, RulesOK, TasksOK, LifeOK, HeldOK, cache

LEMMA RebuildTypes ==
  ASSUME TypesInv, EditRebuild
  PROVE  TypesInv'
<1>1. edit \in Edits /\ edit.group \in Groups /\ edit.step = "begin"
  BY DEF TypesInv, EditOK, EditRebuild, EditIs
<1>2. RulesOK'
  <2>1. PICK l \in Listings[edit.group] : rules' = [rules EXCEPT ![edit.group] = l]
    BY DEF EditRebuild
  <2> QED BY <1>1, <2>1, Listed DEF TypesInv
<1>3. EditOK' /\ edit'.step # "begin"
  BY <1>1 DEF EditRebuild, EditOK, Edits, NoEdit
<1>4. GroupsOK'
  <2>1. [a \in Addrs |-> 0] \in [Addrs -> Deadlines]
    BY Bounds DEF Deadlines
  <2>2. active' = active /\ active \in BOOLEAN
    BY DEF TypesInv, GroupsOK, EditRebuild
  <2>3. up' \in [Groups -> BOOLEAN]
    BY <2>2 DEF TypesInv, GroupsOK, EditRebuild
  <2>4. hosts' \in [Groups -> SUBSET Addrs]
    BY DEF TypesInv, GroupsOK, EditRebuild
  <2>5. ipset' \in [Groups -> [Addrs -> Deadlines]]
    BY <2>1 DEF TypesInv, GroupsOK, EditRebuild
  <2> QED BY <2>2, <2>3, <2>4, <2>5 DEF GroupsOK
<1>5. ObjectsOK'
  <2>1. object \in [Groups -> Nat] /\ edits' = edits /\ edits \in 0 .. MaxEdits
        /\ \A x \in Groups : object[x] < edits
    BY <1>1 DEF TypesInv, ObjectsOK, EditRebuild
  <2>2. \A x \in Groups : object'[x] \in {object[x], object[x] + 1}
    BY DEF EditRebuild
  <2>3. object' = [x \in Groups |-> object'[x]]
    BY DEF EditRebuild
  <2>4. \A x \in Groups : object'[x] \in Nat /\ object'[x] <= edits
    BY <2>1, <2>2, EditsAssumption
  <2> QED BY <1>3, <2>1, <2>3, <2>4 DEF ObjectsOK
<1> QED BY <1>2, <1>3, <1>4, <1>5 DEF TypesInv, EditRebuild, CacheOK, TasksOK, LifeOK, HeldOK, cache

LEMMA EditTrieTypes ==
  ASSUME TypesInv, EditTrie
  PROVE  TypesInv'
<1>1. trie' \in Tries
  BY TrieIsTyped DEF EditTrie
<1>2. EditOK' /\ edit'.step # "begin"
  BY OrderIs DEF TypesInv, EditOK, Edits, EditTrie, EditIs
<1>3. ObjectsOK'
  BY <1>2 DEF TypesInv, ObjectsOK, EditTrie, kernel
<1> QED BY <1>1, <1>2, <1>3 DEF TypesInv, EditTrie, CacheOK, RulesOK, GroupsOK, TasksOK, LifeOK, HeldOK,
                    cache, kernel

LEMMA EditSyncTypes ==
  ASSUME TypesInv, EditSync
  PROVE  TypesInv'
<1>1. edit \in Edits /\ edit.group \in Groups /\ edit.step = "sync" /\ edit.todo # <<>>
  BY DEF TypesInv, EditOK, EditSync, EditIs
<1>2. edit.todo \in Seq(Groups)
  BY <1>1 DEF Edits
<1>3. /\ Head(edit.todo) \in Groups /\ Tail(edit.todo) \in Seq(Groups)
      /\ Len(edit.todo) # 1 => Tail(edit.todo) # <<>>
  BY <1>1, <1>2, TailIs
<1>4. hosts' \in [Groups -> SUBSET Addrs] /\ ipset' \in [Groups -> [Addrs -> Deadlines]]
  BY <1>3, SyncIs DEF EditSync, TypesInv
<1>5. GroupsOK'
  BY <1>4 DEF TypesInv, GroupsOK, EditSync
<1>6. EditOK' /\ edit'.step # "begin"
  <2>1. CASE Len(edit.todo) = 1
    BY <2>1 DEF EditSync, EditOK, Edits, NoEdit
  <2>2. CASE Len(edit.todo) # 1
    <3>1. edit' = [edit EXCEPT !.todo = Tail(@)]
      BY <2>2 DEF EditSync
    <3> QED BY <1>1, <1>3, <2>2, <3>1 DEF EditOK, Edits
  <2> QED BY <2>1, <2>2
<1>7. ObjectsOK'
  BY <1>6 DEF TypesInv, ObjectsOK, EditSync
<1> QED BY <1>5, <1>6, <1>7 DEF TypesInv, EditSync, CacheOK, RulesOK, TasksOK, LifeOK, HeldOK, cache

--------------------------------------------------------------------------------
(* Types: the lifecycle and time *)

LEMMA BringUpTypes ==
  ASSUME TypesInv, BringUp
  PROVE  TypesInv'
<1>1. LifeOK'
  BY OrderIs DEF BringUp, LifeOK, Lives, NoLife
<1>2. GroupsOK'
  BY DEF TypesInv, GroupsOK, BringUp
<1> QED BY <1>1, <1>2 DEF TypesInv, BringUp, CacheOK, RulesOK, ObjectsOK, TasksOK, EditOK, HeldOK, cache

LEMMA BringUpSyncTypes ==
  ASSUME TypesInv, BringUpSync
  PROVE  TypesInv'
<1>1. life \in Lives /\ life.step = "sync" /\ life.todo # <<>>
  BY DEF TypesInv, LifeOK, BringUpSync
<1>2. life.todo \in Seq(Groups)
  BY <1>1 DEF Lives
<1>3. /\ Head(life.todo) \in Groups /\ Tail(life.todo) \in Seq(Groups)
      /\ Len(life.todo) # 1 => Tail(life.todo) # <<>>
  BY <1>1, <1>2, TailIs
<1>4. hosts' \in [Groups -> SUBSET Addrs] /\ ipset' \in [Groups -> [Addrs -> Deadlines]]
  BY <1>3, SyncIs DEF BringUpSync, TypesInv
<1>5. GroupsOK'
  BY <1>4 DEF TypesInv, GroupsOK, BringUpSync
<1>6. LifeOK'
  <2> DEFINE step == IF Len(life.todo) = 1 THEN "read" ELSE "sync"
  <2>1. life' = [life EXCEPT !.todo = Tail(life.todo), !.step = step]
    BY <1>1 DEF BringUpSync, Lives
  <2>2. step \in {"read", "sync"} /\ (step = "sync" => Tail(life.todo) # <<>>)
    BY <1>3
  <2> HIDE DEF step
  <2>3. life' \in Lives /\ life'.step = step /\ life'.todo = Tail(life.todo)
    BY <1>1, <1>3, <2>1, <2>2 DEF Lives
  <2> QED BY <2>2, <2>3 DEF LifeOK
<1> QED BY <1>5, <1>6 DEF TypesInv, BringUpSync, CacheOK, RulesOK, ObjectsOK, TasksOK, EditOK, HeldOK, cache

LEMMA ReadRulesTypes ==
  ASSUME TypesInv, BringUpReadRules
  PROVE  TypesInv'
<1>1. LifeOK'
  BY TrieIsTyped DEF TypesInv, LifeOK, Lives, BringUpReadRules
<1> QED BY <1>1 DEF TypesInv, BringUpReadRules, CacheOK, RulesOK, GroupsOK, ObjectsOK, TasksOK, EditOK, HeldOK,
                    cache, kernel

LEMMA StoreTrieTypes ==
  ASSUME TypesInv, BringUpStoreTrie
  PROVE  TypesInv'
<1>1. LifeOK' /\ trie' \in Tries
  BY DEF TypesInv, LifeOK, Lives, NoLife, BringUpStoreTrie
<1> QED BY <1>1 DEF TypesInv, BringUpStoreTrie, CacheOK, RulesOK, GroupsOK, ObjectsOK, TasksOK, EditOK, HeldOK,
                    cache, kernel

LEMMA BringDownTypes ==
  ASSUME TypesInv, BringDown
  PROVE  TypesInv'
<1>1. [a \in Addrs |-> 0] \in [Addrs -> Deadlines]
  BY Bounds DEF Deadlines
<1>2. GroupsOK'
  BY <1>1 DEF TypesInv, GroupsOK, BringDown
<1> QED BY <1>2 DEF TypesInv, BringDown, CacheOK, RulesOK, ObjectsOK, TasksOK, EditOK, LifeOK, HeldOK, cache

LEMMA TickTypes ==
  ASSUME TypesInv, Tick
  PROVE  TypesInv'
<1>1. now \in 1 .. MaxTime /\ now < MaxTime /\ now' = now + 1
  BY DEF TypesInv, Tick
<1>2. now' \in 1 .. MaxTime
  BY <1>1, Bounds
<1>3. CacheOK'
  <2>1. \A n \in Names, a \in Addrs : addresses[n][a] \in 0 .. Forever - 1 /\ addresses[n][a] <= now + MaxTimeout
    BY DEF TypesInv, CacheOK
  <2>2. \A n \in Names, a \in Addrs : addresses[n][a] <= now' + MaxTimeout
    BY <1>1, <2>1, Bounds
  <2>3. addresses' = addresses /\ aliases' = aliases
    BY DEF Tick, cache
  <2> QED BY <2>2, <2>3 DEF TypesInv, CacheOK, AliasOK
<1>4. GroupsOK'
  <2>1. \A g \in Groups, a \in Addrs : Alive(ipset[g][a]) \in Deadlines
    <3> SUFFICES ASSUME NEW g \in Groups, NEW a \in Addrs PROVE Alive(ipset[g][a]) \in Deadlines
      OBVIOUS
    <3>1. ipset[g][a] \in Deadlines /\ 0 \in Deadlines
      BY Bounds DEF TypesInv, GroupsOK, Deadlines
    <3> QED BY <3>1 DEF Alive
  <2>2. ipset' \in [Groups -> [Addrs -> Deadlines]]
    BY <2>1 DEF Tick
  <2> QED BY <2>2 DEF TypesInv, GroupsOK, Tick
<1>5. HeldOK'
  BY <1>1 DEF TypesInv, HeldOK, Tick
<1> QED BY <1>2, <1>3, <1>4, <1>5 DEF TypesInv, Tick, RulesOK, ObjectsOK, TasksOK, EditOK, LifeOK, cache

LEMMA CleanupTypes ==
  ASSUME TypesInv, cleanupRecords
  PROVE  TypesInv'
<1>1. now' = now
  BY DEF cleanupRecords
<1>2. \A n \in Names, a \in Addrs :
        addresses[n][a] \in 0 .. Forever - 1 /\ addresses[n][a] <= now + MaxTimeout
        /\ (addresses[n][a] > 0 => a \in Known)
  BY DEF TypesInv, CacheOK
<1>3. addresses' = [n \in Names |-> [a \in Addrs |-> IF addresses[n][a] < now THEN 0 ELSE addresses[n][a]]]
  BY DEF cleanupRecords
<1>4. \A n \in Names, a \in Addrs :
        /\ addresses'[n][a] \in 0 .. Forever - 1 /\ addresses'[n][a] <= now + MaxTimeout
        /\ (addresses'[n][a] > 0 => a \in Known)
  <2> SUFFICES ASSUME NEW n \in Names, NEW a \in Addrs
               PROVE  /\ addresses'[n][a] \in 0 .. Forever - 1 /\ addresses'[n][a] <= now + MaxTimeout
                      /\ (addresses'[n][a] > 0 => a \in Known)
    OBVIOUS
  <2>1. addresses'[n][a] \in {0, addresses[n][a]}
    BY <1>3
  <2>2. now \in Nat
    BY DEF TypesInv
  <2> QED BY <1>2, <2>1, <2>2, Bounds
<1>5. addresses' \in [Names -> [Addrs -> 0 .. Forever - 1]]
  <2>1. addresses' = [n \in Names |-> addresses'[n]] /\ \A n \in Names : addresses'[n] = [a \in Addrs |-> addresses'[n][a]]
    BY <1>3
  <2> QED BY <1>4, <2>1
<1>6. aliases' = [n \in Names |-> IF aliases[n] # None /\ aliases[n].deadline < now THEN None ELSE aliases[n]]
  BY DEF cleanupRecords
<1>7. aliases' = [n \in Names |-> aliases'[n]] /\ \A n \in Names : aliases'[n] \in {None, aliases[n]}
  BY <1>6
<1>8. \A n \in Names : AliasOK(n, aliases[n])'
  BY <1>7 DEF TypesInv, CacheOK, AliasOK
<1>9. CacheOK'
  BY <1>1, <1>4, <1>5, <1>7, <1>8 DEF CacheOK
<1> QED BY <1>1, <1>9 DEF TypesInv, cleanupRecords, RulesOK, GroupsOK, ObjectsOK, TasksOK, EditOK, LifeOK, HeldOK, kernel

LEMMA TypesStep == TypesInv /\ [Next]_vars => TypesInv'
<1> SUFFICES ASSUME TypesInv, [Next]_vars PROVE TypesInv'
  OBVIOUS
<1>1. ASSUME NEW h \in Handlers, Receive(h) \/ Handle(h) PROVE TypesInv'
  BY <1>1, ReceiveTypes, StoreTypes, ReadAddressesTypes, ReadAliasesTypes, SearchTypes, AddTypes, DeliverTypes
     DEF Handle
<1>2. CASE BeginEdit \/ Editing
  BY <1>2, BeginTypes, DisableTypes, MutateTypes, EnableTypes, RebuildTypes, EditTrieTypes, EditSyncTypes DEF Editing
<1>3. CASE BringUp \/ BringDown \/ Lifecycle
  BY <1>3, BringUpTypes, BringDownTypes, BringUpSyncTypes, ReadRulesTypes, StoreTrieTypes DEF Lifecycle
<1>4. CASE Tick \/ cleanupRecords
  BY <1>4, TickTypes, CleanupTypes
<1>5. CASE UNCHANGED vars
  BY <1>5 DEF TypesInv, vars, CacheOK, AliasOK, RulesOK, GroupsOK, ObjectsOK, TasksOK, EditOK, LifeOK, HeldOK, cache, kernel
<1> QED BY <1>1, <1>2, <1>3, <1>4, <1>5 DEF Next

(* TypeOK: every deadline of the cache and of an ipset stays within the      *)
(* bounds, an alias never points at its own name (AddAlias), and a           *)
(* subscription's groups are replaced no more often than edits were made.    *)
THEOREM DnsTypeCorrect == Spec => []TypeOK
<1>1. TypesInv => TypeOK
  <2> SUFFICES ASSUME TypesInv PROVE TypeOK
    OBVIOUS
  <2>1. addresses \in [Names -> [Addrs -> Deadlines]]
    <3>1. 0 .. Forever - 1 \subseteq Deadlines
      BY Bounds DEF Deadlines
    <3>2. addresses \in [Names -> [Addrs -> 0 .. Forever - 1]]
      BY DEF TypesInv, CacheOK
    <3> QED BY <3>1, <3>2
  <2>2. \A n \in Names : aliases[n] = None \/ (aliases[n].to \in Names \ {n} /\ aliases[n].deadline \in Deadlines)
    BY Bounds DEF TypesInv, CacheOK, AliasOK, Deadlines
  <2>3. object \in [Groups -> 0 .. MaxEdits]
    <3>1. object \in [Groups -> Nat] /\ edits \in 0 .. MaxEdits /\ \A g \in Groups : object[g] <= edits
      BY DEF TypesInv, ObjectsOK
    <3>2. \A g \in Groups : object[g] \in 0 .. MaxEdits
      BY <3>1, EditsAssumption
    <3> QED BY <3>1, <3>2
  <2>4. \A h \in Handlers : task[h].answer \in Answers \cup {<<>>}
    BY DEF TypesInv, TasksOK, TaskOK, Tasks
  <2> QED BY <2>1, <2>2, <2>3, <2>4 DEF TypesInv, TypeOK, RulesOK, GroupsOK, ObjectsOK, HeldOK, Tries
<1> QED BY <1>1, InitTypes, TypesStep, PTL DEF Spec

--------------------------------------------------------------------------------
(* Lookups follow the rules                                                  *)

(* An edit that need not rebuild the trie is one of a group that is off: the *)
(* group was off when it began, or PutGroup has taken it down.               *)
OffWhileChanged ==
  /\ edit.step = "disable" => edit.enabled
  /\ edit.step = "mutate" /\ (~edit.enabled \/ edit.kind = "put") => ~up[edit.group]

(* The trie is that of the rules in force, but between a change and the      *)
(* rebuilding that follows it, and while the routing is down.                *)
TrieCurrent ==
  /\ active /\ life.step = "idle" /\ (edit.step = "idle" \/ (edit.step = "mutate" /\ ~edit.enabled))
       => trie = BuiltTrie
  /\ edit.step = "sync" => trie = BuiltTrie
  /\ life.step = "store" => life.draft = BuiltTrie

(* Edits and bring-up one at a time.                                         *)
Alone == edit.step = "idle" \/ life.step = "idle"

LookupInv == Alone /\ OffWhileChanged /\ TrieCurrent

(* The trie depends on nothing but the rules and on which groups are up.     *)
LEMMA SameTrie ==
  ASSUME rules' = rules, up' = up
  PROVE  BuiltTrie' = BuiltTrie
BY DEF BuiltTrie, UpGroups, First

LEMMA NothingChanged ==
  ASSUME LookupInv, UNCHANGED <<rules, trie, active, up, edit, life>>
  PROVE  LookupInv'
BY SameTrie DEF LookupInv, Alone, OffWhileChanged, TrieCurrent

(* The rules of a group that is off are not in the trie.                     *)
LEMMA OffIsAbsent ==
  ASSUME RulesOK, NEW g \in Groups, ~up[g], up' = up, NEW l, rules' = [rules EXCEPT ![g] = l]
  PROVE  BuiltTrie' = BuiltTrie
<1>1. \A x \in Groups : up[x] => rules'[x] = rules[x]
  BY DEF RulesOK
<1>2. UpGroups' = UpGroups
  BY DEF UpGroups
<1>3. \A n \in Names : {x \in UpGroups : n \in rules'[x].names} = {x \in UpGroups : n \in rules[x].names}
  BY <1>1 DEF UpGroups
<1> QED BY <1>2, <1>3 DEF BuiltTrie, First

LEMMA LookupInit == Init => LookupInv
BY DEF Init, LookupInv, Alone, OffWhileChanged, TrieCurrent, NoEdit, NoLife

(* The actions that touch neither the rules nor the trie nor an edit.        *)
Elsewhere ==
  \/ \E h \in Handlers : Receive(h) \/ Handle(h)
  \/ Tick \/ cleanupRecords

LEMMA ElsewhereIs ==
  ASSUME Elsewhere
  PROVE  UNCHANGED <<rules, trie, active, up, edit, life>>
BY DEF Elsewhere, Handle, Receive, StoreRecord, ReadAddresses, ReadAliases, SearchName, AddSubnet, Deliver, Tick,
       cleanupRecords, kernel

LEMMA LookupEdits ==
  ASSUME ~Overlap, TypesInv, LookupInv, BeginEdit \/ Editing
  PROVE  LookupInv'
<1>0. edit \in Edits
  BY DEF TypesInv, EditOK
<1>1. CASE BeginEdit
  <2>1. life.step = "idle" /\ edit.step = "idle"
    BY <1>1 DEF BeginEdit, EditIs
  <2>2. UNCHANGED <<rules, trie, active, up, life>>
    BY <1>1 DEF BeginEdit, kernel
  <2>3. PICK k \in Kinds \cap EditKinds, g \in Groups :
          edit' = [NoEdit EXCEPT !.step = IF k = "put" /\ up[g] THEN "disable"
                                          ELSE IF k = "rebuild" THEN "begin" ELSE "mutate",
                                 !.kind = k, !.group = g, !.enabled = up[g]]
    BY <1>1 DEF BeginEdit
  <2>4. edit' = [step |-> IF k = "put" /\ up[g] THEN "disable"
                          ELSE IF k = "rebuild" THEN "begin" ELSE "mutate",
                 kind |-> k, group |-> g, enabled |-> up[g], todo |-> <<>>]
    BY <2>3 DEF NoEdit
  <2>5. Alone' /\ OffWhileChanged'
    BY <2>1, <2>2, <2>4 DEF Alone, OffWhileChanged
  <2>6. edit'.step \notin {"idle", "sync"}
    BY <2>4
  <2>7. BuiltTrie' = BuiltTrie
    BY <2>2, SameTrie
  <2>8. TrieCurrent'
    BY <2>1, <2>2, <2>6, <2>7 DEF LookupInv, TrieCurrent
  <2> QED BY <2>5, <2>8 DEF LookupInv
<1>2. ASSUME Editing
      PROVE  life.step = "idle" /\ life' = life /\ active' = active
  BY <1>2 DEF Editing, EditDisable, EditMutate, EditEnable, EditRebuild, EditTrie, EditSync, EditIs, LookupInv, Alone, kernel
<1>3. CASE EditDisable
  <2>1. edit' = [edit EXCEPT !.step = "mutate"] /\ edit.enabled /\ up' = [up EXCEPT ![edit.group] = FALSE]
    BY <1>3 DEF EditDisable, EditIs, LookupInv, OffWhileChanged
  <2>2. edit'.step = "mutate" /\ edit'.enabled /\ edit'.group = edit.group
    BY <1>0, <2>1 DEF Edits
  <2>3. edit.group \in Groups /\ up \in [Groups -> BOOLEAN]
    BY <1>3 DEF TypesInv, EditOK, GroupsOK, EditDisable, EditIs
  <2>4. ~up'[edit.group]
    BY <2>1, <2>3
  <2> QED BY <1>2, <1>3, <2>2, <2>4 DEF Editing, LookupInv, Alone, OffWhileChanged, TrieCurrent
<1>4. CASE EditMutate
  <2>1. edit.step = "mutate" /\ edit.group \in Groups /\ up' = up /\ trie' = trie
    BY <1>4 DEF EditMutate, EditIs, TypesInv, EditOK, kernel
  <2>2. CASE ~edit.enabled
    <3>1. edit' = NoEdit
      BY <1>4, <2>2 DEF EditMutate
    <3>2. ~up[edit.group]
      BY <2>1, <2>2 DEF LookupInv, OffWhileChanged
    <3>3. PICK l \in Listings[edit.group] : rules' = [rules EXCEPT ![edit.group] = l]
      BY <1>4 DEF EditMutate
    <3>4. BuiltTrie' = BuiltTrie
      BY <2>1, <3>2, <3>3, OffIsAbsent DEF TypesInv
    <3>5. edit'.step = "idle"
      BY <3>1 DEF NoEdit
    <3> QED BY <1>2, <1>4, <2>1, <2>2, <3>4, <3>5 DEF Editing, LookupInv, Alone, OffWhileChanged, TrieCurrent
  <2>3. CASE edit.enabled
    <3>1. edit'.step \in {"enable", "trie"}
      BY <1>0, <1>4, <2>3 DEF EditMutate, Edits
    <3> QED BY <1>2, <1>4, <3>1 DEF Editing, LookupInv, Alone, OffWhileChanged, TrieCurrent
  <2> QED BY <2>2, <2>3
<1>5. CASE EditEnable
  <2>1. edit'.step = "trie"
    BY <1>0, <1>5 DEF EditEnable, Edits
  <2> QED BY <1>2, <1>5, <2>1 DEF Editing, LookupInv, Alone, OffWhileChanged, TrieCurrent
<1>6. CASE EditRebuild
  <2>1. edit'.step = "trie" \/ (~active /\ edit'.step = "idle")
    BY <1>0, <1>6 DEF EditRebuild, Edits, NoEdit
  <2> QED BY <1>2, <1>6, <2>1 DEF Editing, LookupInv, Alone, OffWhileChanged, TrieCurrent
<1>7. CASE EditTrie
  <2>1. edit'.step = "sync" /\ trie' = BuiltTrie
    BY <1>0, <1>7 DEF EditTrie, Edits
  <2>2. BuiltTrie' = BuiltTrie
    BY <1>7, SameTrie DEF EditTrie, kernel
  <2> QED BY <1>2, <1>7, <2>1, <2>2 DEF Editing, LookupInv, Alone, OffWhileChanged, TrieCurrent
<1>8. CASE EditSync
  <2>1. edit'.step \in {"sync", "idle"} /\ edit.step = "sync" /\ trie' = trie
    BY <1>0, <1>8 DEF EditSync, EditIs, Edits, NoEdit
  <2>2. BuiltTrie' = BuiltTrie
    BY <1>8, SameTrie DEF EditSync
  <2> QED BY <1>2, <1>8, <2>1, <2>2 DEF Editing, LookupInv, Alone, OffWhileChanged, TrieCurrent
<1> QED BY <1>1, <1>3, <1>4, <1>5, <1>6, <1>7, <1>8 DEF Editing

LEMMA LookupLifecycle ==
  ASSUME ~Overlap, TypesInv, LookupInv, BringUp \/ BringDown \/ Lifecycle
  PROVE  LookupInv'
<1>0. life \in Lives
  BY DEF TypesInv, LifeOK
<1>1. edit.step = "idle" /\ edit' = edit
  BY DEF BringUp, BringDown, Lifecycle, BringUpSync, BringUpReadRules, BringUpStoreTrie, EditIs, LookupInv, Alone, kernel
<1>2. Alone' /\ OffWhileChanged'
  BY <1>1 DEF Alone, OffWhileChanged
<1>3. CASE BringUp
  <2>1. life'.step = "sync"
    BY <1>3 DEF BringUp, NoLife
  <2> QED BY <1>1, <1>2, <2>1 DEF LookupInv, TrieCurrent
<1>4. CASE BringDown
  <2>1. ~active' /\ life.step = "idle" /\ life' = life
    BY <1>4 DEF BringDown, MutationFree
  <2> QED BY <1>1, <1>2, <2>1 DEF LookupInv, TrieCurrent
<1>5. CASE BringUpSync
  <2>1. life'.step \in {"sync", "read"}
    BY <1>0, <1>5 DEF BringUpSync, Lives
  <2> QED BY <1>1, <1>2, <2>1 DEF LookupInv, TrieCurrent
<1>6. CASE BringUpReadRules
  <2>1. life'.step = "store" /\ life'.draft = BuiltTrie
    BY <1>0, <1>6 DEF BringUpReadRules, Lives
  <2>2. BuiltTrie' = BuiltTrie
    BY <1>6, SameTrie DEF BringUpReadRules, kernel
  <2> QED BY <1>1, <1>2, <2>1, <2>2 DEF LookupInv, TrieCurrent
<1>7. CASE BringUpStoreTrie
  <2>1. life'.step = "idle" /\ trie' = BuiltTrie
    BY <1>7 DEF BringUpStoreTrie, NoLife, LookupInv, TrieCurrent
  <2>2. BuiltTrie' = BuiltTrie
    BY <1>7, SameTrie DEF BringUpStoreTrie, kernel
  <2> QED BY <1>1, <1>2, <2>1, <2>2 DEF LookupInv, TrieCurrent
<1> QED BY <1>3, <1>4, <1>5, <1>6, <1>7 DEF Lifecycle

LEMMA LookupStep ==
  ASSUME ~Overlap
  PROVE  TypesInv /\ LookupInv /\ [Next]_vars => LookupInv'
<1> SUFFICES ASSUME TypesInv, LookupInv, [Next]_vars PROVE LookupInv'
  OBVIOUS
<1>1. CASE BeginEdit \/ Editing
  BY <1>1, LookupEdits
<1>2. CASE BringUp \/ BringDown \/ Lifecycle
  BY <1>2, LookupLifecycle
<1>3. CASE Elsewhere
  BY <1>3, ElsewhereIs, NothingChanged
<1>4. CASE UNCHANGED vars
  BY <1>4, NothingChanged DEF vars, kernel
<1> QED BY <1>1, <1>2, <1>3, <1>4 DEF Next, Elsewhere

(* TrieFollowsRules, for any number of handlers and edits: unless an edit and *)
(* a bring-up overlap (which the code allows, finding_overlap), every edit,   *)
(* rebuild or bring-up ends with the trie of the rules that are then in       *)
(* force (SyncAllGroups, RebuildTrie).                                        *)
THEOREM LookupFollowsRules ==
  ASSUME ~Overlap
  PROVE  Spec => []TrieFollowsRules
<1>1. Init => TypesInv /\ LookupInv
  BY InitTypes, LookupInit
<1>2. TypesInv /\ LookupInv /\ [Next]_vars => TypesInv' /\ LookupInv'
  BY TypesStep, LookupStep
<1>3. LookupInv => TrieFollowsRules
  BY DEF LookupInv, TrieCurrent, TrieFollowsRules, Settled, EditIs
<1> QED BY <1>1, <1>2, <1>3, PTL DEF Spec

--------------------------------------------------------------------------------
(* Nothing but a static address is permanent                                 *)

(* No edit takes an address that DNS may answer with out of the subnet rules *)
(* of a group.                                                               *)
StaticsStay ==
  \A g \in Groups : \A l \in Listings[g], m \in Listings[g] \cup {FirstRules[g]} :
    m.statics \cap Known \subseteq l.statics

(* A sync of the group g is still to come.                                   *)
SyncAhead(g) ==
  \/ edit.step = "trie"
  \/ edit.step = "sync" /\ \E i \in 1 .. Len(edit.todo) : edit.todo[i] = g

(* A permanent entry is a static address, or one that was, that DNS does not *)
(* know and that the sync of its group is about to remove.                   *)
PermanentOK ==
  \A g \in Groups, a \in Addrs :
    ipset[g][a] = Forever /\ a \notin rules[g].statics => a \notin Known /\ SyncAhead(g)

(* A group that is off has an empty ipset.                                   *)
OffIsEmpty == \A g \in Groups, a \in Addrs : ~up[g] => ipset[g][a] = 0

ForeverInv == PermanentOK /\ OffIsEmpty

LEMMA ForeverInit == Init => ForeverInv
<1> SUFFICES ASSUME Init PROVE ForeverInv
  OBVIOUS
<1>1. 0 # Forever
  BY Bounds
<1> QED BY <1>1 DEF Init, ForeverInv, PermanentOK, OffIsEmpty

(* A step that makes no entry permanent and changes no rules.                *)
LEMMA NoneMade ==
  ASSUME ForeverInv, UNCHANGED <<rules, up, edit>>,
         \A g \in Groups, a \in Addrs :
           ipset'[g][a] # ipset[g][a] => (ipset'[g][a] # Forever /\ (up[g] \/ ipset'[g][a] = 0))
  PROVE  ForeverInv'
<1>1. PermanentOK'
  BY DEF ForeverInv, PermanentOK, SyncAhead, Forever
<1>2. OffIsEmpty'
  BY DEF ForeverInv, OffIsEmpty
<1> QED BY <1>1, <1>2 DEF ForeverInv

LEMMA ForeverElsewhere ==
  ASSUME TypesInv, ForeverInv, Elsewhere \/ UNCHANGED vars
  PROVE  ForeverInv'
<1>1. CASE Elsewhere
  <2>1. UNCHANGED <<rules, up, edit>>
    BY <1>1, ElsewhereIs
  <2>2. ASSUME NEW h \in Handlers, AddSubnet(h) PROVE ForeverInv'
    <3>1. \A g \in Groups, a \in Addrs :
            ipset'[g][a] # ipset[g][a] => up[g] /\ ipset'[g][a] # Forever
      BY <2>2, AddIs
    <3> QED BY <2>1, <3>1, NoneMade
  <2>3. CASE Tick
    <3>1. \A g \in Groups, a \in Addrs : ipset'[g][a] = Alive(ipset[g][a])
      BY <2>3 DEF Tick
    <3>2. \A g \in Groups, a \in Addrs : ipset'[g][a] # ipset[g][a] => ipset'[g][a] = 0
      BY <3>1 DEF Alive
    <3>3. 0 # Forever
      BY Bounds
    <3> QED BY <2>1, <3>2, <3>3, NoneMade
  <2>4. CASE UNCHANGED ipset
    BY <2>1, <2>4, NoneMade
  <2>5. ASSUME NEW h \in Handlers, Receive(h) \/ Handle(h) PROVE UNCHANGED ipset \/ AddSubnet(h)
    BY <2>5 DEF Handle, Receive, StoreRecord, ReadAddresses, ReadAliases, SearchName, Deliver, kernel
  <2>6. CASE cleanupRecords
    BY <2>4, <2>6 DEF cleanupRecords, kernel
  <2> QED BY <1>1, <2>2, <2>3, <2>4, <2>5, <2>6 DEF Elsewhere
<1>2. CASE UNCHANGED vars
  BY <1>2, NoneMade DEF vars, kernel
<1> QED BY <1>1, <1>2

(* A sync leaves the group nothing permanent but its static addresses, if    *)
(* what was permanent before was one or is not known to DNS.                 *)
LEMMA SyncClears ==
  ASSUME TypesInv, ForeverInv, NEW g \in Groups, Sync(g), UNCHANGED <<rules, up>>
  PROVE  /\ \A a \in Addrs : ipset'[g][a] = Forever => a \in rules[g].statics
         /\ \A x \in Groups \ {g} : ipset'[x] = ipset[x]
         /\ OffIsEmpty'
<1>1. CacheOK /\ GroupsOK /\ RulesOK /\ now \in Nat
  BY DEF TypesInv
<1>2. /\ \A x \in Groups \ {g} : ipset'[x] = ipset[x]
      /\ ipset'[g] = IF up[g] THEN Synced(g) ELSE ipset[g]
  BY <1>1, SyncIs
<1>3. ASSUME NEW a \in Addrs, ipset'[g][a] = Forever PROVE a \in rules[g].statics
  <2>1. CASE up[g]
    <3>1. Synced(g)[a] = Forever
      BY <1>2, <1>3, <2>1
    <3>2. a \in rules[g].statics \/ (ipset[g][a] = Forever /\ a \in Known)
      BY <1>1, <3>1, SyncedIs
    <3> QED BY <3>2 DEF ForeverInv, PermanentOK
  <2>2. CASE ~up[g]
    BY <1>2, <1>3, <2>2, Bounds DEF ForeverInv, OffIsEmpty
  <2> QED BY <2>1, <2>2
<1>4. OffIsEmpty'
  BY <1>2 DEF ForeverInv, OffIsEmpty
<1> QED BY <1>2, <1>3, <1>4

(* A new rule list of the group g: what was static and no longer is, DNS     *)
(* does not know.                                                            *)
LEMMA TakenIsUnknown ==
  ASSUME StaticsStay, RulesOK, NEW g \in Groups, NEW l \in Listings[g], rules' = [rules EXCEPT ![g] = l]
  PROVE  /\ \A x \in Groups \ {g} : rules'[x] = rules[x]
         /\ \A a \in Known : a \in rules[g].statics => a \in rules'[g].statics
<1>1. rules'[g] = l /\ \A x \in Groups \ {g} : rules'[x] = rules[x]
  BY DEF RulesOK
<1>2. rules[g] \in Listings[g] \cup {FirstRules[g]}
  BY DEF RulesOK
<1> QED BY <1>1, <1>2 DEF StaticsStay

LEMMA ForeverEdits ==
  ASSUME ~Overlap, StaticsStay, TypesInv, LookupInv, ForeverInv, BeginEdit \/ Editing
  PROVE  ForeverInv'
<1>0. edit \in Edits /\ up \in [Groups -> BOOLEAN] /\ Forever' = Forever /\ 0 # Forever
  BY Bounds DEF TypesInv, EditOK, GroupsOK, Forever
<1>1. CASE BeginEdit
  <2>1. UNCHANGED <<rules, up, ipset>> /\ edit.step = "idle"
    BY <1>1 DEF BeginEdit, EditIs, kernel
  <2>2. \A g \in Groups : ~SyncAhead(g)
    BY <2>1 DEF SyncAhead
  <2> QED BY <1>0, <2>1, <2>2 DEF ForeverInv, PermanentOK, OffIsEmpty
<1>2. CASE EditDisable
  <2>1. UNCHANGED rules /\ edit.step = "disable" /\ edit.group \in Groups
    BY <1>2 DEF EditDisable, EditIs, TypesInv, EditOK
  <2>2. /\ up' = [up EXCEPT ![edit.group] = FALSE]
        /\ ipset' = [ipset EXCEPT ![edit.group] = [a \in Addrs |-> 0]]
        /\ ipset \in [Groups -> [Addrs -> Deadlines]]
    BY <1>2 DEF EditDisable, TypesInv, GroupsOK
  <2>3. \A g \in Groups, a \in Addrs :
          ipset'[g][a] = IF g = edit.group THEN 0 ELSE ipset[g][a]
    BY <2>2
  <2>4. \A g \in Groups : up'[g] = IF g = edit.group THEN FALSE ELSE up[g]
    BY <1>0, <2>2
  <2>5. \A g \in Groups : ~SyncAhead(g)
    BY <2>1 DEF SyncAhead
  <2>6. PermanentOK'
    BY <1>0, <2>1, <2>3, <2>5 DEF ForeverInv, PermanentOK
  <2>7. OffIsEmpty'
    <3> SUFFICES ASSUME NEW g \in Groups, NEW a \in Addrs, ~up'[g] PROVE ipset'[g][a] = 0
      BY DEF OffIsEmpty
    <3>1. g # edit.group => ~up[g]
      BY <2>4
    <3> QED BY <2>3, <3>1 DEF ForeverInv, OffIsEmpty
  <2> QED BY <2>6, <2>7 DEF ForeverInv
<1>3. CASE EditMutate
  <2>1. edit.step = "mutate" /\ edit.group \in Groups /\ up' = up /\ ipset' = ipset
    BY <1>3 DEF EditMutate, EditIs, TypesInv, EditOK, kernel
  <2>2. PICK l \in Listings[edit.group] : rules' = [rules EXCEPT ![edit.group] = l]
    BY <1>3 DEF EditMutate
  <2>3. /\ \A x \in Groups \ {edit.group} : rules'[x] = rules[x]
        /\ \A a \in Known : a \in rules[edit.group].statics => a \in rules'[edit.group].statics
    BY <2>1, <2>2, TakenIsUnknown DEF TypesInv
  <2>4. \A g \in Groups, a \in Addrs : ipset[g][a] = Forever => a \in rules[g].statics
    BY <2>1 DEF ForeverInv, PermanentOK, SyncAhead
  <2>5. OffIsEmpty'
    BY <2>1 DEF ForeverInv, OffIsEmpty
  <2>6. ~edit.enabled \/ edit.kind = "put" => \A a \in Addrs : ipset[edit.group][a] = 0
    BY <2>1 DEF LookupInv, OffWhileChanged, ForeverInv, OffIsEmpty
  <2>7. edit.enabled /\ edit.kind # "put" => edit'.step = "trie"
    BY <1>0, <1>3 DEF EditMutate, Edits
  <2>8. PermanentOK'
    <3> SUFFICES ASSUME NEW g \in Groups, NEW a \in Addrs, ipset[g][a] = Forever, a \notin rules'[g].statics
                 PROVE  a \notin Known /\ SyncAhead(g)'
      BY <1>0, <2>1 DEF PermanentOK
    <3>1. a \in rules[g].statics
      BY <2>4
    <3>2. g = edit.group /\ a \notin Known
      BY <2>3, <3>1
    <3>3. edit'.step = "trie"
      BY <1>0, <2>6, <2>7, <3>2
    <3> QED BY <3>2, <3>3 DEF SyncAhead
  <2> QED BY <2>5, <2>8 DEF ForeverInv
<1>4. CASE EditEnable
  <2>1. UNCHANGED <<rules, ipset>> /\ edit.step = "enable" /\ up' = [up EXCEPT ![edit.group] = TRUE]
    BY <1>4 DEF EditEnable, EditIs
  <2>2. \A g \in Groups : ~SyncAhead(g)
    BY <2>1 DEF SyncAhead
  <2>3. \A g \in Groups : up[g] => up'[g]
    BY <1>0, <2>1
  <2> QED BY <1>0, <2>1, <2>2, <2>3 DEF ForeverInv, PermanentOK, OffIsEmpty
<1>5. CASE EditRebuild
  <2>1. edit.step = "begin" /\ edit.group \in SubGroups /\ edit.group \in Groups
    BY <1>5 DEF EditRebuild, EditIs, TypesInv, EditOK
  <2>2. PICK l \in Listings[edit.group] : rules' = [rules EXCEPT ![edit.group] = l]
    BY <1>5 DEF EditRebuild
  <2>3. \A x \in Groups \ {edit.group} : rules'[x] = rules[x]
    BY <2>1, <2>2, TakenIsUnknown DEF TypesInv
  <2>4. \A g \in Groups, a \in Addrs : ipset'[g][a] = IF g \in SubGroups THEN 0 ELSE ipset[g][a]
    BY <1>5 DEF EditRebuild
  <2>5. \A g \in Groups \ SubGroups : up'[g] = up[g]
    BY <1>5 DEF EditRebuild
  <2>6. \A g \in Groups : ~SyncAhead(g)
    BY <2>1 DEF SyncAhead
  <2>7. PermanentOK'
    BY <1>0, <2>1, <2>3, <2>4, <2>6 DEF ForeverInv, PermanentOK
  <2>8. OffIsEmpty'
    BY <2>4, <2>5 DEF ForeverInv, OffIsEmpty
  <2> QED BY <2>7, <2>8 DEF ForeverInv
<1>6. CASE EditTrie
  <2>1. UNCHANGED <<rules, up, ipset>>
    BY <1>6 DEF EditTrie, kernel
  <2>2. edit'.step = "sync" /\ edit'.todo = Order
    BY <1>0, <1>6 DEF EditTrie, Edits
  <2>3. \A g \in Groups : SyncAhead(g)'
    BY <2>2, OrderIs DEF SyncAhead
  <2> QED BY <1>0, <2>1, <2>3 DEF ForeverInv, PermanentOK, OffIsEmpty
<1>7. CASE EditSync
  <2> DEFINE g == Head(edit.todo)
  <2>1. edit.step = "sync" /\ edit.todo # <<>> /\ edit.todo \in Seq(Groups)
    BY <1>0, <1>7 DEF EditSync, EditIs, TypesInv, EditOK, Edits
  <2>2. g \in Groups /\ g = edit.todo[1] /\ UNCHANGED <<rules, up>> /\ Sync(g)
    BY <1>7, <2>1 DEF EditSync
  <2> HIDE DEF g
  <2>3. /\ \A a \in Addrs : ipset'[g][a] = Forever => a \in rules[g].statics
        /\ \A x \in Groups \ {g} : ipset'[x] = ipset[x]
        /\ OffIsEmpty'
    BY <2>2, SyncClears
  <2>4. ASSUME NEW x \in Groups \ {g}, SyncAhead(x) PROVE SyncAhead(x)'
    <3>1. PICK i \in 1 .. Len(edit.todo) : edit.todo[i] = x
      BY <2>1, <2>4 DEF SyncAhead
    <3>2. i # 1 /\ Len(edit.todo) # 1 /\ Len(edit.todo) \in Nat /\ i \in Nat
      BY <2>1, <2>2, <3>1
    <3>3. edit' = [edit EXCEPT !.todo = Tail(edit.todo)]
      BY <1>7, <3>2 DEF EditSync
    <3>4. edit'.step = "sync" /\ edit'.todo = Tail(edit.todo)
      BY <1>0, <2>1, <3>3 DEF Edits
    <3>5. /\ Len(Tail(edit.todo)) = Len(edit.todo) - 1
          /\ i - 1 \in 1 .. Len(edit.todo) - 1
      BY <2>1, <3>1, <3>2
    <3>6. Tail(edit.todo)[i - 1] = x
      BY <2>1, <3>1, <3>2, <3>5
    <3> QED BY <3>4, <3>5, <3>6 DEF SyncAhead
  <2>5. PermanentOK'
    BY <1>0, <2>2, <2>3, <2>4 DEF ForeverInv, PermanentOK
  <2> QED BY <2>3, <2>5 DEF ForeverInv
<1> QED BY <1>1, <1>2, <1>3, <1>4, <1>5, <1>6, <1>7 DEF Editing

LEMMA ForeverLifecycle ==
  ASSUME TypesInv, LookupInv, ForeverInv, BringUp \/ BringDown \/ Lifecycle
  PROVE  ForeverInv'
<1>0. Forever' = Forever /\ 0 # Forever
  BY Bounds DEF Forever
<1>1. CASE BringUp
  BY <1>0, <1>1 DEF BringUp, ForeverInv, PermanentOK, OffIsEmpty, SyncAhead
<1>2. CASE BringDown
  <2>1. \A g \in Groups, a \in Addrs : ipset'[g][a] = 0
    BY <1>2 DEF BringDown
  <2> QED BY <1>0, <2>1 DEF ForeverInv, PermanentOK, OffIsEmpty
<1>3. CASE BringUpSync
  <2> DEFINE g == Head(life.todo)
  <2>1. life.todo # <<>> /\ life.todo \in Seq(Groups)
    BY <1>3 DEF BringUpSync, TypesInv, LifeOK, Lives
  <2>2. g \in Groups /\ UNCHANGED <<rules, up, edit>> /\ Sync(g)
    BY <1>3, <2>1 DEF BringUpSync
  <2> HIDE DEF g
  <2>3. /\ \A a \in Addrs : ipset'[g][a] = Forever => a \in rules[g].statics
        /\ \A x \in Groups \ {g} : ipset'[x] = ipset[x]
        /\ OffIsEmpty'
    BY <2>2, SyncClears
  <2>4. PermanentOK'
    BY <1>0, <2>2, <2>3 DEF ForeverInv, PermanentOK, SyncAhead
  <2> QED BY <2>3, <2>4 DEF ForeverInv
<1>4. CASE BringUpReadRules \/ BringUpStoreTrie
  BY <1>4, NoneMade DEF BringUpReadRules, BringUpStoreTrie, kernel
<1> QED BY <1>1, <1>2, <1>3, <1>4 DEF Lifecycle

LEMMA ForeverStep ==
  ASSUME ~Overlap, StaticsStay
  PROVE  TypesInv /\ LookupInv /\ ForeverInv /\ [Next]_vars => ForeverInv'
<1> SUFFICES ASSUME TypesInv, LookupInv, ForeverInv, [Next]_vars PROVE ForeverInv'
  OBVIOUS
<1>1. CASE BeginEdit \/ Editing
  BY <1>1, ForeverEdits
<1>2. CASE BringUp \/ BringDown \/ Lifecycle
  BY <1>2, ForeverLifecycle
<1>3. CASE Elsewhere \/ UNCHANGED vars
  BY <1>3, ForeverElsewhere
<1> QED BY <1>1, <1>2, <1>3 DEF Next, Elsewhere

(* NothingForever: whatever TTLs the upstream sends and however late an      *)
(* answer is processed, between edits only static addresses are permanent    *)
(* (ipsetTTLFromRecord, ipsetTTLFromDeadline), if no edit takes an address   *)
(* that DNS knows out of the subnet rules: Sync never lowers a timeout       *)
(* (finding_static).                                                         *)
THEOREM NothingIsForever ==
  ASSUME ~Overlap, StaticsStay
  PROVE  Spec => []NothingForever
<1>1. Init => TypesInv /\ LookupInv /\ ForeverInv
  BY InitTypes, LookupInit, ForeverInit
<1>2. TypesInv /\ LookupInv /\ ForeverInv /\ [Next]_vars => TypesInv' /\ LookupInv' /\ ForeverInv'
  BY TypesStep, LookupStep, ForeverStep
<1>3. ForeverInv => NothingForever
  BY DEF ForeverInv, PermanentOK, SyncAhead, NothingForever, Settled, EditIs
<1> QED BY <1>1, <1>2, <1>3, PTL DEF Spec

--------------------------------------------------------------------------------
(* What clients were told is routed, when answers need no alias              *)

(* The upstream answers a name with its addresses and nothing else.          *)
Direct ==
  \A m \in Answers : \A r, s \in Records(m) : r.type = "A" /\ r.name = s.name

(* Clients are told to forget before the ipset does (constant.go:24,54).     *)
CapOK == ClientTTLCap \in 1 .. AdditionalTTL

(* The rules are edited, or the routing is switched, but not both: a name    *)
(* that gets its rule while the routing is down is not in the trie when the  *)
(* groups come up (finding_bringup).                                         *)
EditsOrFlips == "flip" \notin Kinds \/ Kinds \cap EditKinds = {}

(* The trie of all groups, which are all up when it is built.                *)
FullTrie == [n \in Names |-> First({g \in Groups : n \in rules[g].names})]

(* Only PutGroup takes a single group down, and it puts it up again.         *)
ModesApart ==
  /\ "flip" \notin Kinds => active /\ life.step = "idle"
  /\ Kinds \cap EditKinds = {} => edit.step = "idle"
  /\ life.step # "idle" => active
  /\ edit.step # "idle" => edit.enabled
  /\ edit.step \in {"disable", "enable"} => edit.kind = "put"

UpTogether ==
  /\ ~active => \A g \in Groups : ~up[g]
  /\ \A g \in Groups : up[g] \/ ~active \/ (edit.step \in {"mutate", "enable"} /\ edit.kind = "put" /\ edit.group = g)

TrieIsFull ==
  /\ edit.step \in {"idle", "sync"} => trie = FullTrie
  /\ life.step = "store" => life.draft = FullTrie

(* The group has been synced since its rules changed or it came up.          *)
Ahead(todo, g) == \E i \in 1 .. Len(todo) : todo[i] = g

Resting(g) ==
  /\ active
  /\ edit.step = "idle" \/ (edit.step = "sync" /\ ~Ahead(edit.todo, g))
  /\ life.step = "sync" => ~Ahead(life.todo, g)

(* A static address of a group that rests is permanent.                      *)
HostsStay ==
  \A g \in Groups : Resting(g) => \A a \in Addrs : a \in hosts[g] => ipset[g][a] = Forever

(* The address a of the name n is routed until u, or a sync is still to      *)
(* come that will see to it.                                                 *)
Placed(n, a, u) ==
  Owner(n) # None /\ Resting(Owner(n)) => ipset[Owner(n)][a] >= u

Good(n, a, u) == addresses[n][a] >= u /\ Placed(n, a, u)

(* How long a client that is told now may remember.                          *)
ToldUntil == now + ClientTTLCap

(* The group that a handler has found is the one that owns the name.         *)
Aimed(t, n) == t.target = [group |-> Owner(n), object |-> object[Owner(n)]]

(* The records an answer has left to process, the one in hand first.         *)
InHand(t) == Head(t.rest)

Searching(t) ==
  LET r == InHand(t) IN
  /\ addresses[r.name][r.addr] >= ToldUntil
  /\ \E ttl \in AdditionalTTL .. MaxTimeout : ttl > 0 /\ t.addrs = {<<r.addr, ttl>>}

TaskGood(t) ==
  /\ t.step # "addresses"
  /\ t.step = "deliver" => Records(t.rest) = {}
  /\ t.step # "idle" => t.answer \in Answers /\ Records(t.rest) \subseteq Records(t.answer)
  /\ t.step # "idle" =>
       \A r \in Records(t.answer) : r \in Records(t.rest) \/ Good(r.name, r.addr, ToldUntil)
  /\ t.step \in {"aliases", "search", "add"} => Searching(t)
  /\ t.step = "search" => t.names = <<InHand(t).name>>
  /\ t.step = "add" => Placed(InHand(t).name, InHand(t).addr, ToldUntil) \/ Aimed(t, InHand(t).name)

Routed(k) ==
  \E n \in Names : k.names = {n} /\ k.until \in Nat /\ k.until <= ToldUntil /\ Good(n, k.addr, k.until)

HeldGood == \A k \in held : Routed(k)

NoAliases == \A n \in Names : aliases[n] = None

RoutedInv ==
  /\ NoAliases /\ ModesApart /\ UpTogether /\ TrieIsFull /\ HostsStay
  /\ \A h \in Handlers : TaskGood(task[h])
  /\ HeldGood

--------------------------------------------------------------------------------
(* Numbers and lookups *)

LEMMA CapIs ==
  ASSUME CapOK, TypesInv
  PROVE  /\ now \in Nat /\ ToldUntil \in Nat /\ ToldUntil > now /\ ToldUntil < Forever
         /\ ClientTTLCap \in Nat /\ ClientTTLCap <= MaxTimeout
BY Bounds, TtlAssumption DEF CapOK, TypesInv, ToldUntil, MaxTimeout

LEMMA OwnerIs ==
  ASSUME NEW n \in Names, Owner(n) # None
  PROVE  Owner(n) \in Groups /\ up[Owner(n)] /\ Matches(Owner(n), n)
<1> DEFINE S == {x \in UpGroups : n \in rules[x].names}
           P == {x \in UpGroups : n \in rules[x].patterns}
<1>1. First(S) \in S \cup {None} /\ First(P) \in P \cup {None}
  <2>1. S \subseteq Groups /\ P \subseteq Groups
    BY DEF UpGroups
  <2> HIDE DEF S, P
  <2> QED BY <2>1, FirstIn
<1>2. Owner(n) = IF First(S) # None THEN First(S) ELSE First(P)
  BY DEF Owner, searchFallback
<1>3. Owner(n) \in S \cup P
  BY <1>1, <1>2
<1> QED BY <1>3 DEF UpGroups, Matches

LEMMA AllUp ==
  ASSUME UpTogether, active, edit.step \notin {"mutate", "enable"}
  PROVE  UpGroups = Groups /\ BuiltTrie = FullTrie
<1>1. UpGroups = Groups
  BY DEF UpTogether, UpGroups
<1> QED BY <1>1 DEF BuiltTrie, FullTrie

(* Whenever a handler may look a name up, it finds its owner.                *)
LEMMA SearchIsOwner ==
  ASSUME TypesInv, UpTogether, TrieIsFull, edit.step = "idle", NEW n \in Names
  PROVE  searchDomain(n) = Owner(n)
<1> DEFINE S == {x \in UpGroups : n \in rules[x].names}
<1>1. CASE active
  <2>1. UpGroups = Groups /\ trie = BuiltTrie
    BY <1>1, AllUp DEF TrieIsFull
  <2>2. trie[n] = First(S)
    BY <2>1 DEF BuiltTrie
  <2>3. First(S) \in Groups \cup {None}
    BY <2>1, FirstIn
  <2> QED BY <2>1, <2>2, <2>3 DEF searchDomain, Owner
<1>2. CASE ~active
  <2>1. UpGroups = {}
    BY <1>2 DEF UpTogether, UpGroups
  <2>2. S = {} /\ {x \in UpGroups : n \in rules[x].patterns} = {}
    BY <2>1
  <2>3. searchFallback(n) = None /\ First(S) = None
    BY <2>2 DEF searchFallback, First
  <2> QED BY <2>1, <2>3 DEF searchDomain, Owner
<1> QED BY <1>1, <1>2

(* Without aliases a name stands for itself.                                 *)
LEMMA OwnAddresses ==
  ASSUME NoAliases, NEW name \in Names
  PROVE  GetAddresses(name) = {<<a, addresses[name][a]>> : a \in Valid(name)}
<1> DEFINE c == Cardinality(Names)
<1>0. c \in Nat
  BY SequenceAssumption, FS_CardinalityType
<1> DEFINE f == CHOOSE f : Walks(f, name, c)
<1>1. Walks(f, name, c)
  <2> HIDE DEF c
  <2> QED BY <1>0, WalkExists
<1>2. GetAddresses(name) = {<<a, addresses[f[c]][a]>> : a \in Valid(f[c])}
  BY DEF GetAddresses, Walks, Onward
<1> HIDE DEF f, c
<1> DEFINE I == {k \in Nat : k <= c => f[k] = name}
<1>3. 0 \in I
  BY <1>0, <1>1 DEF Walks
<1>4. ASSUME NEW k \in Nat, k \in I PROVE k + 1 \in I
  <2> SUFFICES ASSUME k + 1 <= c PROVE f[k + 1] = name
    OBVIOUS
  <2>1. f[k] = name
    BY <1>0, <1>4
  <2>2. f[k + 1] = Onward(f[k])
    BY <1>0, <1>1 DEF Walks
  <2> QED BY <2>1, <2>2 DEF Onward, NoAliases
<1>5. Nat \subseteq I
  <2> HIDE DEF I
  <2> QED BY <1>3, <1>4, NatSetInduction
<1>6. f[c] = name
  BY <1>0, <1>5
<1> QED BY <1>2, <1>6

LEMMA OwnAlias ==
  ASSUME NoAliases, NEW name \in Names, NEW s \in GetAliases(name)
  PROVE  s = <<name>>
<1> DEFINE c == Cardinality(Names)
<1>0. c \in Nat
  BY SequenceAssumption, FS_CardinalityType
<1> DEFINE f == CHOOSE f : Reaches(f, name, c)
<1>1. Reaches(f, name, c)
  <2> HIDE DEF c
  <2> QED BY <1>0, ReachExists
<1>2. DOMAIN AliasLevel(name) = f[c]
  BY DEF AliasLevel, Reaches, Farther
<1> HIDE DEF f, c
<1> DEFINE I == {k \in Nat : k <= c => f[k] = {name}}
<1>3. 0 \in I
  BY <1>0, <1>1 DEF Reaches
<1>4. ASSUME NEW k \in Nat, k \in I PROVE k + 1 \in I
  <2> SUFFICES ASSUME k + 1 <= c PROVE f[k + 1] = {name}
    OBVIOUS
  <2>1. f[k] = {name}
    BY <1>0, <1>4
  <2>2. f[k + 1] = Farther(f[k])
    <3>1. k + 1 \in 0 .. c /\ k + 1 # 0 /\ (k + 1) - 1 = k
      BY <1>0
    <3> HIDE DEF I
    <3> QED BY <1>1, <3>1 DEF Reaches
  <2>3. Pointing({name}) = {}
    BY DEF Pointing, NoAliases
  <2> QED BY <2>1, <2>2, <2>3 DEF Farther
<1>5. Nat \subseteq I
  <2> HIDE DEF I
  <2> QED BY <1>3, <1>4, NatSetInduction
<1>6. f[c] = {name}
  BY <1>0, <1>5
<1>7. s \in [1 .. Cardinality({name}) -> {name}]
  BY <1>2, <1>6 DEF GetAliases
<1>8. Cardinality({name}) = 1
  BY FS_Singleton
<1>9. s \in [1 .. 1 -> {name}]
  BY <1>7, <1>8
<1> QED BY <1>9

--------------------------------------------------------------------------------
(* What a sync does for the names of a group *)

LEMMA DesiredReaches ==
  ASSUME CacheOK, NoAliases, now \in Nat, NEW g \in Groups, NEW n \in Names, Matches(g, n),
         NEW a \in Addrs, addresses[n][a] > now
  PROVE  desiredSubnets(g)[a] >= addresses[n][a]
<1>0. addresses[n][a] \in 0 .. Forever - 1
  BY DEF CacheOK
<1>1. CASE a \in rules[g].statics
  <2>1. desiredSubnets(g)[a] = Forever
    BY <1>1, DesiredIs
  <2> QED BY <1>0, <2>1, Bounds
<1>2. CASE a \notin rules[g].statics
  <2> DEFINE Q == {q \in UNION {GetAddresses(m) : m \in {m \in Names : Matches(g, m)}} : q[1] = a /\ q[2] > now}
             S == {0} \cup {p[2] : p \in Q}
             q0 == <<a, addresses[n][a]>>
  <2>1. desiredSubnets(g)[a] = Largest(S)
    BY <1>2 DEF desiredSubnets
  <2>2. \A q \in Q : q \in Known \X (1 .. Forever - 1)
    BY AddressesFound
  <2>3. \A q \in Q : q[2] \in 0 .. Forever - 1
    BY <2>2, Bounds
  <2>4. q0 \in GetAddresses(n)
    <3>1. a \in Valid(n)
      BY <1>0 DEF Valid
    <3> QED BY <3>1, OwnAddresses
  <2>5. q0 \in Q
    <3>1. GetAddresses(n) \in {GetAddresses(m) : m \in {m \in Names : Matches(g, m)}}
      OBVIOUS
    <3>2. q0 \in UNION {GetAddresses(m) : m \in {m \in Names : Matches(g, m)}}
      BY <2>4, <3>1
    <3>3. q0[1] = a /\ q0[2] > now
      OBVIOUS
    <3> QED BY <3>2, <3>3
  <2>6. q0[2] \in S /\ q0[2] = addresses[n][a]
    BY <2>5
  <2> HIDE DEF Q, q0
  <2>7. S \subseteq 0 .. Forever - 1 /\ Forever - 1 \in Nat
    BY <2>3, Bounds
  <2> HIDE DEF S
  <2>8. \A y \in S : y <= Largest(S)
    BY <2>6, <2>7, LargestIs
  <2> QED BY <2>1, <2>6, <2>7, <2>8, LargestIs
<1> QED BY <1>1, <1>2

LEMMA SyncPlaces ==
  ASSUME TypesInv, NEW g \in Groups, Sync(g), up[g]
  PROVE  /\ \A a \in Addrs : ipset'[g][a] >= desiredSubnets(g)[a] /\ ipset'[g][a] \in Deadlines
         /\ \A a \in Addrs : a \in hosts'[g] => ipset'[g][a] = Forever
         /\ \A x \in Groups \ {g} : ipset'[x] = ipset[x] /\ hosts'[x] = hosts[x]
<1>1. CacheOK /\ GroupsOK /\ RulesOK /\ now \in Nat
  BY DEF TypesInv
<1>2. /\ ipset' = [ipset EXCEPT ![g] = Synced(g)]
      /\ hosts' = [hosts EXCEPT ![g] = rules[g].statics]
  BY DEF Sync
<1>3. /\ ipset'[g] = Synced(g) /\ hosts'[g] = rules[g].statics
      /\ \A x \in Groups \ {g} : ipset'[x] = ipset[x] /\ hosts'[x] = hosts[x]
  BY <1>1, <1>2 DEF GroupsOK
<1>4. ASSUME NEW a \in Addrs
      PROVE  /\ Synced(g)[a] >= desiredSubnets(g)[a] /\ Synced(g)[a] \in Deadlines
             /\ a \in rules[g].statics => Synced(g)[a] = Forever
  <2> DEFINE d == desiredSubnets(g)[a]
             e == ipset[g][a]
  <2>1. d \in Deadlines /\ (a \in rules[g].statics => d = Forever)
    BY <1>1, DesiredIs
  <2>2. e \in Deadlines
    BY <1>1 DEF GroupsOK
  <2>3. Synced(g)[a] = IF d = 0 THEN 0 ELSE Largest({e, d})
    BY DEF Synced
  <2>4. Synced(g)[a] \in Deadlines
    BY <1>1, SyncedIs
  <2> HIDE DEF d, e
  <2>5. \A y \in {e, d} : y <= Largest({e, d})
    <3>1. {e, d} \subseteq 0 .. Forever
      BY <2>1, <2>2 DEF Deadlines
    <3> QED BY <3>1, Bounds, LargestIs
  <2>6. Synced(g)[a] >= d
    BY <2>1, <2>3, <2>5 DEF Deadlines
  <2>7. a \in rules[g].statics => Synced(g)[a] = Forever
    BY <2>1, <2>4, <2>6, Bounds DEF Deadlines
  <2> QED BY <2>4, <2>6, <2>7 DEF d
<1> QED BY <1>3, <1>4

--------------------------------------------------------------------------------
(* What a step keeps *)

(* What was good before a step is good after it.                             *)
KeepsGood ==
  \A n \in Names, a \in Addrs, u \in Nat :
    now < u /\ u <= ToldUntil /\ addresses[n][a] >= u =>
      /\ addresses'[n][a] >= u
      /\ Placed(n, a, u) => Placed(n, a, u)'

NothingRests == \A g \in Groups : ~Resting(g)

(* A handler that has found a group has found the owner, or the group will   *)
(* be synced.                                                                *)
KeepsAim == UNCHANGED <<rules, up, object>> \/ NothingRests'

OwnersAreGroups ==
  \A n \in Names : Owner(n) # None => Owner(n) \in Groups /\ up[Owner(n)] /\ Matches(Owner(n), n)

LEMMA Owners == OwnersAreGroups
BY OwnerIs DEF OwnersAreGroups

LEMMA OwnersNext == OwnersAreGroups'
BY Owners, PTL

LEMMA SameOwner ==
  ASSUME UNCHANGED <<rules, up>>
  PROVE  FullTrie' = FullTrie /\ \A n \in Names : Owner(n)' = Owner(n)
BY DEF FullTrie, Owner, UpGroups, First, searchFallback

LEMMA UnsyncedIsPlaced ==
  ASSUME NothingRests', NEW n \in Names, NEW a, NEW u
  PROVE  Placed(n, a, u)'
BY OwnersNext DEF NothingRests, Placed, OwnersAreGroups

LEMMA NoneRestKeeps ==
  ASSUME NothingRests', addresses' = addresses
  PROVE  KeepsGood /\ HostsStay'
<1>1. KeepsGood
  BY UnsyncedIsPlaced DEF KeepsGood
<1> QED BY <1>1 DEF HostsStay, NothingRests

LEMMA QuietKeeps ==
  ASSUME HostsStay, UNCHANGED <<addresses, ipset, rules, up, hosts>>, \A g \in Groups : Resting(g)' => Resting(g)
  PROVE  KeepsGood /\ HostsStay'
<1>1. KeepsGood
  <2>1. ASSUME NEW n \in Names, NEW a, NEW u, Placed(n, a, u)
        PROVE  Placed(n, a, u)'
    BY <2>1, SameOwner, Owners DEF Placed, OwnersAreGroups
  <2> QED BY <2>1 DEF KeepsGood
<1>2. HostsStay'
  BY DEF HostsStay, Forever
<1> QED BY <1>1, <1>2

LEMMA SyncKeeps ==
  ASSUME CapOK, TypesInv, RoutedInv, NEW g \in Groups, Sync(g), up[g], UNCHANGED <<addresses, rules, up>>,
         \A x \in Groups \ {g} : Resting(x)' => Resting(x)
  PROVE  KeepsGood /\ HostsStay'
<1>1. /\ \A a \in Addrs : ipset'[g][a] >= desiredSubnets(g)[a] /\ ipset'[g][a] \in Deadlines
      /\ \A a \in Addrs : a \in hosts'[g] => ipset'[g][a] = Forever
      /\ \A x \in Groups \ {g} : ipset'[x] = ipset[x] /\ hosts'[x] = hosts[x]
  BY SyncPlaces
<1>2. HostsStay'
  BY <1>1 DEF HostsStay, RoutedInv, Forever
<1>3. ASSUME NEW n \in Names, NEW a \in Addrs, NEW u \in Nat, now < u, u <= ToldUntil, addresses[n][a] >= u,
             Placed(n, a, u)
      PROVE  Placed(n, a, u)'
  <2>1. Owner(n)' = Owner(n)
    BY SameOwner
  <2> SUFFICES ASSUME Owner(n) # None, Resting(Owner(n))' PROVE ipset'[Owner(n)][a] >= u
    BY <2>1 DEF Placed
  <2>2. Owner(n) \in Groups /\ Matches(Owner(n), n)
    BY OwnerIs
  <2>3. CASE Owner(n) = g
    <3>1. CacheOK /\ now \in Nat /\ NoAliases
      BY DEF TypesInv, RoutedInv
    <3>2. addresses[n][a] \in Nat
      BY <3>1, Bounds DEF CacheOK
    <3>3. addresses[n][a] > now
      BY <1>3, <3>1, <3>2
    <3>4. desiredSubnets(g)[a] >= addresses[n][a]
      BY <2>2, <2>3, <3>1, <3>3, DesiredReaches
    <3>5. desiredSubnets(g)[a] \in Nat
      BY <3>1, DesiredIs, Bounds DEF Deadlines
    <3>6. ipset'[g][a] \in Nat /\ ipset'[g][a] >= desiredSubnets(g)[a]
      BY <1>1, Bounds DEF Deadlines
    <3>7. ipset'[g][a] >= u
      BY <1>3, <3>2, <3>4, <3>5, <3>6
    <3> QED BY <2>3, <3>7
  <2>4. CASE Owner(n) # g
    <3>1. PICK o \in Groups \ {g} : o = Owner(n)
      BY <2>2, <2>4
    <3>2. Resting(o)'
      BY <2>1, <3>1 DEF Resting, Ahead
    <3>3. Resting(o)
      BY <3>2
    <3>4. Resting(Owner(n))
      BY <3>1, <3>3
    <3>5. ipset[o][a] >= u /\ ipset'[o] = ipset[o]
      BY <1>1, <1>3, <3>1, <3>4 DEF Placed
    <3> QED BY <3>1, <3>5
  <2> QED BY <2>3, <2>4
<1>4. KeepsGood
  BY <1>3 DEF KeepsGood
<1> QED BY <1>2, <1>4

(* The records of an answer that a handler is working on.                    *)
LEMMA AnswerRecords ==
  ASSUME Direct, NEW m \in Answers, NEW r \in Records(m)
  PROVE  r \in KnownRecords /\ r.type = "A" /\ r.name \in Names /\ r.addr \in Addrs /\ r.ttl \in Nat
<1>1. r \in KnownRecords /\ r.type = "A"
  BY DEF KnownRecords, Direct
<1> QED BY <1>1, KnownIs

LEMMA InHandIs ==
  ASSUME Direct, NEW t, TaskOK(t), TaskGood(t), t.step \notin {"idle", "deliver"}
  PROVE  /\ t.answer \in Answers /\ InHand(t) \in Records(t.answer) /\ InHand(t) \in Records(t.rest)
         /\ Records(t.rest) = {InHand(t)} \cup Records(Tail(t.rest))
         /\ InHand(t) \in KnownRecords /\ InHand(t).type = "A"
         /\ InHand(t).name \in Names /\ InHand(t).addr \in Addrs /\ InHand(t).ttl \in Nat
<1>1. t.answer \in Answers /\ Records(t.rest) \subseteq Records(t.answer)
  BY DEF TaskGood
<1>2. t.rest \in Seq(KnownRecords) /\ t.rest # <<>>
  BY DEF TaskOK, Tasks
<1> DEFINE s == t.rest
<1>3. s \in Seq(KnownRecords) /\ s # <<>>
  BY <1>2
<1> HIDE DEF s
<1>4. /\ Head(s) = s[1] /\ Len(s) \in Nat /\ Len(s) >= 1
      /\ Tail(s) \in Seq(KnownRecords) /\ Len(Tail(s)) = Len(s) - 1
      /\ \A i \in 1 .. Len(s) - 1 : Tail(s)[i] = s[i + 1]
  BY <1>3
<1>5. Records(s) = {Head(s)} \cup Records(Tail(s))
  <2>1. ASSUME NEW i \in DOMAIN s PROVE s[i] \in {Head(s)} \cup Records(Tail(s))
    <3>1. i \in 1 .. Len(s)
      BY <1>3
    <3>2. CASE i = 1
      BY <1>4, <3>2
    <3>3. CASE i # 1
      <4>1. i - 1 \in 1 .. Len(s) - 1 /\ s[i] = Tail(s)[i - 1]
        BY <1>4, <3>1, <3>3
      <4>2. i - 1 \in DOMAIN Tail(s)
        BY <1>4, <4>1
      <4> QED BY <4>1, <4>2 DEF Records
    <3> QED BY <3>2, <3>3
  <2>2. 1 \in DOMAIN s
    BY <1>3, <1>4
  <2>3. ASSUME NEW i \in DOMAIN Tail(s) PROVE Tail(s)[i] \in Records(s)
    <3>1. i \in 1 .. Len(s) - 1
      BY <1>4
    <3>2. i + 1 \in DOMAIN s
      BY <1>3, <1>4, <3>1
    <3> QED BY <1>4, <3>1, <3>2 DEF Records
  <2> QED BY <1>4, <2>1, <2>2, <2>3 DEF Records
<1>6. InHand(t) = Head(s) /\ Records(t.rest) = Records(s) /\ Tail(t.rest) = Tail(s)
  BY DEF InHand, s
<1>7. InHand(t) \in Records(t.rest) /\ InHand(t) \in Records(t.answer)
  BY <1>1, <1>5, <1>6
<1> QED BY <1>1, <1>5, <1>6, <1>7, AnswerRecords

LEMMA TaskKept ==
  ASSUME CapOK, Direct, TypesInv, NEW h \in Handlers, TaskGood(task[h]), task'[h] = task[h], now' = now,
         KeepsGood, KeepsAim
  PROVE  TaskGood(task[h])'
<1> DEFINE t == task[h]
<1>1. TaskOK(t)
  BY DEF TypesInv, TasksOK
<1>2. PICK u \in Nat : u = ToldUntil
  BY CapIs
<1>3. now < u /\ u <= ToldUntil /\ ToldUntil' = u
  BY <1>2, CapIs DEF ToldUntil
<1>4. ASSUME t.step # "idle", NEW r \in Records(t.answer), Good(r.name, r.addr, u) PROVE Good(r.name, r.addr, u)'
  <2>1. r.name \in Names /\ r.addr \in Addrs
    BY <1>4, AnswerRecords DEF TaskGood
  <2> QED BY <1>3, <1>4, <2>1 DEF Good, KeepsGood
<1>5. ASSUME t.step \in {"aliases", "search", "add"} PROVE Searching(task[h])'
  <2>1. InHand(t).name \in Names /\ InHand(t).addr \in Addrs /\ Searching(t)
    BY <1>1, <1>5, InHandIs DEF TaskGood
  <2>2. addresses'[InHand(t).name][InHand(t).addr] >= u
    BY <1>2, <1>3, <2>1 DEF KeepsGood, Searching
  <2> QED BY <1>3, <2>1, <2>2 DEF Searching, InHand
<1>6. ASSUME t.step = "add"
      PROVE  Placed(InHand(task[h]).name, InHand(task[h]).addr, ToldUntil)' \/ Aimed(task[h], InHand(task[h]).name)'
  <2>1. PICK r \in KnownRecords : r = InHand(t) /\ r.name \in Names /\ r.addr \in Addrs
    BY <1>1, <1>6, InHandIs
  <2>2. Searching(t) /\ (Placed(r.name, r.addr, u) \/ Aimed(t, r.name))
    BY <1>2, <1>6, <2>1 DEF TaskGood
  <2>3. Placed(r.name, r.addr, u)' \/ Aimed(task[h], r.name)'
    <3>1. CASE Placed(r.name, r.addr, u)
      <4>1. addresses[r.name][r.addr] >= u
        BY <1>2, <2>1, <2>2 DEF Searching
      <4> QED BY <1>3, <2>1, <3>1, <4>1 DEF KeepsGood
    <3>2. CASE Aimed(t, r.name) /\ UNCHANGED <<rules, up, object>>
      BY <2>1, <3>2, SameOwner DEF Aimed
    <3>3. CASE NothingRests'
      BY <2>1, <3>3, UnsyncedIsPlaced
    <3> QED BY <2>2, <3>1, <3>2, <3>3 DEF KeepsAim
  <2>4. InHand(task[h])' = r
    BY <2>1 DEF InHand
  <2> QED BY <1>3, <2>3, <2>4 DEF Placed, Aimed
<1> QED BY <1>2, <1>3, <1>4, <1>5, <1>6 DEF TaskGood, InHand, Good, Placed

LEMMA HeldKept ==
  ASSUME CapOK, TypesInv, HeldGood, KeepsGood, now' = now
  PROVE  \A k \in held : Routed(k)'
<1> TAKE k \in held
<1>1. PICK n \in Names : k.names = {n} /\ k.until \in Nat /\ k.until <= ToldUntil /\ Good(n, k.addr, k.until)
  BY DEF HeldGood, Routed
<1>2. k.addr \in Addrs /\ k.until > now
  BY DEF TypesInv, HeldOK
<1>3. now < k.until
  BY <1>1, <1>2, CapIs
<1>4. Good(n, k.addr, k.until)'
  BY <1>1, <1>2, <1>3 DEF Good, KeepsGood
<1>5. ToldUntil' = ToldUntil
  BY DEF ToldUntil
<1> QED BY <1>1, <1>4, <1>5 DEF Routed

(* A step of an edit or of the lifecycle.                                    *)
LEMMA RestKept ==
  ASSUME CapOK, Direct, TypesInv, RoutedInv, KeepsGood, KeepsAim, HostsStay', ModesApart', UpTogether', TrieIsFull',
         UNCHANGED <<now, aliases, task, held>>
  PROVE  RoutedInv'
<1>1. \A h \in Handlers : TaskGood(task[h])'
  BY TaskKept DEF RoutedInv
<1>2. HeldGood'
  BY HeldKept DEF RoutedInv, HeldGood
<1> QED BY <1>1, <1>2 DEF RoutedInv, NoAliases

(* A step of a handler.                                                      *)
LEMMA HandlerKept ==
  ASSUME CapOK, Direct, TypesInv, RoutedInv, KeepsGood, HostsStay', NEW h \in Handlers, NEW t, Goto(h, t),
         TaskGood(task[h])', HeldGood',
         UNCHANGED <<now, aliases, rules, trie, active, up, object, edit, life>>
  PROVE  RoutedInv'
<1>1. \A x \in Handlers \ {h} : task'[x] = task[x]
  BY DEF Goto, TypesInv, TasksOK
<1>2. \A x \in Handlers \ {h} : TaskGood(task[x])'
  BY <1>1, TaskKept DEF RoutedInv, KeepsAim
<1>3. TrieIsFull'
  BY SameOwner DEF RoutedInv, TrieIsFull
<1> QED BY <1>2, <1>3 DEF RoutedInv, NoAliases, ModesApart, UpTogether

--------------------------------------------------------------------------------
(* Handlers *)

LEMMA TTLReaches ==
  ASSUME NEW ttl \in Nat
  PROVE  ipsetTTLFromRecord(ttl) >= AdditionalTTL
<1>1. Smallest({ttl, MaxRecordTTL}) \in {ttl, MaxRecordTTL}
  BY SmallestIs, TtlAssumption
<1> DEFINE s == Smallest({ttl, MaxRecordTTL})
           e == s + AdditionalTTL
<1>2. s \in Nat
  BY <1>1, TtlAssumption
<1> HIDE DEF s
<1>3. e \in Nat /\ e >= AdditionalTTL
  BY <1>2, TtlAssumption
<1>4. ipsetTTLFromRecord(ttl) = Largest({1, e})
  BY DEF ipsetTTLFromRecord, s
<1> HIDE DEF e
<1>5. {1, e} \subseteq 0 .. e + 1 /\ e + 1 \in Nat
  BY <1>3
<1>6. Largest({1, e}) \in {1, e} /\ e <= Largest({1, e})
  BY <1>5, LargestIs
<1> QED BY <1>3, <1>4, <1>6, TtlAssumption

LEMMA SamePlaces ==
  ASSUME UNCHANGED <<ipset, rules, up, active, edit, life>>
  PROVE  /\ \A n \in Names : \A a, u : Placed(n, a, u)' <=> Placed(n, a, u)
         /\ \A g \in Groups : Resting(g)' <=> Resting(g)
<1>1. \A g : Resting(g)' <=> Resting(g)
  BY DEF Resting, Ahead
<1> QED BY <1>1, SameOwner DEF Placed

LEMMA CarriedGood ==
  ASSUME CapOK, Direct, TypesInv, NEW h \in Handlers, TaskGood(task[h]), task[h].step # "idle", KeepsGood, now' = now
  PROVE  \A r \in Records(task[h].answer) : r \in Records(task[h].rest) \/ Good(r.name, r.addr, ToldUntil)'
<1> TAKE r \in Records(task[h].answer)
<1>1. PICK u \in Nat : u = ToldUntil
  BY CapIs
<1>2. now < u /\ u <= ToldUntil /\ ToldUntil' = u
  BY <1>1, CapIs DEF ToldUntil
<1>3. r.name \in Names /\ r.addr \in Addrs
  BY AnswerRecords DEF TaskGood
<1> SUFFICES ASSUME r \notin Records(task[h].rest) PROVE Good(r.name, r.addr, ToldUntil)'
  OBVIOUS
<1>4. Good(r.name, r.addr, u)
  BY <1>1 DEF TaskGood
<1>5. Good(r.name, r.addr, u)'
  BY <1>2, <1>3, <1>4 DEF Good, KeepsGood
<1> QED BY <1>2, <1>5 DEF Good, Placed

LEMMA NextGood ==
  ASSUME CapOK, Direct, TypesInv, NEW h \in Handlers, TaskGood(task[h]), task[h].step \in {"search", "add"},
         NEW r \in KnownRecords, r = InHand(task[h]), KeepsGood, now' = now, Good(r.name, r.addr, ToldUntil)',
         task'[h].rest = Tail(task[h].rest), task'[h].answer = task[h].answer,
         task'[h].step = IF Len(task[h].rest) > 1 THEN "store" ELSE "deliver"
  PROVE  TaskGood(task[h])'
<1> DEFINE t == task[h]
<1>1. TaskOK(t)
  BY DEF TypesInv, TasksOK
<1>2. /\ t.answer \in Answers /\ Records(t.rest) = {r} \cup Records(Tail(t.rest))
      /\ Records(t.rest) \subseteq Records(t.answer)
  BY <1>1, InHandIs DEF TaskGood
<1>3. \A x \in Records(t.answer) : x \in Records(t.rest) \/ Good(x.name, x.addr, ToldUntil)'
  BY CarriedGood
<1>4. \A x \in Records(t.answer) : x \in Records(Tail(t.rest)) \/ Good(x.name, x.addr, ToldUntil)'
  BY <1>2, <1>3
<1>5. ASSUME ~(Len(t.rest) > 1) PROVE Records(Tail(t.rest)) = {}
  <2>1. t.rest \in Seq(KnownRecords) /\ t.rest # <<>>
    BY <1>1 DEF TaskOK, Tasks
  <2> DEFINE s == t.rest
  <2>2. s \in Seq(KnownRecords) /\ s # <<>> /\ ~(Len(s) > 1)
    BY <1>5, <2>1
  <2> HIDE DEF s
  <2>3. PICK c \in Nat : c = Len(s)
    BY <2>2
  <2>4. c # 0 /\ ~(c > 1)
    BY <2>2, <2>3
  <2>5. c = 1
    BY <2>4
  <2>6. Tail(s) \in Seq(KnownRecords) /\ Len(Tail(s)) = 0
    <3>1. Tail(s) \in Seq(KnownRecords) /\ Len(Tail(s)) = Len(s) - 1
      BY <2>2
    <3> QED BY <2>3, <2>5, <3>1
  <2> DEFINE e == Tail(s)
  <2>7. e \in Seq(KnownRecords) /\ Len(e) = 0
    BY <2>6
  <2> HIDE DEF e
  <2>8. \A i \in DOMAIN e : FALSE
    BY <2>7
  <2>9. Records(e) = {}
    BY <2>8 DEF Records
  <2> QED BY <2>9 DEF s, e
<1> QED BY <1>2, <1>4, <1>5 DEF TaskGood

LEMMA ReceiveRouted ==
  ASSUME CapOK, Direct, TypesInv, RoutedInv, NEW h \in Handlers, Receive(h)
  PROVE  RoutedInv'
<1>1. PICK m \in Answers : Goto(h, [Idle EXCEPT !.step = "store", !.answer = m, !.rest = m])
  BY Zenon DEF Receive
<1>2. UNCHANGED <<now, addresses, aliases, rules, trie, active, up, object, hosts, ipset, edit, life, held>>
  BY DEF Receive, cache, kernel
<1>3. KeepsGood /\ HostsStay'
  BY <1>2, QuietKeeps, SamePlaces DEF RoutedInv
<1>4. task'[h].step = "store" /\ task'[h].answer = m /\ task'[h].rest = m
  BY <1>1 DEF Goto, Idle, TypesInv, TasksOK
<1>5. TaskGood(task[h])'
  BY <1>4 DEF TaskGood
<1>6. HeldGood'
  BY <1>2, <1>3, HeldKept DEF RoutedInv, HeldGood
<1> QED BY <1>1, <1>2, <1>3, <1>5, <1>6, HandlerKept

LEMMA StoreRouted ==
  ASSUME CapOK, Direct, TypesInv, RoutedInv, NEW h \in Handlers, StoreRecord(h)
  PROVE  RoutedInv'
<1> DEFINE t == task[h]
<1>1. TaskOK(t) /\ TaskGood(t) /\ t.step = "store" /\ t \in Tasks
  BY DEF TypesInv, TasksOK, TaskOK, RoutedInv, StoreRecord, Going
<1>2. PICK r \in KnownRecords : r = InHand(t) /\ r.type = "A" /\ r.name \in Names /\ r.addr \in Addrs /\ r.ttl \in Nat
  BY <1>1, InHandIs
<1>3. PICK ttl \in 1 .. MaxTimeout : ttl = ipsetTTLFromRecord(r.ttl) /\ ttl >= AdditionalTTL
  BY <1>2, RecordTTL, TTLReaches
<1>4. /\ addresses' = [addresses EXCEPT ![r.name][r.addr] = now + ttl]
      /\ Goto(h, [t EXCEPT !.step = "aliases", !.addrs = {<<r.addr, ttl>>}])
      /\ UNCHANGED aliases
  BY <1>2, <1>3 DEF StoreRecord, AddAddress, InHand
<1>5. UNCHANGED <<now, aliases, rules, trie, active, up, object, hosts, ipset, edit, life, held>>
  BY <1>4 DEF StoreRecord, kernel
<1>6. \A n \in Names, a \in Addrs :
        addresses'[n][a] = IF n = r.name /\ a = r.addr THEN now + ttl ELSE addresses[n][a]
  BY <1>2, <1>4 DEF TypesInv, CacheOK
<1>7. now + ttl >= ToldUntil /\ now + ttl \in Nat /\ ToldUntil \in Nat
  BY <1>3, CapIs, TtlAssumption DEF CapOK, ToldUntil
<1>8. KeepsGood /\ HostsStay'
  <2>1. KeepsGood
    BY <1>5, <1>6, <1>7, SamePlaces DEF KeepsGood
  <2>2. HostsStay'
    BY <1>5, SamePlaces DEF RoutedInv, HostsStay, Forever
  <2> QED BY <2>1, <2>2
<1>9. task'[h] = [t EXCEPT !.step = "aliases", !.addrs = {<<r.addr, ttl>>}]
  BY <1>4 DEF Goto, TypesInv, TasksOK
<1>10. /\ task'[h].step = "aliases" /\ task'[h].addrs = {<<r.addr, ttl>>}
       /\ task'[h].answer = t.answer /\ task'[h].rest = t.rest
  BY <1>1, <1>9 DEF Tasks
<1>11. TaskGood(task[h])'
  <2>1. Searching(task[h])'
    <3>1. InHand(task[h])' = r
      BY <1>2, <1>10 DEF InHand
    <3>2. addresses'[r.name][r.addr] >= ToldUntil'
      BY <1>2, <1>5, <1>6, <1>7 DEF ToldUntil
    <3>3. ttl \in AdditionalTTL .. MaxTimeout /\ ttl > 0
      BY <1>3, TtlAssumption, Bounds
    <3> QED BY <1>10, <3>1, <3>2, <3>3 DEF Searching
  <2>2. \A x \in Records(t.answer) : x \in Records(t.rest) \/ Good(x.name, x.addr, ToldUntil)'
    BY <1>1, <1>5, <1>8, CarriedGood
  <2> QED BY <1>1, <1>10, <2>1, <2>2 DEF TaskGood
<1>12. HeldGood'
  BY <1>5, <1>8, HeldKept DEF RoutedInv, HeldGood
<1> QED BY <1>4, <1>5, <1>8, <1>11, <1>12, HandlerKept

LEMMA ReadAliasesRouted ==
  ASSUME CapOK, Direct, TypesInv, RoutedInv, NEW h \in Handlers, ReadAliases(h)
  PROVE  RoutedInv'
<1> DEFINE t == task[h]
<1>1. TaskOK(t) /\ TaskGood(t) /\ t.step = "aliases" /\ t \in Tasks
  BY DEF TypesInv, TasksOK, TaskOK, RoutedInv, ReadAliases, Going
<1>2. InHand(t).name \in Names /\ Searching(t)
  BY <1>1, InHandIs DEF TaskGood
<1>3. PICK s \in GetAliases(InHand(t).name) : Goto(h, [t EXCEPT !.step = "search", !.names = s])
  BY Zenon DEF ReadAliases, InHand
<1>4. s = <<InHand(t).name>>
  BY <1>2, <1>3, OwnAlias DEF RoutedInv
<1>5. UNCHANGED <<now, addresses, aliases, rules, trie, active, up, object, hosts, ipset, edit, life, held>>
  BY DEF ReadAliases, cache, kernel
<1>6. KeepsGood /\ HostsStay'
  BY <1>5, QuietKeeps, SamePlaces DEF RoutedInv
<1>7. task'[h] = [t EXCEPT !.step = "search", !.names = s]
  BY <1>3 DEF Goto, TypesInv, TasksOK
<1>8. /\ task'[h].step = "search" /\ task'[h].names = <<InHand(t).name>> /\ task'[h].addrs = t.addrs
      /\ task'[h].answer = t.answer /\ task'[h].rest = t.rest
  BY <1>1, <1>4, <1>7 DEF Tasks
<1>9. TaskGood(task[h])'
  <2>1. InHand(task[h])' = InHand(t)
    BY <1>8 DEF InHand
  <2>2. Searching(task[h])'
    BY <1>2, <1>5, <1>8, <2>1 DEF Searching, ToldUntil
  <2>3. \A x \in Records(t.answer) : x \in Records(t.rest) \/ Good(x.name, x.addr, ToldUntil)'
    BY <1>1, <1>5, <1>6, CarriedGood
  <2> QED BY <1>1, <1>8, <2>1, <2>2, <2>3 DEF TaskGood
<1>10. HeldGood'
  BY <1>5, <1>6, HeldKept DEF RoutedInv, HeldGood
<1> QED BY <1>3, <1>5, <1>6, <1>9, <1>10, HandlerKept

LEMMA NextFields ==
  ASSUME NEW t \in Tasks
  PROVE  /\ NextRecord(t).rest = Tail(t.rest) /\ NextRecord(t).answer = t.answer
         /\ NextRecord(t).step = IF Len(t.rest) > 1 THEN "store" ELSE "deliver"
BY DEF NextRecord, Tasks

LEMMA SearchRouted ==
  ASSUME CapOK, Direct, TypesInv, RoutedInv, NEW h \in Handlers, SearchName(h)
  PROVE  RoutedInv'
<1> DEFINE t == task[h]
<1>1. TaskOK(t) /\ TaskGood(t) /\ t.step = "search" /\ t \in Tasks
  BY DEF TypesInv, TasksOK, TaskOK, RoutedInv, SearchName, Going
<1>2. PICK r \in KnownRecords : r = InHand(t) /\ r.name \in Names /\ r.addr \in Addrs
  BY <1>1, InHandIs
<1>3. Searching(t) /\ t.names = <<r.name>> /\ t.addrs # {}
  BY <1>1, <1>2 DEF TaskGood, Searching
<1>4. Head(t.names) = r.name /\ Len(t.names) = 1
  BY <1>3
<1>5. searchDomain(r.name) = Owner(r.name)
  BY <1>2, SearchIsOwner DEF SearchName, EditIs, RoutedInv
<1>6. UNCHANGED <<now, addresses, aliases, rules, trie, active, up, object, hosts, ipset, edit, life, held>>
  BY DEF SearchName, cache, kernel
<1>7. KeepsGood /\ HostsStay'
  BY <1>6, QuietKeeps, SamePlaces DEF RoutedInv
<1>8. HeldGood'
  BY <1>6, <1>7, HeldKept DEF RoutedInv, HeldGood
<1> DEFINE found == [group |-> Owner(r.name), object |-> object[Owner(r.name)]]
<1>9. \/ /\ Owner(r.name) # None
         /\ Goto(h, [t EXCEPT !.step = "add", !.names = <<>>, !.target = found])
      \/ Owner(r.name) = None /\ Goto(h, NextRecord(t))
  BY <1>3, <1>4, <1>5 DEF SearchName
<1>10. CASE Owner(r.name) # None /\ Goto(h, [t EXCEPT !.step = "add", !.names = <<>>, !.target = found])
  <2> HIDE DEF found
  <2>1. task'[h] = [t EXCEPT !.step = "add", !.names = <<>>, !.target = found]
    BY <1>10 DEF Goto, TypesInv, TasksOK
  <2>2. /\ task'[h].step = "add" /\ task'[h].target = found /\ task'[h].addrs = t.addrs
        /\ task'[h].answer = t.answer /\ task'[h].rest = t.rest
    BY <1>1, <2>1 DEF Tasks
  <2>3. InHand(task[h])' = r
    BY <1>2, <2>2 DEF InHand
  <2>4. Searching(task[h])'
    BY <1>2, <1>3, <1>6, <2>2, <2>3 DEF Searching, ToldUntil
  <2>5. \A x \in Records(t.answer) : x \in Records(t.rest) \/ Good(x.name, x.addr, ToldUntil)'
    BY <1>1, <1>6, <1>7, CarriedGood
  <2>6. Aimed(task[h], InHand(task[h]).name)'
    BY <1>2, <1>6, <2>2, <2>3, SameOwner DEF Aimed, found
  <2>7. TaskGood(task[h])'
    BY <1>1, <2>2, <2>4, <2>5, <2>6 DEF TaskGood
  <2> QED BY <1>6, <1>7, <1>8, <1>10, <2>7, HandlerKept
<1>11. CASE Owner(r.name) = None /\ Goto(h, NextRecord(t))
  <2>1. task'[h] = NextRecord(t)
    BY <1>11 DEF Goto, TypesInv, TasksOK
  <2>2. Owner(r.name)' = None
    BY <1>2, <1>6, <1>11, SameOwner
  <2>3. Good(r.name, r.addr, ToldUntil)'
    BY <1>2, <1>3, <1>6, <2>2 DEF Good, Placed, Searching, ToldUntil
  <2>4. TaskGood(task[h])'
    BY <1>1, <1>2, <1>6, <1>7, <2>1, <2>3, NextFields, NextGood
  <2> QED BY <1>6, <1>7, <1>8, <1>11, <2>4, HandlerKept
<1> QED BY <1>9, <1>10, <1>11

(* What AddSubnet writes: an entry that outlives what a client is told.      *)
LEMMA AddWrites ==
  ASSUME CapOK, Direct, TypesInv, NEW h \in Handlers, TaskGood(task[h]), AddSubnet(h), task[h].step = "add",
         NEW r \in KnownRecords, r = InHand(task[h]), r.name \in Names, r.addr \in Addrs
  PROVE  /\ \E t : Goto(h, t)
         /\ task'[h].rest = Tail(task[h].rest) /\ task'[h].answer = task[h].answer
         /\ task'[h].step = IF Len(task[h].rest) > 1 THEN "store" ELSE "deliver"
         /\ LET g == task[h].target.group
                e == ipset'[g][r.addr]
            IN  /\ g \in Groups
                /\ up[g] /\ object[g] = task[h].target.object /\ r.addr \notin hosts[g] => e >= ToldUntil /\ e \in Nat
                /\ \A x \in Groups, a \in Addrs :
                     ipset'[x][a] # ipset[x][a] =>
                       a \notin hosts[x] /\ ipset'[x][a] >= ToldUntil /\ ipset'[x][a] \in Nat
<1> DEFINE t == task[h]
<1>1. TaskOK(t) /\ t \in Tasks /\ t.target \in [group : Groups, object : Nat] /\ Searching(t)
  BY DEF TypesInv, TasksOK, TaskOK, TaskGood
<1>2. PICK ttl \in AdditionalTTL .. MaxTimeout : ttl > 0 /\ t.addrs = {<<r.addr, ttl>>}
  BY <1>1 DEF Searching
<1>3. PICK g \in Groups : g = t.target.group
  BY <1>1
<1> DEFINE left == [t EXCEPT !.addrs = @ \ {<<r.addr, ttl>>}]
<1>4. /\ ipset' = IF up[g] /\ object[g] = t.target.object /\ r.addr \notin hosts[g]
                  THEN [ipset EXCEPT ![g][r.addr] = EntryUntil(ttl)]
                  ELSE ipset
      /\ Goto(h, IF left.addrs = {} THEN NextRecord(left) ELSE left)
  <2>1. PICK p \in t.addrs :
          /\ ipset' = IF up[g] /\ object[g] = t.target.object /\ p[1] \notin hosts[g]
                      THEN [ipset EXCEPT ![g][p[1]] = EntryUntil(p[2])]
                      ELSE ipset
          /\ Goto(h, IF [t EXCEPT !.addrs = @ \ {p}].addrs = {}
                     THEN NextRecord([t EXCEPT !.addrs = @ \ {p}]) ELSE [t EXCEPT !.addrs = @ \ {p}])
    BY <1>3 DEF AddSubnet
  <2>2. p = <<r.addr, ttl>>
    BY <1>2, <2>1
  <2> QED BY <2>1, <2>2
<1>5. left = [t EXCEPT !.addrs = {}]
  BY <1>1, <1>2 DEF Tasks
<1> HIDE DEF left
<1>6. left.addrs = {} /\ left \in Tasks /\ left.rest = t.rest /\ left.answer = t.answer
  BY <1>1, <1>5 DEF Tasks
<1>7. Goto(h, NextRecord(left))
  BY <1>4, <1>6
<1>8. task'[h] = NextRecord(left)
  BY <1>7 DEF Goto, TypesInv, TasksOK
<1>9. EntryUntil(ttl) >= ToldUntil /\ EntryUntil(ttl) \in Nat
  BY <1>2, CapIs, TtlAssumption DEF EntryUntil, CapOK, ToldUntil
<1> DEFINE e == EntryUntil(ttl)
<1>10. e >= ToldUntil /\ e \in Nat
  BY <1>9
<1>11. ipset \in [Groups -> [Addrs -> Deadlines]]
  BY DEF TypesInv, GroupsOK
<1>12. ipset' = IF up[g] /\ object[g] = t.target.object /\ r.addr \notin hosts[g]
                THEN [ipset EXCEPT ![g][r.addr] = e] ELSE ipset
  BY <1>4
<1> HIDE DEF e
<1>13. CASE up[g] /\ object[g] = t.target.object /\ r.addr \notin hosts[g]
  <2>1. \A x \in Groups, a \in Addrs :
          ipset'[x][a] = IF x = g /\ a = r.addr THEN e ELSE ipset[x][a]
    BY <1>11, <1>12, <1>13
  <2> QED BY <1>3, <1>6, <1>7, <1>8, <1>10, <1>13, <2>1, NextFields
<1>14. CASE ~(up[g] /\ object[g] = t.target.object /\ r.addr \notin hosts[g])
  <2>1. ipset' = ipset
    BY <1>12, <1>14
  <2> QED BY <1>3, <1>6, <1>7, <1>8, <1>14, <2>1, NextFields
<1> QED BY <1>13, <1>14

LEMMA AddRouted ==
  ASSUME CapOK, Direct, TypesInv, RoutedInv, NEW h \in Handlers, AddSubnet(h)
  PROVE  RoutedInv'
<1> DEFINE t == task[h]
           g == t.target.group
<1>1. TaskOK(t) /\ TaskGood(t) /\ t.step = "add" /\ Searching(t)
  BY DEF TypesInv, TasksOK, RoutedInv, AddSubnet, Going, TaskGood
<1>2. PICK r \in KnownRecords : r = InHand(t) /\ r.name \in Names /\ r.addr \in Addrs
  BY <1>1, InHandIs
<1>3. /\ \E x : Goto(h, x)
      /\ task'[h].rest = Tail(t.rest) /\ task'[h].answer = t.answer
      /\ task'[h].step = IF Len(t.rest) > 1 THEN "store" ELSE "deliver"
  BY <1>1, <1>2, AddWrites
<1>4. up[g] /\ object[g] = t.target.object /\ r.addr \notin hosts[g] =>
        ipset'[g][r.addr] >= ToldUntil /\ ipset'[g][r.addr] \in Nat
  BY <1>1, <1>2, AddWrites
<1>5. \A x \in Groups, a \in Addrs :
        ipset'[x][a] # ipset[x][a] => a \notin hosts[x] /\ ipset'[x][a] >= ToldUntil /\ ipset'[x][a] \in Nat
  BY <1>1, <1>2, AddWrites
<1>6. UNCHANGED <<now, addresses, aliases, rules, trie, active, up, object, hosts, edit, life, held>>
  BY DEF AddSubnet, cache
<1>7. /\ \A x \in Groups : Resting(x)' <=> Resting(x)
      /\ \A n \in Names : Owner(n)' = Owner(n)
  BY <1>6, SameOwner DEF Resting, Ahead
<1>8. ToldUntil \in Nat /\ ToldUntil' = ToldUntil /\ ToldUntil < Forever /\ now < ToldUntil
  BY <1>6, CapIs DEF ToldUntil
<1>9. KeepsGood
  <2>1. ASSUME NEW n \in Names, NEW a \in Addrs, NEW u \in Nat, u <= ToldUntil, Placed(n, a, u)
        PROVE  Placed(n, a, u)'
    <3> SUFFICES ASSUME Owner(n) # None, Resting(Owner(n))' PROVE ipset'[Owner(n)][a] >= u
      BY <1>7, <2>1 DEF Placed
    <3>1. Owner(n) \in Groups
      BY OwnerIs
    <3>2. ipset[Owner(n)][a] >= u
      BY <1>7, <2>1, <3>1 DEF Placed
    <3>3. CASE ipset'[Owner(n)][a] # ipset[Owner(n)][a]
      BY <1>5, <1>8, <2>1, <3>1, <3>3
    <3> QED BY <3>2, <3>3
  <2> QED BY <1>6, <2>1 DEF KeepsGood
<1>10. HostsStay'
  BY <1>5, <1>6, <1>7 DEF RoutedInv, HostsStay, Forever
<1>11. Placed(r.name, r.addr, ToldUntil)'
  <2>1. CASE Placed(r.name, r.addr, ToldUntil)
    <3>1. PICK u \in Nat : u = ToldUntil
      BY <1>8
    <3>2. addresses[r.name][r.addr] >= u
      BY <1>1, <1>2, <3>1 DEF Searching
    <3>3. Placed(r.name, r.addr, u)'
      BY <1>2, <1>8, <1>9, <2>1, <3>1, <3>2 DEF KeepsGood
    <3> QED BY <1>8, <3>1, <3>3 DEF Placed
  <2>2. CASE Aimed(t, r.name)
    <3> SUFFICES ASSUME Owner(r.name) # None, Resting(Owner(r.name))' PROVE ipset'[Owner(r.name)][r.addr] >= ToldUntil
      BY <1>2, <1>7, <1>8 DEF Placed
    <3>1. g = Owner(r.name) /\ t.target.object = object[g]
      BY <2>2 DEF Aimed
    <3>2. g \in Groups /\ up[g] /\ Resting(g)
      BY <1>2, <1>7, <3>1, OwnerIs
    <3>3. CASE r.addr \notin hosts[g]
      BY <1>4, <3>1, <3>2, <3>3
    <3>4. CASE r.addr \in hosts[g]
      <4>1. ipset[g][r.addr] = Forever
        BY <1>2, <3>2, <3>4 DEF RoutedInv, HostsStay
      <4>2. ipset'[g][r.addr] = Forever
        BY <1>2, <1>5, <3>2, <3>4, <4>1
      <4> QED BY <1>8, <3>1, <4>2, Bounds
    <3> QED BY <3>3, <3>4
  <2> QED BY <1>1, <1>2, <2>1, <2>2 DEF TaskGood
<1>12. TaskGood(task[h])'
  <2>1. Good(r.name, r.addr, ToldUntil)'
    BY <1>1, <1>2, <1>6, <1>8, <1>11 DEF Good, Searching
  <2> QED BY <1>1, <1>2, <1>3, <1>6, <1>9, <2>1, NextGood
<1>13. HeldGood'
  BY <1>6, <1>9, HeldKept DEF RoutedInv, HeldGood
<1> QED BY <1>3, <1>6, <1>9, <1>10, <1>12, <1>13, HandlerKept

(* What a client is told: the addresses of one name, for no longer than the  *)
(* cap.                                                                      *)
LEMMA ToldIs ==
  ASSUME CapOK, Direct, TypesInv, NEW m \in Answers, NEW k \in Learned(m)
  PROVE  \E r \in Records(m) :
           k.names = {r.name} /\ k.addr = r.addr /\ k.until \in Nat /\ k.until <= ToldUntil
<1>1. PICK r \in Records(m) :
        k = [names |-> {rr.name : rr \in Records(m)}, addr |-> r.addr,
             until |-> now + Smallest({ClientTTL(rr.ttl) : rr \in Records(m)})]
  BY DEF Learned
<1>2. {rr.name : rr \in Records(m)} = {r.name}
  BY DEF Direct
<1> DEFINE S == {ClientTTL(rr.ttl) : rr \in Records(m)}
<1>3. ASSUME NEW ttl \in Nat PROVE ClientTTL(ttl) \in Nat /\ ClientTTL(ttl) <= ClientTTLCap
  <2>1. ClientTTLCap \in Nat /\ ClientTTLCap # 0
    BY CapIs DEF CapOK
  <2>2. Smallest({ttl, ClientTTLCap}) \in {ttl, ClientTTLCap} /\ Smallest({ttl, ClientTTLCap}) <= ClientTTLCap
    BY <2>1, SmallestIs
  <2> QED BY <2>1, <2>2 DEF ClientTTL
<1>4. \A rr \in Records(m) : rr.ttl \in Nat
  BY AnswerRecords
<1>5. S \subseteq 0 .. ClientTTLCap
  BY <1>3, <1>4, CapIs
<1>6. S # {}
  OBVIOUS
<1>7. k.until = now + Smallest(S)
  BY <1>1
<1> HIDE DEF S
<1>8. Smallest(S) \in 0 .. ClientTTLCap
  <2>1. S \subseteq Nat
    BY <1>5
  <2> QED BY <1>5, <1>6, <2>1, SmallestIs
<1>9. k.until \in Nat /\ k.until <= ToldUntil
  BY <1>7, <1>8, CapIs DEF ToldUntil
<1> QED BY <1>1, <1>2, <1>9

LEMMA DeliverRouted ==
  ASSUME CapOK, Direct, TypesInv, RoutedInv, NEW h \in Handlers, Deliver(h)
  PROVE  RoutedInv'
<1> DEFINE m == task[h].answer
<1>1. TaskGood(task[h]) /\ task[h].step = "deliver" /\ m \in Answers /\ Records(task[h].rest) = {}
  BY DEF RoutedInv, Deliver, Going, TaskGood
<1>2. UNCHANGED <<now, addresses, aliases, rules, trie, active, up, object, hosts, ipset, edit, life>>
  BY DEF Deliver, cache, kernel
<1>3. KeepsGood /\ HostsStay'
  BY <1>2, QuietKeeps, SamePlaces DEF RoutedInv
<1>4. Goto(h, Idle) /\ task'[h] = Idle
  BY DEF Deliver, Goto, TypesInv, TasksOK
<1>5. TaskGood(task[h])'
  BY <1>4 DEF TaskGood, Idle
<1>6. ASSUME NEW k \in Learned(m), k.until > now PROVE Routed(k)'
  <2>1. PICK r \in Records(m) :
          k.names = {r.name} /\ k.addr = r.addr /\ k.until \in Nat /\ k.until <= ToldUntil
    BY <1>1, ToldIs
  <2>2. r.name \in Names /\ r.addr \in Addrs
    BY <1>1, AnswerRecords
  <2>3. Good(r.name, r.addr, ToldUntil)
    BY <1>1 DEF TaskGood, Records
  <2>4. ToldUntil \in Nat /\ ToldUntil' = ToldUntil
    BY <1>2, CapIs DEF ToldUntil
  <2>5. Good(r.name, r.addr, k.until)
    <3>1. addresses[r.name][r.addr] \in Nat
      BY <2>2, Bounds DEF TypesInv, CacheOK
    <3>2. Owner(r.name) # None => ipset[Owner(r.name)][r.addr] \in Nat
      BY <2>2, OwnerIs, Bounds DEF TypesInv, GroupsOK, Deadlines
    <3> QED BY <2>1, <2>3, <2>4, <3>1, <3>2 DEF Good, Placed
  <2>6. Good(r.name, r.addr, k.until)'
    <3>1. now < k.until
      BY <1>6, <2>1, CapIs
    <3> QED BY <2>1, <2>2, <2>5, <3>1, <1>3 DEF Good, KeepsGood
  <2> QED BY <2>1, <2>2, <2>4, <2>6 DEF Routed
<1>7. HeldGood'
  <2>1. held' = held \cup {k \in Learned(m) : k.until > now}
    BY DEF Deliver
  <2>2. \A k \in held : Routed(k)'
    BY <1>2, <1>3, HeldKept DEF RoutedInv
  <2> QED BY <1>6, <2>1, <2>2 DEF HeldGood
<1> QED BY <1>2, <1>3, <1>4, <1>5, <1>7, HandlerKept

--------------------------------------------------------------------------------
(* Edits *)

(* While something is edited, the routing is up and stays so.                *)
LEMMA EditingIs ==
  ASSUME EditsOrFlips, ModesApart, edit.step # "idle" \/ Kinds \cap EditKinds # {}
  PROVE  "flip" \notin Kinds /\ active /\ life.step = "idle"
BY DEF EditsOrFlips, ModesApart

LEMMA ChangeKept ==
  ASSUME CapOK, Direct, TypesInv, RoutedInv, NothingRests', ModesApart', UpTogether', TrieIsFull',
         UNCHANGED <<now, addresses, aliases, task, held>>
  PROVE  RoutedInv'
<1>1. KeepsGood /\ HostsStay'
  BY NoneRestKeeps
<1> QED BY <1>1, RestKept DEF KeepsAim

LEMMA BeginIs ==
  ASSUME BeginEdit
  PROVE  /\ edit.step = "idle" /\ UNCHANGED <<now, addresses, aliases, up, active, task, life, held>>
         /\ \E k \in Kinds \cap EditKinds, g \in Groups :
              edit' = [NoEdit EXCEPT !.step = IF k = "put" /\ up[g] THEN "disable"
                                              ELSE IF k = "rebuild" THEN "begin" ELSE "mutate",
                                     !.kind = k, !.group = g, !.enabled = up[g]]
<1>1. edit.step = "idle" /\ UNCHANGED <<now, addresses, aliases, up, active, task, life, held>>
  BY DEF BeginEdit, EditIs, cache, kernel
<1>2. PICK k \in Kinds \cap EditKinds, g \in Groups :
        /\ (g \in SubGroups) <=> (k = "rebuild")
        /\ edit' = [NoEdit EXCEPT !.step = IF k = "put" /\ up[g] THEN "disable"
                                           ELSE IF k = "rebuild" THEN "begin" ELSE "mutate",
                                  !.kind = k, !.group = g, !.enabled = up[g]]
  BY DEF BeginEdit
<1> QED BY <1>1, <1>2

LEMMA EditsRouted ==
  ASSUME CapOK, Direct, EditsOrFlips, TypesInv, RoutedInv, BeginEdit \/ Editing
  PROVE  RoutedInv'
<1>0. edit \in Edits /\ up \in [Groups -> BOOLEAN]
  BY DEF TypesInv, EditOK, GroupsOK
<1>1. "flip" \notin Kinds /\ active /\ life.step = "idle" /\ Kinds \cap EditKinds # {}
  <2>1. BeginEdit => Kinds \cap EditKinds # {}
    BY BeginIs
  <2>2. Editing => edit.step # "idle"
    BY DEF Editing, EditDisable, EditMutate, EditEnable, EditRebuild, EditTrie, EditSync, EditIs
  <2>3. edit.step # "idle" => Kinds \cap EditKinds # {}
    BY DEF RoutedInv, ModesApart
  <2> QED BY <2>1, <2>2, <2>3, EditingIs DEF RoutedInv
<1>2. UNCHANGED <<now, addresses, aliases, task, held, active, life>>
  <2>1. Editing => UNCHANGED <<now, addresses, aliases, task, held, active, life>>
    BY DEF Editing, EditDisable, EditMutate, EditEnable, EditRebuild, EditTrie, EditSync, cache, kernel
  <2> QED BY <2>1, BeginIs
<1>3. ASSUME edit'.step \notin {"idle", "sync"} PROVE NothingRests' /\ TrieIsFull'
  BY <1>1, <1>2, <1>3 DEF NothingRests, Resting, TrieIsFull
<1>4. ASSUME edit'.enabled, edit'.step \in {"disable", "enable"} => edit'.kind = "put" PROVE ModesApart'
  BY <1>1, <1>2, <1>4 DEF ModesApart
<1>5. \A g \in Groups : up[g] \/ (edit.step \in {"mutate", "enable"} /\ edit.kind = "put" /\ edit.group = g)
  BY <1>1 DEF RoutedInv, UpTogether
<1>6. CASE BeginEdit
  <2>1. PICK k \in Kinds \cap EditKinds, g \in Groups :
          edit' = [NoEdit EXCEPT !.step = IF k = "put" /\ up[g] THEN "disable"
                                          ELSE IF k = "rebuild" THEN "begin" ELSE "mutate",
                                 !.kind = k, !.group = g, !.enabled = up[g]]
    BY <1>6, BeginIs
  <2>2. edit' = [step |-> IF k = "put" /\ up[g] THEN "disable"
                          ELSE IF k = "rebuild" THEN "begin" ELSE "mutate",
                 kind |-> k, group |-> g, enabled |-> up[g], todo |-> <<>>]
    BY <2>1 DEF NoEdit
  <2>3. edit.step = "idle" /\ up' = up
    BY <1>6, BeginIs
  <2>4. up[g]
    BY <1>5, <2>3
  <2>5. edit'.step \notin {"idle", "sync"} /\ edit'.enabled /\ (edit'.step \in {"disable", "enable"} => edit'.kind = "put")
    BY <2>2, <2>4
  <2>6. UpTogether'
    BY <1>1, <1>2, <1>5, <2>3 DEF UpTogether
  <2> QED BY <1>2, <1>3, <1>4, <2>5, <2>6, ChangeKept
<1>7. ASSUME Editing PROVE edit.enabled /\ (edit.step \in {"disable", "enable"} => edit.kind = "put")
  BY <1>7 DEF Editing, EditDisable, EditMutate, EditEnable, EditRebuild, EditTrie, EditSync, EditIs, RoutedInv, ModesApart
<1>8. CASE EditDisable
  <2>1. edit.step = "disable" /\ edit' = [edit EXCEPT !.step = "mutate"] /\ up' = [up EXCEPT ![edit.group] = FALSE]
    BY <1>8 DEF EditDisable, EditIs
  <2>2. edit'.step = "mutate" /\ edit'.enabled = edit.enabled /\ edit'.kind = "put" /\ edit'.group = edit.group
    BY <1>0, <1>7, <1>8, <2>1 DEF Edits, Editing
  <2>3. \A g \in Groups : g # edit.group => up'[g]
    BY <1>0, <1>5, <2>1
  <2>4. UpTogether'
    BY <1>1, <1>2, <2>2, <2>3 DEF UpTogether
  <2> QED BY <1>2, <1>3, <1>4, <1>7, <1>8, <2>2, <2>4, ChangeKept DEF Editing
<1>9. CASE EditMutate
  <2>1. edit.step = "mutate" /\ edit.enabled /\ up' = up
    BY <1>7, <1>9 DEF EditMutate, EditIs, Editing, kernel
  <2>2. edit' = [edit EXCEPT !.step = IF edit.kind = "put" THEN "enable" ELSE "trie"]
    BY <1>9, <2>1 DEF EditMutate
  <2>3. /\ edit'.step = IF edit.kind = "put" THEN "enable" ELSE "trie"
        /\ edit'.enabled /\ edit'.kind = edit.kind /\ edit'.group = edit.group
    BY <1>0, <2>1, <2>2 DEF Edits
  <2>4. UpTogether'
    BY <1>1, <1>2, <1>5, <2>1, <2>3 DEF UpTogether
  <2> QED BY <1>2, <1>3, <1>4, <2>3, <2>4, ChangeKept
<1>10. CASE EditEnable
  <2>1. edit.step = "enable" /\ edit' = [edit EXCEPT !.step = "trie"] /\ up' = [up EXCEPT ![edit.group] = TRUE]
    BY <1>10 DEF EditEnable, EditIs
  <2>2. edit'.step = "trie" /\ edit'.enabled
    BY <1>0, <1>7, <1>10, <2>1 DEF Edits, Editing
  <2>3. \A g \in Groups : up'[g]
    BY <1>0, <1>5, <2>1
  <2>4. UpTogether'
    BY <1>1, <1>2, <2>3 DEF UpTogether
  <2> QED BY <1>2, <1>3, <1>4, <2>2, <2>4, ChangeKept
<1>11. CASE EditRebuild
  <2>1. /\ edit.step = "begin" /\ edit' = [edit EXCEPT !.step = "trie"]
        /\ up' = [g \in Groups |-> IF g \in SubGroups THEN active ELSE up[g]]
    BY <1>1, <1>11 DEF EditRebuild, EditIs
  <2>2. edit'.step = "trie" /\ edit'.enabled
    BY <1>0, <1>7, <1>11, <2>1 DEF Edits, Editing
  <2>3. \A g \in Groups : up'[g]
    BY <1>1, <1>5, <2>1
  <2>4. UpTogether'
    BY <1>1, <1>2, <2>3 DEF UpTogether
  <2> QED BY <1>2, <1>3, <1>4, <2>2, <2>4, ChangeKept
<1>12. CASE EditTrie
  <2>1. /\ edit.step = "trie" /\ edit' = [edit EXCEPT !.step = "sync", !.todo = Order]
        /\ trie' = BuiltTrie /\ UNCHANGED <<rules, up>>
    BY <1>12 DEF EditTrie, EditIs, kernel
  <2>2. edit'.step = "sync" /\ edit'.enabled /\ edit'.todo = Order
    BY <1>0, <1>7, <1>12, <2>1 DEF Edits, Editing
  <2>3. NothingRests'
    BY <2>2, OrderIs DEF NothingRests, Resting, Ahead
  <2>4. BuiltTrie = FullTrie /\ FullTrie' = FullTrie
    BY <1>1, <2>1, AllUp, SameOwner DEF RoutedInv
  <2>5. TrieIsFull'
    BY <1>1, <1>2, <2>1, <2>4 DEF TrieIsFull
  <2>6. UpTogether'
    BY <1>1, <1>2, <1>5, <2>1 DEF UpTogether
  <2> QED BY <1>2, <1>4, <2>2, <2>3, <2>5, <2>6, ChangeKept
<1>13. CASE EditSync
  <2> DEFINE todo == edit.todo
             g == Head(todo)
  <2>1. edit.step = "sync" /\ todo # <<>> /\ todo \in Seq(Groups)
    BY <1>0, <1>13 DEF EditSync, EditIs, TypesInv, EditOK, Edits
  <2>2. g \in Groups /\ g = todo[1] /\ UNCHANGED <<rules, up, object, trie>> /\ Sync(g)
    BY <1>13, <2>1 DEF EditSync
  <2>3. edit' = IF Len(todo) = 1 THEN NoEdit ELSE [edit EXCEPT !.todo = Tail(todo)]
    BY <1>13 DEF EditSync
  <2>4. /\ Len(todo) = 1 => edit'.step = "idle"
        /\ Len(todo) # 1 => edit'.step = "sync" /\ edit'.todo = Tail(todo) /\ edit'.enabled
    BY <1>0, <1>7, <1>13, <2>1, <2>3 DEF NoEdit, Edits, Editing
  <2> HIDE DEF g, todo
  <2>5. ASSUME NEW x \in Groups \ {g}, Resting(x)' PROVE Resting(x)
    <3>1. ~Ahead(todo, x)
      <4> SUFFICES ASSUME Ahead(todo, x) PROVE FALSE
        OBVIOUS
      <4>1. PICK i \in 1 .. Len(todo) : todo[i] = x
        BY DEF Ahead
      <4>2. i # 1 /\ Len(todo) # 1 /\ Len(todo) \in Nat /\ i \in Nat
        BY <2>1, <2>2, <4>1
      <4>3. /\ Len(Tail(todo)) = Len(todo) - 1
            /\ i - 1 \in 1 .. Len(todo) - 1
        BY <2>1, <4>1, <4>2
      <4>4. Tail(todo)[i - 1] = x
        BY <2>1, <4>1, <4>2, <4>3
      <4>5. Ahead(Tail(todo), x)
        BY <4>3, <4>4 DEF Ahead
      <4> QED BY <2>4, <2>5, <4>2, <4>5 DEF Resting
    <3> QED BY <1>1, <2>1, <3>1 DEF Resting, todo
  <2>6. up[g]
    BY <1>5, <2>1, <2>2
  <2>7. KeepsGood /\ HostsStay'
    BY <1>2, <2>2, <2>5, <2>6, SyncKeeps
  <2>8. ModesApart'
    BY <1>1, <1>2, <2>4 DEF ModesApart
  <2>9. TrieIsFull'
    BY <1>1, <1>2, <2>1, <2>2, SameOwner DEF RoutedInv, TrieIsFull
  <2>10. UpTogether'
    BY <1>1, <1>2, <1>5, <2>1, <2>2 DEF UpTogether
  <2> QED BY <1>2, <2>2, <2>7, <2>8, <2>9, <2>10, RestKept DEF KeepsAim
<1> QED BY <1>6, <1>8, <1>9, <1>10, <1>11, <1>12, <1>13 DEF Editing

--------------------------------------------------------------------------------
(* The lifecycle *)

LEMMA LifecycleRouted ==
  ASSUME CapOK, Direct, EditsOrFlips, TypesInv, RoutedInv, BringUp \/ BringDown \/ Lifecycle
  PROVE  RoutedInv'
<1>0. life \in Lives
  BY DEF TypesInv, LifeOK
<1>1. "flip" \in Kinds /\ Kinds \cap EditKinds = {} /\ edit.step = "idle"
  <2>1. "flip" \in Kinds
    BY DEF BringUp, BringDown, Lifecycle, BringUpSync, BringUpReadRules, BringUpStoreTrie, RoutedInv, ModesApart
  <2> QED BY <2>1 DEF EditsOrFlips, RoutedInv, ModesApart
<1>2. UNCHANGED <<now, addresses, aliases, task, held, edit, rules, object>>
  BY DEF BringUp, BringDown, Lifecycle, BringUpSync, BringUpReadRules, BringUpStoreTrie, cache, kernel
<1>3. FullTrie' = FullTrie
  BY <1>2 DEF FullTrie, First
<1>4. trie = FullTrie
  BY <1>1 DEF RoutedInv, TrieIsFull
<1>5. ASSUME Lifecycle PROVE active
  BY <1>5 DEF Lifecycle, BringUpSync, BringUpReadRules, BringUpStoreTrie, RoutedInv, ModesApart
<1>6. CASE BringUp
  <2>1. /\ active' /\ life'.step = "sync" /\ life'.todo = Order /\ trie' = trie
        /\ \A g \in Groups : up'[g]
    BY <1>6 DEF BringUp, NoLife
  <2>2. NothingRests'
    BY <2>1, OrderIs DEF NothingRests, Resting, Ahead
  <2>3. ModesApart' /\ UpTogether' /\ TrieIsFull'
    BY <1>1, <1>2, <1>3, <1>4, <2>1 DEF ModesApart, UpTogether, TrieIsFull
  <2> QED BY <1>2, <2>2, <2>3, ChangeKept
<1>7. CASE BringDown
  <2>1. ~active' /\ life.step = "idle" /\ life' = life /\ trie' = trie /\ \A g \in Groups : ~up'[g]
    BY <1>7 DEF BringDown, MutationFree
  <2>2. NothingRests'
    BY <2>1 DEF NothingRests, Resting
  <2>3. ModesApart' /\ UpTogether' /\ TrieIsFull'
    BY <1>1, <1>2, <1>3, <1>4, <2>1 DEF ModesApart, UpTogether, TrieIsFull
  <2> QED BY <1>2, <2>2, <2>3, ChangeKept
<1>8. CASE BringUpSync
  <2> DEFINE todo == life.todo
             g == Head(todo)
  <2>1. life.step = "sync" /\ todo # <<>> /\ todo \in Seq(Groups)
    BY <1>0, <1>8 DEF BringUpSync, TypesInv, LifeOK, Lives
  <2>2. g \in Groups /\ g = todo[1] /\ UNCHANGED <<rules, up, active, trie>> /\ Sync(g)
    BY <1>8, <2>1 DEF BringUpSync
  <2>3. /\ life'.todo = Tail(todo)
        /\ life'.step = IF Len(todo) = 1 THEN "read" ELSE "sync"
    BY <1>0, <1>8, <2>1 DEF BringUpSync, Lives
  <2> HIDE DEF g, todo
  <2>4. ASSUME NEW x \in Groups \ {g}, Resting(x)' PROVE Resting(x)
    <3>1. ~Ahead(todo, x)
      <4> SUFFICES ASSUME Ahead(todo, x) PROVE FALSE
        OBVIOUS
      <4>1. PICK i \in 1 .. Len(todo) : todo[i] = x
        BY DEF Ahead
      <4>2. i # 1 /\ Len(todo) # 1 /\ Len(todo) \in Nat /\ i \in Nat
        BY <2>1, <2>2, <4>1
      <4>3. /\ Len(Tail(todo)) = Len(todo) - 1
            /\ i - 1 \in 1 .. Len(todo) - 1
        BY <2>1, <4>1, <4>2
      <4>4. Tail(todo)[i - 1] = x
        BY <2>1, <4>1, <4>2, <4>3
      <4>5. Ahead(Tail(todo), x)
        BY <4>3, <4>4 DEF Ahead
      <4> QED BY <2>3, <2>4, <4>2, <4>5 DEF Resting
    <3> QED BY <1>1, <1>5, <1>8, <3>1 DEF Resting, todo, Lifecycle
  <2>5. up[g] /\ active
    BY <1>1, <1>5, <1>8, <2>2 DEF RoutedInv, UpTogether, Lifecycle
  <2>6. KeepsGood /\ HostsStay'
    BY <1>2, <2>2, <2>4, <2>5, SyncKeeps
  <2>7. ModesApart' /\ UpTogether' /\ TrieIsFull'
    BY <1>1, <1>2, <1>3, <1>4, <2>2, <2>3, <2>5 DEF RoutedInv, ModesApart, UpTogether, TrieIsFull
  <2> QED BY <1>2, <2>2, <2>6, <2>7, RestKept DEF KeepsAim
<1>9. CASE BringUpReadRules \/ BringUpStoreTrie
  <2>1. BuiltTrie = FullTrie /\ active
    BY <1>1, <1>5, <1>9, AllUp DEF RoutedInv, Lifecycle
  <2>2. /\ UNCHANGED <<active, up, hosts, ipset>>
        /\ life.step # "sync" /\ life'.step \in {"store", "idle"}
        /\ life'.step = "store" => life'.draft = FullTrie
        /\ trie' = FullTrie
    <3>1. CASE BringUpReadRules
      BY <1>0, <1>4, <2>1, <3>1 DEF BringUpReadRules, kernel, Lives
    <3>2. CASE BringUpStoreTrie
      BY <2>1, <3>2 DEF BringUpStoreTrie, kernel, NoLife, RoutedInv, TrieIsFull
    <3> QED BY <1>9, <3>1, <3>2
  <2>3. \A g \in Groups : Resting(g)' => Resting(g)
    BY <1>1, <2>1, <2>2 DEF Resting
  <2>4. KeepsGood /\ HostsStay'
    BY <1>2, <2>2, <2>3, QuietKeeps DEF RoutedInv
  <2>5. ModesApart' /\ UpTogether' /\ TrieIsFull'
    BY <1>1, <1>2, <1>3, <2>1, <2>2 DEF RoutedInv, ModesApart, UpTogether, TrieIsFull
  <2> QED BY <1>2, <2>2, <2>4, <2>5, RestKept DEF KeepsAim
<1> QED BY <1>6, <1>7, <1>8, <1>9 DEF Lifecycle

--------------------------------------------------------------------------------
(* Time *)

LEMMA TickRouted ==
  ASSUME CapOK, TypesInv, RoutedInv, Tick
  PROVE  RoutedInv'
<1>1. /\ now' = now + 1 /\ now \in Nat /\ now + 1 < Forever
      /\ ToldUntil \in Nat /\ ToldUntil' = ToldUntil + 1
  <2>1. now < MaxTime /\ now' = now + 1 /\ now \in 1 .. MaxTime
    BY DEF Tick, TypesInv
  <2> QED BY <2>1, Bounds, CapIs DEF ToldUntil, CapOK
<1>2. UNCHANGED <<addresses, aliases, rules, trie, active, up, object, hosts, task, edit, life>>
  BY DEF Tick, cache
<1>3. \A g \in Groups, a \in Addrs : ipset'[g][a] = IF ipset[g][a] > now + 1 THEN ipset[g][a] ELSE 0
  BY DEF Tick, Alive
<1>4. /\ \A g \in Groups : Resting(g)' <=> Resting(g)
      /\ \A n \in Names : Owner(n)' = Owner(n)
  BY <1>2, SameOwner DEF Resting, Ahead
<1>5. HostsStay'
  BY <1>1, <1>2, <1>3, <1>4, Bounds DEF RoutedInv, HostsStay, Forever
<1>6. ASSUME NEW h \in Handlers PROVE TaskGood(task[h])'
  <2>1. task[h].step = "idle"
    BY DEF Tick, Going
  <2> QED BY <1>2, <2>1 DEF TaskGood
<1>7. ASSUME NEW k \in held, k.until > now + 1 PROVE Routed(k)'
  <2>1. PICK n \in Names : k.names = {n} /\ k.until \in Nat /\ k.until <= ToldUntil /\ Good(n, k.addr, k.until)
    BY DEF RoutedInv, HeldGood, Routed
  <2>2. k.addr \in Addrs
    BY DEF TypesInv, HeldOK
  <2>3. Placed(n, k.addr, k.until)'
    <3> SUFFICES ASSUME Owner(n) # None, Resting(Owner(n))' PROVE ipset'[Owner(n)][k.addr] >= k.until
      BY <1>4 DEF Placed
    <3>1. Owner(n) \in Groups /\ ipset[Owner(n)][k.addr] >= k.until
      BY <1>4, <2>1, OwnerIs DEF Good, Placed
    <3>2. ipset[Owner(n)][k.addr] \in Nat
      BY <2>2, <3>1, Bounds DEF TypesInv, GroupsOK, Deadlines
    <3>3. ipset[Owner(n)][k.addr] > now + 1
      BY <1>1, <1>7, <2>1, <3>1, <3>2
    <3> QED BY <1>3, <2>2, <3>1, <3>3
  <2>4. Good(n, k.addr, k.until)'
    BY <1>2, <2>1, <2>3 DEF Good
  <2>5. k.until <= ToldUntil'
    BY <1>1, <2>1
  <2> QED BY <2>1, <2>4, <2>5 DEF Routed
<1>8. HeldGood'
  BY <1>7 DEF Tick, HeldGood
<1>9. NoAliases' /\ ModesApart' /\ UpTogether' /\ TrieIsFull'
  BY <1>2, SameOwner DEF RoutedInv, NoAliases, ModesApart, UpTogether, TrieIsFull
<1> QED BY <1>5, <1>6, <1>8, <1>9 DEF RoutedInv

LEMMA CleanupRouted ==
  ASSUME CapOK, Direct, TypesInv, RoutedInv, cleanupRecords
  PROVE  RoutedInv'
<1>1. UNCHANGED <<now, rules, trie, active, up, object, hosts, ipset, task, edit, life, held>>
  BY DEF cleanupRecords, kernel
<1>2. \A n \in Names, a \in Addrs : addresses'[n][a] = IF addresses[n][a] < now THEN 0 ELSE addresses[n][a]
  BY DEF cleanupRecords
<1>3. aliases' = aliases
  BY DEF cleanupRecords, RoutedInv, NoAliases, TypesInv, CacheOK
<1>4. \A n \in Names, a \in Addrs, u \in Nat : now < u /\ addresses[n][a] >= u => addresses'[n][a] >= u
  <2>1. \A n \in Names, a \in Addrs : addresses[n][a] \in Nat
    BY Bounds DEF TypesInv, CacheOK
  <2> QED BY <1>2, <2>1 DEF TypesInv
<1>5. KeepsGood
  BY <1>1, <1>4, SamePlaces DEF KeepsGood
<1>6. HostsStay'
  BY <1>1, SamePlaces DEF RoutedInv, HostsStay, Forever
<1>7. ModesApart' /\ UpTogether' /\ TrieIsFull'
  BY <1>1, SameOwner DEF RoutedInv, ModesApart, UpTogether, TrieIsFull
<1> QED BY <1>1, <1>3, <1>5, <1>6, <1>7, RestKept DEF KeepsAim

--------------------------------------------------------------------------------
LEMMA RoutedInit == Init => RoutedInv
<1> SUFFICES ASSUME Init PROVE RoutedInv
  OBVIOUS
<1>1. NoAliases /\ ModesApart /\ UpTogether /\ HeldGood
  BY DEF Init, NoAliases, ModesApart, UpTogether, HeldGood, NoEdit, NoLife
<1>2. TrieIsFull
  <2>1. trie = BuiltTrie /\ active /\ edit.step = "idle" /\ life.step = "idle"
    BY DEF Init, NoEdit, NoLife
  <2> QED BY <1>1, <2>1, AllUp DEF TrieIsFull
<1>3. HostsStay
  BY DEF Init, HostsStay
<1>4. \A h \in Handlers : TaskGood(task[h])
  BY DEF Init, TaskGood, Idle
<1> QED BY <1>1, <1>2, <1>3, <1>4 DEF RoutedInv

LEMMA RoutedStep ==
  ASSUME CapOK, Direct, EditsOrFlips
  PROVE  TypesInv /\ RoutedInv /\ [Next]_vars => RoutedInv'
<1> SUFFICES ASSUME TypesInv, RoutedInv, [Next]_vars PROVE RoutedInv'
  OBVIOUS
<1>1. ASSUME NEW h \in Handlers, Receive(h) \/ Handle(h) PROVE RoutedInv'
  <2>1. ~ReadAddresses(h)
    BY DEF ReadAddresses, Going, RoutedInv, TaskGood
  <2> QED BY <1>1, <2>1, ReceiveRouted, StoreRouted, ReadAliasesRouted, SearchRouted, AddRouted, DeliverRouted DEF Handle
<1>2. CASE BeginEdit \/ Editing
  BY <1>2, EditsRouted
<1>3. CASE BringUp \/ BringDown \/ Lifecycle
  BY <1>3, LifecycleRouted
<1>4. CASE Tick
  BY <1>4, TickRouted
<1>5. CASE cleanupRecords
  BY <1>5, CleanupRouted
<1>6. CASE UNCHANGED vars
  <2>1. UNCHANGED <<now, addresses, aliases, rules, trie, active, up, object, hosts, ipset, task, edit, life, held>>
    BY <1>6 DEF vars, cache, kernel
  <2>2. KeepsGood /\ HostsStay'
    BY <2>1, QuietKeeps, SamePlaces DEF RoutedInv
  <2>3. ModesApart' /\ UpTogether' /\ TrieIsFull'
    BY <2>1, SameOwner DEF RoutedInv, ModesApart, UpTogether, TrieIsFull
  <2> QED BY <2>1, <2>2, <2>3, RestKept DEF KeepsAim
<1> QED BY <1>1, <1>2, <1>3, <1>4, <1>5, <1>6 DEF Next

(* ClientsAreRouted for answers without aliases: however many handlers work  *)
(* on however many answers, and wherever an edit or a switch of the routing  *)
(* comes between their lock sections, an address that a client was given is  *)
(* in the ipset of the group that owns the name for as long as the client    *)
(* may use it (handleMessage, processARecord, SyncAllGroups, bringUpRouting).*)
THEOREM DirectAnswersAreRouted ==
  ASSUME Direct, CapOK, EditsOrFlips
  PROVE  Spec => []ClientsAreRouted
<1>1. Init => TypesInv /\ RoutedInv
  BY InitTypes, RoutedInit
<1>2. TypesInv /\ RoutedInv /\ [Next]_vars => TypesInv' /\ RoutedInv'
  BY TypesStep, RoutedStep
<1>3. TypesInv /\ RoutedInv => ClientsAreRouted
  <2> SUFFICES ASSUME TypesInv, RoutedInv, Settled, NEW k \in held,
                      {Owner(n) : n \in k.names} \ {None} # {}
               PROVE  \E g \in {Owner(n) : n \in k.names} \ {None} : ipset[g][k.addr] > now
    BY DEF ClientsAreRouted
  <2>1. PICK n \in Names : k.names = {n} /\ k.until \in Nat /\ Good(n, k.addr, k.until)
    BY DEF RoutedInv, HeldGood, Routed
  <2>2. Owner(n) # None /\ Owner(n) \in {Owner(m) : m \in k.names} \ {None}
    BY <2>1
  <2>3. Owner(n) \in Groups /\ Resting(Owner(n))
    BY <2>2, OwnerIs DEF Settled, EditIs, Resting
  <2>4. ipset[Owner(n)][k.addr] >= k.until
    BY <2>1, <2>2, <2>3 DEF Good, Placed
  <2>5. k.addr \in Addrs /\ k.until > now /\ now \in Nat
    BY DEF TypesInv, HeldOK
  <2>6. ipset[Owner(n)][k.addr] \in Nat
    BY <2>3, <2>5, Bounds DEF TypesInv, GroupsOK, Deadlines
  <2>7. ipset[Owner(n)][k.addr] > now
    BY <2>1, <2>4, <2>5, <2>6
  <2> QED BY <2>2, <2>7
<1> QED BY <1>1, <1>2, <1>3, PTL DEF Spec

================================================================================
