------------------------- MODULE RoutingTablesProofs --------------------------
(***************************************************************************)
(* Theorems about marks, rules and routes, for any groups of any kinds, any *)
(* address families and gateways, and any number of enables, of changes of  *)
(* the interface, of failures and of kills.                                 *)
(***************************************************************************)
EXTENDS RoutingTables, FiniteSetTheorems, TLAPS

Vias == Gateways \cup {None, OnLink}
Whys == {"none", "enable", "disable", "link", "addr"}
Dos == {"none", "mark", "rule", "hole", "look", "read", "del", "add", "chains", "unroute", "unrule", "unchain"}
Tables == [FamilySet -> [hole : BOOLEAN, via : Vias]]
Memory == [mark : Marks \cup {0}, rule : SUBSET FamilySet, hole : SUBSET FamilySet, via : [FamilySet -> Vias]]
Tasks == [why : Whys, do : Dos, fam : 1 .. NumFamilies, gw : Vias, failed : BOOLEAN, locked : BOOLEAN]
NoVia == [f \in FamilySet |-> None]
Loops == [what : {"link", "addr"}, todo : Seq(Groups)] \cup {NoEvent}

KernelTypes ==
    /\ rules \subseteq Marks \X FamilySet
    /\ routes \in [Marks -> Tables]
    /\ link \in [up : BOOLEAN, addrs : SUBSET FamilySet, gw : [FamilySet -> Gateways \cup {None}]]
    /\ kind \in [Groups -> Kinds] /\ p2p \in BOOLEAN
DaemonTypes ==
    /\ chains \subseteq Groups /\ up \subseteq Groups /\ phase \in {"down", "clean", "run"}
    /\ mine \in [Groups -> Memory]
    /\ task \in [Groups -> Tasks]
    /\ loop \in Loops
    /\ events \in [link : Nat, addr : Nat]
    /\ budget \in [turns : Nat, changes : Nat, faults : 0 .. MaxFaults, crashes : Nat]
TablesTypes == KernelTypes /\ DaemonTypes

(* While the daemon is down or cleans up nothing runs and nothing is remembered. *)
DownIsIdle == phase # "run" =>
    /\ up = {} /\ loop = NoEvent
    /\ \A g \in Groups : task[g] = Idle /\ mine[g] = Nothing

(* What may run for a group that is up, and for one that is not. *)
TaskOK(g) ==
    \/ task[g] = Idle
    \/ task[g].why = "enable" /\ task[g].locked /\ g \notin up
         /\ task[g].do \in {"mark", "rule", "hole", "look", "read", "del", "add", "chains"}
    \/ task[g].why \in {"link", "addr"} /\ g \in up /\ task[g].do \in {"hole", "look", "read", "del", "add"}
    \/ task[g].why = "disable" /\ g \notin up /\ task[g].do \in {"unroute", "unrule", "unchain"}

(* The families a task has already been through. *)
Before(i) == {Families[j] : j \in 1 .. i - 1}
From(i) == {Families[j] : j \in i .. NumFamilies}
Passed(g) == Before(task[g].fam)

(* What a group remembers at each step of an enable and of a disable. *)
Whole(g) == mine[g].rule = FamilySet /\ mine[g].hole = FamilySet
Bare(g) == mine[g].hole = {} /\ mine[g].via = NoVia
MineOK(g) ==
    /\ mine[g].rule # {} => mine[g].mark # 0
    /\ mine[g].rule = {} => Bare(g)
    /\ g \in up \/ task[g].do \in {"look", "read", "del", "add", "chains"} => Whole(g)
    /\ task[g].do \in {"rule", "hole"} => mine[g].mark # 0
    /\ task[g].do = "rule" => Passed(g) \subseteq mine[g].rule /\ Bare(g)
    /\ task[g].do = "hole" => mine[g].rule = FamilySet /\ Passed(g) \subseteq mine[g].hole
    /\ task[g].do = "unroute" => \A f \in Passed(g) : f \notin mine[g].hole /\ mine[g].via[f] = None
    /\ task[g].do \in {"unrule", "unchain"} => Bare(g)
    /\ task[g].do = "unrule" => Passed(g) \cap mine[g].rule = {}
    /\ task[g].do = "unchain" => mine[g].rule = {}
    /\ task[g].do = "mark" \/ (task[g] = Idle /\ g \notin up) => mine[g] = Nothing

(* A group claims its mark from the moment it takes it until its last rule is *)
(* gone.                                                                     *)
Claims(g) == mine[g].mark # 0 /\ (mine[g].rule # {} \/ task[g].why = "enable")
Apart == \A g, h \in Groups : Claims(g) /\ Claims(h) /\ mine[g].mark = mine[h].mark => g = h
OneLocked == \A g, h \in Groups : task[g].locked /\ task[h].locked => g = h

(* The rules and the blackholes it remembers are there. *)
KernelOK(g) == Claims(g) =>
    \A f \in FamilySet :
      /\ f \in mine[g].rule => <<mine[g].mark, f>> \in rules
      /\ f \in mine[g].hole => routes[mine[g].mark][f].hole
AddOK(g) == task[g].do \in {"del", "add"} => task[g].gw # None

GroupOK(g) == TaskOK(g) /\ MineOK(g) /\ KernelOK(g) /\ AddOK(g)
AllOK == \A g \in Groups : GroupOK(g)

NoLinkNoRoute == ~link.up => \A m \in Marks, f \in FamilySet : routes[m][f].via = None

(* A tunnel's routes name no gateway. *)
TunnelOnLink == p2p => \A g \in Groups : task[g].do # "del" /\ (task[g].do = "add" => task[g].gw = OnLink)

(* Whoever lacks its route will still come to it: by its own task, or by an  *)
(* event that is reported or being handled.                                  *)
Ahead(g, f) == \/ task[g].do \in {"mark", "rule", "hole", "look"}
               \/ task[g].do \in {"read", "add"} /\ f \in From(task[g].fam)
Reporting(g) == events.link > 0 \/ events.addr > 0 \/ g \in ToSet(loop.todo)
Wants(g, f) == kind[g] = "link" /\ (g \in up \/ task[g].why = "enable") /\ link.up /\ f \in link.addrs
Coming(g) == p2p /\ budget.faults = MaxFaults =>
    \A f \in FamilySet : Wants(g, f) => \/ Ahead(g, f)
                                        \/ Reporting(g)
                                        \/ routes[mine[g].mark][f].via # None
RouteIsComing == \A g \in Groups : Coming(g)

TablesIInv == /\ TablesTypes /\ DownIsIdle /\ AllOK /\ Apart /\ OneLocked
              /\ NoLinkNoRoute /\ TunnelOnLink /\ RouteIsComing

--------------------------------------------------------------------------------
(* What the operators of the model return *)

LEMMA FamilyFacts ==
  /\ NumFamilies \in Nat /\ NumFamilies >= 1
  /\ \A i \in 1 .. NumFamilies : Families[i] \in FamilySet
  /\ Before(1) = {} /\ Before(NumFamilies + 1) = FamilySet /\ From(1) = FamilySet
  /\ \A i \in 1 .. NumFamilies : /\ Before(i + 1) = Before(i) \cup {Families[i]}
                                 /\ From(i) = {Families[i]} \cup From(i + 1)
  /\ From(NumFamilies + 1) = {}
  /\ FamilySet # {}
<1>1. Families \in Seq(FamilySet) /\ Families # <<>>
  BY FamilyAssumption
<1>2. NumFamilies \in Nat /\ NumFamilies >= 1 /\ DOMAIN Families = 1 .. NumFamilies
  BY <1>1 DEF NumFamilies
<1>3. FamilySet = {Families[i] : i \in 1 .. NumFamilies}
  BY <1>2 DEF FamilySet, ToSet
<1>4. \A i \in 1 .. NumFamilies : Families[i] \in FamilySet
  BY <1>3
<1>5. Before(1) = {} /\ From(NumFamilies + 1) = {}
  BY <1>2 DEF Before, From
<1>6. Before(NumFamilies + 1) = FamilySet /\ From(1) = FamilySet
  BY <1>2, <1>3 DEF Before, From
<1>7. ASSUME NEW i \in 1 .. NumFamilies
      PROVE  /\ Before(i + 1) = Before(i) \cup {Families[i]}
             /\ From(i) = {Families[i]} \cup From(i + 1)
  <2>1. 1 .. i + 1 - 1 = (1 .. i - 1) \cup {i} /\ i .. NumFamilies = {i} \cup (i + 1 .. NumFamilies)
    BY <1>2
  <2> QED BY <2>1 DEF Before, From
<1>8. FamilySet # {}
  BY <1>2, <1>4
<1> QED BY <1>2, <1>4, <1>5, <1>6, <1>7, <1>8

LEMMA MinIsIn ==
  ASSUME NEW S \in SUBSET Nat, S # {}
  PROVE  Min(S) \in S
<1> DEFINE upto(x) == 1 .. x
           T == {upto(x) : x \in S}
<1>1. \A x \in S : upto(x) \in FiniteSubsetsOf(Nat)
  BY FS_Interval DEF FiniteSubsetsOf
<1>2. T \subseteq FiniteSubsetsOf(Nat) /\ T # {}
  BY <1>1
<1>3. \E t \in T : \A u \in T : <<u, t>> \notin StrictSubsetOrdering(Nat)
  <2> HIDE DEF T
  <2> QED BY <1>2, WFMin, FS_StrictSubsetOrderingWellFounded
<1>4. PICK x \in S : \A y \in S : <<upto(y), upto(x)>> \notin StrictSubsetOrdering(Nat)
  BY <1>3
<1>5. ASSUME NEW y \in S
      PROVE  x =< y
  <2> SUFFICES ASSUME y < x
               PROVE  FALSE
    OBVIOUS
  <2>1. upto(y) \subseteq upto(x) /\ upto(y) # upto(x)
    <3>1. x \in upto(x) /\ x \notin upto(y)
      OBVIOUS
    <3>2. upto(y) \subseteq upto(x)
      OBVIOUS
    <3> QED BY <3>1, <3>2
  <2>2. upto(x) \in SUBSET Nat /\ upto(y) \in SUBSET Nat
    OBVIOUS
  <2> QED BY <2>1, <2>2, <1>4 DEF StrictSubsetOrdering
<1> QED BY <1>5 DEF Min

LEMMA LinksAreAll ==
  Links \in Seq(Groups) /\ ToSet(Links) = {g \in Groups : kind[g] = "link"}
<1> DEFINE S == {g \in Groups : kind[g] = "link"}
           n == Cardinality(S)
<1>1. IsFiniteSet(S) /\ n \in Nat
  <2>1. IsFiniteSet(S)
    BY GroupAssumption, FS_Subset
  <2> QED BY <2>1, FS_CardinalityType
<1>2. IsFiniteSet(1 .. n) /\ Cardinality(1 .. n) = n
  BY <1>1, FS_Interval
<1>3. \E f \in [1 .. n -> S] : IsInjective(f)
  <2>1. ExistsBijection(1 .. n, S)
    BY <1>1, FS_CardinalityType
  <2> QED BY <2>1 DEF ExistsBijection, Bijection, Injection
<1>4. Links \in [1 .. n -> S] /\ IsInjective(Links)
  BY <1>3 DEF Links, SetToSeq
<1>5. Links \in Injection(1 .. n, S)
  BY <1>4 DEF Injection
<1>6. Links \in Surjection(1 .. n, S)
  BY <1>1, <1>2, <1>5, FS_Injection
<1>7. Links \in Seq(Groups)
  <2>1. Links \in [1 .. n -> Groups]
    BY <1>4
  <2> HIDE DEF n
  <2> QED BY <2>1, <1>1
<1>8. ToSet(Links) = S
  BY <1>4, <1>6 DEF Surjection, ToSet
<1> QED BY <1>7, <1>8

LEMMA AfterIs == After("unroute") = "unrule" /\ After("unrule") = "unchain" /\ Teardown[1] = "unroute"
<1>1. DOMAIN Teardown = 1 .. 3 /\ Teardown[1] = "unroute" /\ Teardown[2] = "unrule" /\ Teardown[3] = "unchain"
  <2>1. Len(Teardown) = 3 /\ Teardown \in Seq({"unroute", "unrule", "unchain"})
    BY DEF Teardown
  <2>2. DOMAIN Teardown = 1 .. 3
    BY <2>1
  <2>3. Teardown[1] = "unroute" /\ Teardown[2] = "unrule" /\ Teardown[3] = "unchain"
    BY DEF Teardown
  <2> QED BY <2>2, <2>3
<1>2. \A i \in 1 .. 3 : i = 1 \/ i = 2 \/ i = 3
  OBVIOUS
<1>3. \A i \in DOMAIN Teardown : /\ Teardown[i] = "unroute" <=> i = 1
                                 /\ Teardown[i] = "unrule" <=> i = 2
  BY <1>1, <1>2
<1> HIDE DEF Teardown
<1>4. (CHOOSE i \in DOMAIN Teardown : Teardown[i] = "unroute") = 1
  BY <1>1, <1>3
<1>5. (CHOOSE i \in DOMAIN Teardown : Teardown[i] = "unrule") = 2
  BY <1>1, <1>3
<1> QED BY <1>1, <1>4, <1>5 DEF After

--------------------------------------------------------------------------------
(* What any request made for a group does *)

(* It touches the group's own task and memory, and in the kernel the rules    *)
(* and the table of a mark the group claims; it adds no route to a link that  *)
(* is down.                                                                   *)
OwnOnly(g) ==
    /\ UNCHANGED <<kind, p2p, link, phase>>
    /\ phase = "run"
    /\ \A h \in Groups \ {g} : /\ task'[h] = task[h] /\ mine'[h] = mine[h]
                               /\ h \in up' <=> h \in up
                               /\ Reporting(h) => Reporting(h)'
    /\ \A m \in Marks : m # mine[g].mark \/ ~Claims(g) =>
         routes'[m] = routes[m] /\ \A f \in FamilySet : <<m, f>> \in rules' <=> <<m, f>> \in rules
    /\ ~link.up => \A m \in Marks, f \in FamilySet : routes'[m][f].via \in {None, routes[m][f].via}
    /\ budget'.faults = MaxFaults => budget.faults = MaxFaults

(* It takes a lock or a mark only when nobody has it. *)
IsFree(m, someRules, tables) == \A f \in FamilySet : <<m, f>> \notin someRules /\ tables[m] = EmptyTable
TakesFree(g) ==
    /\ task'[g].locked => task[g].locked \/ MutexFree
    /\ Claims(g)' /\ ~Claims(g) => task[g].locked /\ IsFree(mine'[g].mark, rules, routes)
    /\ Claims(g)' /\ Claims(g) => mine'[g].mark = mine[g].mark

StepOK(g) ==
    /\ OwnOnly(g) /\ TakesFree(g)
    /\ TablesTypes' /\ GroupOK(g)' /\ Coming(g)'
    /\ p2p => task'[g].do # "del" /\ (task'[g].do = "add" => task'[g].gw = OnLink)

LEMMA OthersKeepTheirs ==
  ASSUME TablesIInv, NEW g \in Groups, OwnOnly(g), TablesTypes', NEW h \in Groups, h # g
  PROVE  GroupOK(h)'
<1> USE DEF TablesIInv, AllOK
<1>1. task'[h] = task[h] /\ mine'[h] = mine[h] /\ (h \in up' <=> h \in up)
  BY DEF OwnOnly
<1>2. GroupOK(h)
  OBVIOUS
<1>3. TaskOK(h)'
  BY <1>1, <1>2 DEF GroupOK, TaskOK
<1>4. MineOK(h)'
  <2>1. MineOK(h)
    BY <1>2 DEF GroupOK
  <2> QED BY <1>1, <2>1 DEF MineOK, Whole, Bare, Passed
<1>5. Claims(h) <=> Claims(h)'
  BY <1>1 DEF Claims
<1>6. Claims(h) => /\ mine[h].mark \in Marks
                   /\ routes'[mine[h].mark] = routes[mine[h].mark]
                   /\ \A f \in FamilySet : <<mine[h].mark, f>> \in rules' <=> <<mine[h].mark, f>> \in rules
  <2> SUFFICES ASSUME Claims(h)
               PROVE  /\ mine[h].mark \in Marks
                      /\ mine[h].mark # mine[g].mark \/ ~Claims(g)
    BY DEF OwnOnly
  <2>1. mine[h].mark \in Marks
    BY DEF Claims, TablesTypes, DaemonTypes, Memory
  <2>2. Claims(g) => mine[h].mark # mine[g].mark
    BY DEF Apart
  <2> QED BY <2>1, <2>2
<1>7. KernelOK(h)'
  BY <1>1, <1>2, <1>5, <1>6 DEF GroupOK, KernelOK
<1>8. AddOK(h)'
  BY <1>1, <1>2 DEF GroupOK, AddOK
<1> QED BY <1>3, <1>4, <1>7, <1>8 DEF GroupOK

(* A group that wants its route claims its mark, or has yet to take one.     *)
LEMMA WantsClaims ==
  ASSUME TablesIInv, NEW g \in Groups, NEW f \in FamilySet, Wants(g, f)
  PROVE  Claims(g) \/ task[g].do \in {"mark", "rule", "hole"}
<1>1. GroupOK(g)
  BY DEF TablesIInv, AllOK
<1>2. CASE g \in up
  <2>1. mine[g].rule # {} /\ mine[g].mark # 0
    BY <1>1, <1>2, FamilyFacts DEF GroupOK, MineOK, Whole
  <2> QED BY <2>1 DEF Claims
<1>3. CASE g \notin up
  <2>1. task[g].why = "enable"
    BY <1>3 DEF Wants
  <2>2. task[g].do \in {"mark", "rule", "hole", "look", "read", "del", "add", "chains"}
    BY <1>1, <1>3, <2>1 DEF GroupOK, TaskOK, Idle
  <2>3. task[g].do \in {"look", "read", "del", "add", "chains"} => mine[g].rule # {} /\ mine[g].mark # 0
    BY <1>1, FamilyFacts DEF GroupOK, MineOK, Whole
  <2> QED BY <2>1, <2>2, <2>3 DEF Claims
<1> QED BY <1>2, <1>3

LEMMA StepKeeps ==
  ASSUME TablesIInv, NEW g \in Groups, StepOK(g)
  PROVE  TablesIInv'
<1> USE DEF StepOK
<1>1. DownIsIdle'
  BY DEF OwnOnly, DownIsIdle
<1>2. AllOK'
  BY OthersKeepTheirs DEF AllOK
<1>3. OneLocked'
  <2>1. \A h \in Groups \ {g} : task'[h].locked => task[h].locked
    BY DEF OwnOnly
  <2>2. task'[g].locked => \A h \in Groups \ {g} : ~task[h].locked
    BY DEF TakesFree, TablesIInv, OneLocked, MutexFree
  <2> QED BY <2>1, <2>2 DEF OneLocked, TablesIInv
<1>4. Apart'
  <2>1. ASSUME NEW h \in Groups \ {g}, Claims(g)', Claims(h)', mine'[g].mark = mine'[h].mark
        PROVE  FALSE
    <3>1. Claims(h) /\ mine'[h].mark = mine[h].mark
      BY <2>1 DEF OwnOnly, Claims
    <3>2. CASE Claims(g)
      BY <2>1, <3>1, <3>2 DEF TakesFree, TablesIInv, Apart
    <3>3. CASE ~Claims(g)
      <4>1. task[g].locked /\ IsFree(mine[h].mark, rules, routes)
        BY <2>1, <3>1, <3>3 DEF TakesFree
      <4>2. task[h].why = "enable" => task[h].locked
        <5>1. TaskOK(h)
          BY DEF TablesIInv, AllOK, GroupOK
        <5> QED BY <5>1 DEF TaskOK, Idle
      <4>3. mine[h].rule # {}
        BY <3>1, <4>1, <4>2 DEF Claims, TablesIInv, OneLocked
      <4>4. PICK f \in FamilySet : f \in mine[h].rule
        <5>1. mine[h].rule \subseteq FamilySet
          BY DEF TablesIInv, TablesTypes, DaemonTypes, Memory
        <5> QED BY <4>3, <5>1
      <4>5. <<mine[h].mark, f>> \in rules
        BY <3>1, <4>4 DEF TablesIInv, AllOK, GroupOK, KernelOK
      <4> QED BY <4>1, <4>5 DEF IsFree
    <3> QED BY <3>2, <3>3
  <2>2. \A h \in Groups \ {g} : Claims(h)' => Claims(h) /\ mine'[h].mark = mine[h].mark
    BY DEF OwnOnly, Claims
  <2> QED BY <2>1, <2>2 DEF Apart, TablesIInv
<1>5. NoLinkNoRoute'
  BY DEF OwnOnly, NoLinkNoRoute, TablesIInv
<1>6. TunnelOnLink'
  BY DEF OwnOnly, TunnelOnLink, TablesIInv
<1>7. RouteIsComing'
  <2> SUFFICES ASSUME NEW h \in Groups, h # g
               PROVE  Coming(h)'
    BY DEF RouteIsComing
  <2> SUFFICES ASSUME p2p, budget'.faults = MaxFaults, NEW f \in FamilySet, Wants(h, f)'
               PROVE  (Ahead(h, f) \/ Reporting(h) \/ routes[mine[h].mark][f].via # None)'
    BY DEF Coming, OwnOnly
  <2>1. task'[h] = task[h] /\ mine'[h] = mine[h] /\ (Reporting(h) => Reporting(h)')
    BY DEF OwnOnly
  <2>2. Wants(h, f) /\ budget.faults = MaxFaults
    BY DEF Wants, OwnOnly
  <2>3. Ahead(h, f) \/ Reporting(h) \/ routes[mine[h].mark][f].via # None
    BY <2>2 DEF TablesIInv, RouteIsComing, Coming
  <2>4. Ahead(h, f) => Ahead(h, f)'
    BY <2>1 DEF Ahead
  <2>5. CASE Claims(h)
    <3>1. mine[h].mark \in Marks /\ (mine[h].mark # mine[g].mark \/ ~Claims(g))
      BY <2>5 DEF Claims, TablesIInv, TablesTypes, DaemonTypes, Memory, Apart
    <3>2. routes'[mine[h].mark] = routes[mine[h].mark]
      BY <3>1 DEF OwnOnly
    <3> QED BY <2>1, <2>3, <2>4, <3>2
  <2>6. CASE task[h].do \in {"mark", "rule", "hole"}
    BY <2>1, <2>6 DEF Ahead
  <2> QED BY <2>2, <2>5, <2>6, WantsClaims
<1> QED BY <1>1, <1>2, <1>3, <1>4, <1>5, <1>6, <1>7 DEF TablesIInv

--------------------------------------------------------------------------------
(* Steps that leave the kernel and the memory of the groups alone *)

LEMMA Running ==
  ASSUME TablesIInv, NEW g \in Groups, task[g].do # "none"
  PROVE  phase = "run"
BY DEF TablesIInv, TablesTypes, DaemonTypes, DownIsIdle, Idle

LEMMA QuietStep ==
  ASSUME TablesIInv, NEW g \in Groups, phase = "run",
         UNCHANGED <<kind, p2p, link, rules, routes, phase, mine>>,
         task' \in [Groups -> Tasks],
         \A h \in Groups \ {g} : task'[h] = task[h] /\ (h \in up' <=> h \in up) /\ (Reporting(h) => Reporting(h)'),
         chains' \subseteq Groups, up' \subseteq Groups,
         loop' \in Loops,
         events' = events,
         budget' \in [turns : Nat, changes : Nat, faults : 0 .. MaxFaults, crashes : Nat],
         budget'.faults = MaxFaults => budget.faults = MaxFaults,
         task'[g].why = "enable" /\ mine[g].mark # 0 => task[g].why = "enable",
         task'[g].locked => task[g].locked \/ MutexFree
  PROVE  OwnOnly(g) /\ TakesFree(g) /\ TablesTypes' /\ KernelOK(g)'
<1>1. OwnOnly(g)
  BY DEF OwnOnly
<1>2. TablesTypes'
  <2>1. KernelTypes'
    BY DEF TablesIInv, TablesTypes, KernelTypes
  <2>2. DaemonTypes'
    BY DEF TablesIInv, TablesTypes, DaemonTypes
  <2> QED BY <2>1, <2>2 DEF TablesTypes
<1>3. Claims(g)' => Claims(g)
  BY DEF Claims
<1>4. TakesFree(g)
  BY <1>3 DEF TakesFree
<1>5. KernelOK(g)'
  <2>1. KernelOK(g)
    BY DEF TablesIInv, AllOK, GroupOK
  <2> QED BY <1>3, <2>1 DEF KernelOK
<1> QED BY <1>1, <1>2, <1>4, <1>5

(* A step that only moves the task of a group.                               *)
LEMMA TaskStep ==
  ASSUME TablesIInv, NEW g \in Groups, phase = "run",
         UNCHANGED <<Others, kernel, up, mine>>,
         task' \in [Groups -> Tasks], \A h \in Groups \ {g} : task'[h] = task[h],
         budget' \in [turns : Nat, changes : Nat, faults : 0 .. MaxFaults, crashes : Nat],
         budget'.faults = MaxFaults => budget.faults = MaxFaults,
         task'[g].why = "enable" /\ mine[g].mark # 0 => task[g].why = "enable",
         task'[g].locked => task[g].locked \/ MutexFree
  PROVE  OwnOnly(g) /\ TakesFree(g) /\ TablesTypes' /\ KernelOK(g)'
<1>1. UNCHANGED <<kind, p2p, link, rules, routes, chains, phase, up, mine, loop, events>>
  BY DEF Others, kernel, given
<1>2. chains \subseteq Groups /\ up \subseteq Groups
        /\ loop \in Loops
  BY DEF TablesIInv, TablesTypes, DaemonTypes
<1>3. \A h \in Groups : Reporting(h) => Reporting(h)'
  BY <1>1 DEF Reporting
<1> QED BY <1>1, <1>2, <1>3, QuietStep

LEMMA BudgetKeeps ==
  ASSUME TablesIInv
  PROVE  /\ \A what \in {"turns", "changes", "faults", "crashes"} :
              Spend(what) => /\ budget' \in [turns : Nat, changes : Nat, faults : 0 .. MaxFaults, crashes : Nat]
                             /\ budget'.faults = MaxFaults => budget.faults = MaxFaults /\ what # "faults"
         /\ budget' = budget => /\ budget' \in [turns : Nat, changes : Nat, faults : 0 .. MaxFaults, crashes : Nat]
                                /\ budget'.faults = MaxFaults => budget.faults = MaxFaults
<1>1. budget \in [turns : Nat, changes : Nat, faults : 0 .. MaxFaults, crashes : Nat] /\ MaxFaults \in Nat
  BY BoundAssumption DEF TablesIInv, TablesTypes, DaemonTypes
<1> QED BY <1>1 DEF Spend

(* A step of which some requests may be refused.                             *)
LEMMA RefusedKeeps ==
  ASSUME TablesIInv, NEW kept, Refused(kept)
  PROVE  /\ budget' \in [turns : Nat, changes : Nat, faults : 0 .. MaxFaults, crashes : Nat]
         /\ budget'.faults = MaxFaults => budget.faults = MaxFaults /\ kept = {} /\ budget' = budget
<1>1. CASE kept = {}
  <2>1. budget' = budget
    BY <1>1 DEF Refused
  <2> QED BY <1>1, <2>1, BudgetKeeps
<1>2. CASE kept # {}
  <2>1. Spend("faults")
    BY <1>2 DEF Refused
  <2> QED BY <2>1, BudgetKeeps
<1> QED BY <1>1, <1>2

LEMMA IdleIsTask == Idle \in Tasks
BY FamilyFacts DEF Idle, Tasks, Whys, Dos, Vias

LEMMA BeginEnableOK ==
  ASSUME TablesIInv, NEW g \in Groups, BeginEnable(g)
  PROVE  StepOK(g)
<1>1. task'[g] = [Idle EXCEPT !.why = "enable", !.do = "mark", !.locked = TRUE] /\ task' \in [Groups -> Tasks]
        /\ \A h \in Groups \ {g} : task'[h] = task[h]
  BY IdleIsTask DEF BeginEnable, TablesIInv, TablesTypes, DaemonTypes, Tasks, Whys, Dos
<1>2. /\ task'[g].why = "enable" /\ task'[g].do = "mark" /\ task'[g].locked
  BY <1>1 DEF Idle
<1>3. mine[g] = Nothing /\ g \notin up /\ task[g] = Idle
  BY DEF BeginEnable, TablesIInv, AllOK, GroupOK, MineOK
<1>4. OwnOnly(g) /\ TakesFree(g) /\ TablesTypes' /\ KernelOK(g)'
  <2>1. phase = "run" /\ MutexFree /\ UNCHANGED <<Others, kernel, up, mine>> /\ Spend("turns")
    BY DEF BeginEnable
  <2>2. mine[g].mark = 0
    BY <1>3 DEF Nothing
  <2> QED BY <1>1, <2>1, <2>2, TaskStep, BudgetKeeps
<1>5. TaskOK(g)'
  BY <1>2, <1>3 DEF TaskOK, BeginEnable
<1>6. MineOK(g)'
  BY <1>2, <1>3 DEF MineOK, BeginEnable, Nothing, Bare, NoVia
<1>7. AddOK(g)' /\ Coming(g)'
  BY <1>2 DEF AddOK, Coming, Ahead
<1> QED BY <1>2, <1>4, <1>5, <1>6, <1>7 DEF StepOK, GroupOK

LEMMA BeginDisableOK ==
  ASSUME TablesIInv, NEW g \in Groups, BeginDisable(g)
  PROVE  StepOK(g)
<1> DEFINE Begins(locked) == [Idle EXCEPT !.why = "disable", !.do = Teardown[1], !.locked = locked]
<1>1. PICK locked \in BOOLEAN : (locked => MutexFree) /\ task' = [task EXCEPT ![g] = Begins(locked)]
  <2> HIDE DEF Begins
  <2>1. \E locked \in BOOLEAN : (locked => MutexFree) /\ task' = [task EXCEPT ![g] = Begins(locked)]
    BY Zenon DEF BeginDisable, Begins
  <2> QED BY <2>1, Zenon
<1>2. task' \in [Groups -> Tasks] /\ \A h \in Groups \ {g} : task'[h] = task[h]
  BY <1>1, IdleIsTask, AfterIs DEF TablesIInv, TablesTypes, DaemonTypes, Tasks, Whys, Dos
<1>3. task'[g].why = "disable" /\ task'[g].do = "unroute" /\ task'[g].fam = 1 /\ task'[g].locked = locked
  BY <1>1, AfterIs DEF Idle, TablesIInv, TablesTypes, DaemonTypes
<1>4. g \in up /\ task[g] = Idle /\ g \notin up'
  BY DEF BeginDisable
<1>5. OwnOnly(g) /\ TakesFree(g) /\ TablesTypes' /\ KernelOK(g)'
  <2>1. phase = "run" /\ Spend("turns") /\ up' = up \ {g} /\
        UNCHANGED <<kind, p2p, link, rules, routes, chains, phase, mine, loop, events>>
    BY DEF BeginDisable, Others, kernel, given
  <2>2. chains \subseteq Groups /\ up \subseteq Groups
          /\ loop \in Loops
    BY DEF TablesIInv, TablesTypes, DaemonTypes
  <2>3. \A h \in Groups : Reporting(h) => Reporting(h)'
    BY <2>1 DEF Reporting
  <2> QED BY <1>1, <1>2, <1>3, <2>1, <2>2, <2>3, QuietStep, BudgetKeeps
<1>6. TaskOK(g)'
  BY <1>3, <1>4 DEF TaskOK
<1>7. MineOK(g)'
  <2>1. MineOK(g) /\ mine' = mine
    BY DEF TablesIInv, AllOK, GroupOK, BeginDisable
  <2> QED BY <1>3, <1>4, <2>1, FamilyFacts DEF MineOK, Passed, Whole, Bare, Idle
<1>8. AddOK(g)' /\ Coming(g)'
  BY <1>3, <1>4 DEF AddOK, Coming, Wants
<1> QED BY <1>3, <1>5, <1>6, <1>7, <1>8 DEF StepOK, GroupOK

--------------------------------------------------------------------------------
(* Where a task goes *)

(* Only the task of g moves, and all of it but its place stays.              *)
Moved(g) == /\ task' \in [Groups -> Tasks] /\ \A h \in Groups \ {g} : task'[h] = task[h]
            /\ task'[g].why = task[g].why /\ task'[g].locked = task[g].locked

LEMMA GoToIs ==
  ASSUME task \in [Groups -> Tasks], NEW g \in Groups, NEW do \in Dos, NEW i \in 1 .. NumFamilies,
         GoTo(g, do, i)
  PROVE  Moved(g) /\ task'[g].do = do /\ task'[g].fam = i /\ task'[g].gw = task[g].gw
BY DEF GoTo, Moved, Tasks

LEMMA NextFamilyIs ==
  ASSUME task \in [Groups -> Tasks], NEW g \in Groups, NEW do \in Dos, NEW then \in Dos,
         NextFamily(g, do, then, 1)
  PROVE  /\ Moved(g) /\ task'[g].gw = task[g].gw
         /\ \/ task[g].fam < NumFamilies /\ task'[g].do = do /\ task'[g].fam = task[g].fam + 1
            \/ task[g].fam = NumFamilies /\ task'[g].do = then /\ task'[g].fam = 1
<1>1. task[g].fam \in 1 .. NumFamilies /\ 1 \in 1 .. NumFamilies
  BY FamilyFacts DEF Tasks
<1>2. CASE task[g].fam < NumFamilies
  <2>1. GoTo(g, do, task[g].fam + 1) /\ task[g].fam + 1 \in 1 .. NumFamilies
    BY <1>1, <1>2, FamilyFacts DEF NextFamily
  <2> QED BY <1>2, <2>1, GoToIs
<1>3. CASE ~(task[g].fam < NumFamilies)
  <2>1. GoTo(g, then, 1) /\ task[g].fam = NumFamilies
    BY <1>1, <1>3, FamilyFacts DEF NextFamily
  <2> QED BY <1>1, <2>1, GoToIs
<1> QED BY <1>2, <1>3

(* The end of a hook, or the failure or the chains of an Enable.             *)
Ended(g) ==
    /\ task' \in [Groups -> Tasks] /\ \A h \in Groups \ {g} : task'[h] = task[h]
    /\ \/ task[g].why # "enable" /\ task'[g] = Idle
       \/ task[g].why = "enable" /\ task'[g].why = "disable" /\ task'[g].do = "unroute"
            /\ task'[g].fam = 1 /\ task'[g].locked = task[g].locked
       \/ task[g].why = "enable" /\ task'[g].why = "enable" /\ task'[g].do = "chains"
            /\ task'[g].fam = 1 /\ task'[g].locked = task[g].locked

LEMMA StopsIs ==
  ASSUME task \in [Groups -> Tasks], NEW g \in Groups, Stops(g)
  PROVE  task' \in [Groups -> Tasks] /\ task'[g] = Idle /\ \A h \in Groups \ {g} : task'[h] = task[h]
BY IdleIsTask DEF Stops

LEMMA FailsIs ==
  ASSUME task \in [Groups -> Tasks], NEW g \in Groups, Fails(g)
  PROVE  /\ task' \in [Groups -> Tasks] /\ \A h \in Groups \ {g} : task'[h] = task[h]
         /\ task'[g].why = "disable" /\ task'[g].do = "unroute" /\ task'[g].fam = 1
         /\ task'[g].locked = task[g].locked
<1>1. task' = [task EXCEPT ![g].why = "disable", ![g].do = "unroute", ![g].fam = 1]
  BY AfterIs DEF Fails
<1>2. "disable" \in Whys /\ "unroute" \in Dos /\ 1 \in 1 .. NumFamilies
  BY FamilyFacts DEF Whys, Dos
<1>3. task[g] \in Tasks
  OBVIOUS
<1> QED BY <1>1, <1>2, <1>3 DEF Tasks

LEMMA RoutesDoneIs ==
  ASSUME task \in [Groups -> Tasks], NEW g \in Groups, NEW ok \in BOOLEAN, RoutesDone(g, ok)
  PROVE  Ended(g)
<1>1. CASE task[g].why # "enable"
  <2>1. Stops(g)
    BY <1>1 DEF RoutesDone
  <2> QED BY <1>1, <2>1, StopsIs DEF Ended
<1>2. CASE task[g].why = "enable" /\ (task[g].failed \/ ~ok)
  <2>1. Fails(g)
    BY <1>2 DEF RoutesDone
  <2> QED BY <1>2, <2>1, FailsIs DEF Ended
<1>3. CASE task[g].why = "enable" /\ ~(task[g].failed \/ ~ok)
  <2>1. GoTo(g, "chains", 1)
    BY <1>3 DEF RoutesDone
  <2>2. "chains" \in Dos /\ 1 \in 1 .. NumFamilies
    BY FamilyFacts DEF Dos
  <2> QED BY <1>3, <2>1, <2>2, GoToIs DEF Ended, Moved
<1> QED BY <1>1, <1>2, <1>3

LEMMA RouteDoneIs ==
  ASSUME task \in [Groups -> Tasks], NEW g \in Groups, NEW ok \in BOOLEAN, RouteDone(g, ok)
  PROVE  \/ /\ task[g].fam < NumFamilies
            /\ Moved(g) /\ task'[g].do = "read" /\ task'[g].fam = task[g].fam + 1
         \/ /\ task[g].fam = NumFamilies /\ Ended(g)
<1>1. task[g] \in Tasks /\ task[g].fam \in 1 .. NumFamilies /\ "read" \in Dos
  BY DEF Tasks, Dos
<1>2. CASE task[g].fam < NumFamilies
  <2>1. task' = [task EXCEPT ![g].do = "read", ![g].fam = @ + 1, ![g].failed = @ \/ ~ok]
    BY <1>2 DEF RouteDone
  <2>2. task[g].fam + 1 \in 1 .. NumFamilies
    BY <1>1, <1>2, FamilyFacts
  <2>3. (task[g].failed \/ ~ok) \in BOOLEAN
    BY Zenon
  <2> QED BY <1>1, <1>2, <2>1, <2>2, <2>3 DEF Moved, Tasks
<1>3. CASE ~(task[g].fam < NumFamilies)
  <2>1. RoutesDone(g, ok) /\ task[g].fam = NumFamilies
    BY <1>1, <1>3, FamilyFacts DEF RouteDone
  <2> QED BY <2>1, RoutesDoneIs
<1> QED BY <1>2, <1>3

(* getUnusedMarkAndTable finds a mark while there is one.                    *)
LEMMA FreeMark ==
  ASSUME Used # Marks
  PROVE  Min(Marks \ Used) \in Marks \ Used
<1>1. Marks \ Used # {}
  BY DEF Used
<1>2. Marks \ Used \in SUBSET Nat
  BY BoundAssumption DEF Marks
<1> QED BY <1>1, <1>2, MinIsIn

--------------------------------------------------------------------------------
(* The requests of an Enable *)

LEMMA GroupFacts ==
  ASSUME TablesIInv, NEW g \in Groups
  PROVE  /\ TaskOK(g) /\ MineOK(g) /\ KernelOK(g) /\ AddOK(g) /\ Coming(g)
         /\ task \in [Groups -> Tasks] /\ task[g] \in Tasks /\ task[g].fam \in 1 .. NumFamilies /\ Fam(g) \in FamilySet
         /\ mine \in [Groups -> Memory] /\ mine[g] \in Memory /\ mine[g].mark \in Marks \cup {0}
         /\ mine[g].rule \subseteq FamilySet /\ mine[g].hole \subseteq FamilySet
         /\ mine[g].via \in [FamilySet -> Vias]
         /\ routes \in [Marks -> Tables] /\ rules \subseteq Marks \X FamilySet
         /\ 0 \notin Marks
<1>1. TaskOK(g) /\ MineOK(g) /\ KernelOK(g) /\ AddOK(g) /\ Coming(g)
  BY DEF TablesIInv, AllOK, GroupOK, RouteIsComing
<1>2. task \in [Groups -> Tasks] /\ task[g] \in Tasks /\ task[g].fam \in 1 .. NumFamilies
  BY DEF TablesIInv, TablesTypes, DaemonTypes, Tasks
<1>3. Fam(g) \in FamilySet
  BY <1>2, FamilyFacts DEF Fam
<1>4. mine \in [Groups -> Memory] /\ mine[g] \in Memory
  BY DEF TablesIInv, TablesTypes, DaemonTypes
<1>5. routes \in [Marks -> Tables] /\ rules \subseteq Marks \X FamilySet
  BY DEF TablesIInv, TablesTypes, KernelTypes
<1>6. 0 \notin Marks
  BY DEF Marks
<1> QED BY <1>1, <1>2, <1>3, <1>4, <1>5, <1>6 DEF Memory

(* The fields of a state whose kernel, memory and tasks change for one group. *)
LEMMA StepTypes ==
  ASSUME TablesIInv, NEW g \in Groups, UNCHANGED Others,
         rules' \subseteq Marks \X FamilySet, routes' \in [Marks -> Tables],
         chains' \subseteq Groups, up' \subseteq Groups,
         mine' \in [Groups -> Memory], task' \in [Groups -> Tasks],
         budget' \in [turns : Nat, changes : Nat, faults : 0 .. MaxFaults, crashes : Nat]
  PROVE  TablesTypes'
<1>1. UNCHANGED <<kind, p2p, link, phase, loop, events>>
  BY DEF Others, given
<1>2. KernelTypes'
  BY <1>1 DEF TablesIInv, TablesTypes, KernelTypes
<1>3. DaemonTypes'
  BY <1>1 DEF TablesIInv, TablesTypes, DaemonTypes
<1> QED BY <1>2, <1>3 DEF TablesTypes

LEMMA FindMarkOK ==
  ASSUME TablesIInv, NEW g \in Groups, FindMark(g)
  PROVE  StepOK(g)
<1> DEFINE m == Min(Marks \ Used)
<1>1. phase = "run" /\ task[g].do = "mark"
  BY Running DEF FindMark, At
<1>2. m \in Marks /\ m \notin Used
  BY FreeMark DEF FindMark
<1>3. IsFree(m, rules, routes)
  BY <1>2 DEF Used, IsFree
<1>4. Moved(g) /\ task'[g].do = "rule" /\ task'[g].fam = 1
  <2>1. GoTo(g, "rule", 1) /\ "rule" \in Dos /\ 1 \in 1 .. NumFamilies
    BY FamilyFacts DEF FindMark, Dos
  <2> QED BY <2>1, GroupFacts, GoToIs
<1>5. mine[g] = Nothing /\ task[g].why = "enable" /\ task[g].locked /\ g \notin up
  BY <1>1, GroupFacts DEF MineOK, TaskOK, Idle
<1>6. mine' = [mine EXCEPT ![g].mark = m] /\ UNCHANGED <<rules, routes, chains, up, budget>> /\ UNCHANGED Others
  BY DEF FindMark, kernel
<1> HIDE DEF m
<1>7. /\ mine' \in [Groups -> Memory] /\ \A h \in Groups \ {g} : mine'[h] = mine[h]
      /\ mine'[g].mark = m /\ mine'[g].rule = {} /\ mine'[g].hole = {} /\ mine'[g].via = NoVia
  <2>1. mine[g].rule = {} /\ mine[g].hole = {} /\ mine[g].via = NoVia
    BY <1>5 DEF Nothing, NoVia
  <2>2. m \in Marks \cup {0}
    BY <1>2
  <2> QED BY <1>6, <2>1, <2>2, GroupFacts DEF Memory
<1>8. TablesTypes'
  <2>1. chains \subseteq Groups /\ up \subseteq Groups
    BY DEF TablesIInv, TablesTypes, DaemonTypes
  <2> QED BY <1>4, <1>6, <1>7, <2>1, GroupFacts, BudgetKeeps, StepTypes DEF Moved
<1>9. OwnOnly(g)
  BY <1>1, <1>4, <1>6, <1>7 DEF OwnOnly, Moved, Others, given, Reporting
<1>10. TakesFree(g)
  <2>1. ~Claims(g)
    BY <1>5 DEF Claims, Nothing
  <2>2. task'[g].locked = task[g].locked
    BY <1>4 DEF Moved
  <2> QED BY <1>3, <1>5, <1>7, <2>1, <2>2 DEF TakesFree
<1>11. KernelOK(g)'
  BY <1>7 DEF KernelOK
<1>12. TaskOK(g)'
  BY <1>4, <1>5, <1>6 DEF TaskOK, Moved
<1>13. MineOK(g)'
  <2>1. Passed(g)' = {}
    BY <1>4, FamilyFacts DEF Passed, Before
  <2> QED BY <1>2, <1>4, <1>5, <1>6, <1>7, <2>1, GroupFacts DEF MineOK, Bare, NoVia, Idle
<1>14. AddOK(g)' /\ Coming(g)'
  BY <1>4 DEF AddOK, Coming, Ahead
<1> QED BY <1>4, <1>8, <1>9, <1>10, <1>11, <1>12, <1>13, <1>14 DEF StepOK, GroupOK

LEMMA AddRuleOK ==
  ASSUME TablesIInv, NEW g \in Groups, AddRule(g)
  PROVE  StepOK(g)
<1> DEFINE f == Fam(g)
           m == mine[g].mark
<1>1. phase = "run" /\ task[g].do = "rule"
  BY Running DEF AddRule, At
<1>2. m \in Marks /\ f \in FamilySet /\ Bare(g) /\ Passed(g) \subseteq mine[g].rule
        /\ task[g].why = "enable" /\ task[g].locked /\ g \notin up
  BY <1>1, GroupFacts DEF MineOK, TaskOK, Idle
<1>3. /\ Moved(g)
      /\ \/ task[g].fam < NumFamilies /\ task'[g].do = "rule" /\ task'[g].fam = task[g].fam + 1
         \/ task[g].fam = NumFamilies /\ task'[g].do = "hole" /\ task'[g].fam = 1
  <2>1. NextFamily(g, "rule", "hole", 1) /\ "rule" \in Dos /\ "hole" \in Dos
    BY DEF AddRule, Dos
  <2> QED BY <2>1, GroupFacts, NextFamilyIs
<1>4. /\ rules' = rules \cup {<<m, f>>} /\ mine' = [mine EXCEPT ![g].rule = @ \cup {f}]
      /\ UNCHANGED <<routes, chains, up, budget>> /\ UNCHANGED Others
  BY DEF AddRule
<1>5. Fam(g) = Families[task[g].fam]
  BY DEF Fam
<1> HIDE DEF f, m
<1>6. /\ mine' \in [Groups -> Memory] /\ \A h \in Groups \ {g} : mine'[h] = mine[h]
      /\ mine'[g].mark = m /\ mine'[g].rule = mine[g].rule \cup {f}
      /\ mine'[g].hole = {} /\ mine'[g].via = NoVia
  BY <1>2, <1>4, GroupFacts DEF Memory, Bare, m
<1>7. TablesTypes'
  <2>1. chains \subseteq Groups /\ up \subseteq Groups
    BY DEF TablesIInv, TablesTypes, DaemonTypes
  <2>2. rules' \subseteq Marks \X FamilySet
    BY <1>2, <1>4, GroupFacts
  <2> QED BY <1>3, <1>4, <1>6, <2>1, <2>2, GroupFacts, BudgetKeeps, StepTypes DEF Moved
<1>8. Claims(g) /\ Claims(g)'
  BY <1>2, <1>3, <1>6, GroupFacts DEF Claims, Moved, m
<1>9. OwnOnly(g)
  <2>1. UNCHANGED <<kind, p2p, link, phase, loop, events, up, routes, budget>>
    BY <1>4 DEF Others, given
  <2>2. \A h \in Groups \ {g} : task'[h] = task[h] /\ (Reporting(h) => Reporting(h)')
    BY <1>3, <2>1 DEF Moved, Reporting
  <2>3. \A n \in Marks : n # m => \A e \in FamilySet : <<n, e>> \in rules' <=> <<n, e>> \in rules
    BY <1>4
  <2> QED BY <1>1, <1>6, <1>8, <2>1, <2>2, <2>3 DEF OwnOnly, m
<1>10. TakesFree(g)
  BY <1>3, <1>6, <1>8 DEF TakesFree, Moved, m
<1>11. KernelOK(g)'
  <2>1. KernelOK(g)
    BY GroupFacts
  <2>2. ASSUME NEW e \in FamilySet
        PROVE  e \in mine'[g].rule => <<m, e>> \in rules'
    BY <1>4, <1>6, <1>8, <2>1 DEF KernelOK, m
  <2> QED BY <1>6, <2>2 DEF KernelOK
<1>12. TaskOK(g)'
  BY <1>2, <1>3, <1>4 DEF TaskOK, Moved
<1>13. MineOK(g)'
  <2>1. task[g].fam < NumFamilies => Passed(g)' \subseteq mine'[g].rule
    BY <1>2, <1>3, <1>5, <1>6, FamilyFacts, GroupFacts DEF Passed, f
  <2>2. task[g].fam = NumFamilies => mine'[g].rule = FamilySet /\ Passed(g)' = {}
    BY <1>2, <1>3, <1>5, <1>6, FamilyFacts, GroupFacts DEF Passed, f
  <2> QED BY <1>2, <1>3, <1>4, <1>6, <2>1, <2>2, GroupFacts DEF MineOK, Bare, NoVia, Idle
<1>14. AddOK(g)' /\ Coming(g)'
  BY <1>3 DEF AddOK, Coming, Ahead
<1> QED BY <1>3, <1>7, <1>9, <1>10, <1>11, <1>12, <1>13, <1>14 DEF StepOK, GroupOK

(* A request that changes at most the table of the group's mark.             *)
LEMMA TableStep ==
  ASSUME TablesIInv, NEW g \in Groups, phase = "run", Claims(g),
         UNCHANGED <<Others, rules, chains, up>>,
         budget' \in [turns : Nat, changes : Nat, faults : 0 .. MaxFaults, crashes : Nat],
         budget'.faults = MaxFaults => budget.faults = MaxFaults,
         task' \in [Groups -> Tasks], mine' \in [Groups -> Memory], routes' \in [Marks -> Tables],
         \A h \in Groups \ {g} : task'[h] = task[h] /\ mine'[h] = mine[h],
         \A n \in Marks \ {mine[g].mark} : routes'[n] = routes[n],
         ~link.up => \A f \in FamilySet : routes'[mine[g].mark][f].via \in {None, routes[mine[g].mark][f].via}
  PROVE  OwnOnly(g) /\ TablesTypes'
<1>1. UNCHANGED <<kind, p2p, link, phase, loop, events, up, rules, chains>>
  BY DEF Others, given
<1>2. TablesTypes'
  <2>1. chains \subseteq Groups /\ up \subseteq Groups
    BY DEF TablesIInv, TablesTypes, DaemonTypes
  <2> QED BY <1>1, <2>1, GroupFacts, StepTypes
<1>3. \A h \in Groups : Reporting(h) => Reporting(h)'
  BY <1>1 DEF Reporting
<1>4. ~link.up => \A n \in Marks, f \in FamilySet : routes'[n][f].via \in {None, routes[n][f].via}
  <2> SUFFICES ASSUME ~link.up, NEW n \in Marks, NEW f \in FamilySet
               PROVE  routes'[n][f].via \in {None, routes[n][f].via}
    OBVIOUS
  <2> QED BY DEF Claims
<1> QED BY <1>1, <1>2, <1>3, <1>4 DEF OwnOnly

(* A group that has its rules and its blackholes keeps them to the end of its *)
(* Enable or hook.                                                           *)
LEMMA WholeStep ==
  ASSUME TablesIInv, NEW g \in Groups, task[g].do \in {"hole", "look", "read", "del", "add"},
         up' = up, mine'[g].mark = mine[g].mark, mine'[g].rule = FamilySet, mine'[g].hole = FamilySet,
         Ended(g) \/ (Moved(g) /\ task'[g].do \in {"look", "read", "del", "add"})
  PROVE  Claims(g) /\ Claims(g)' /\ TakesFree(g) /\ TaskOK(g)' /\ MineOK(g)'
<1>1. mine[g].rule = FamilySet /\ mine[g].mark # 0 /\ FamilySet # {}
  BY GroupFacts, FamilyFacts DEF MineOK, Whole
<1>2. Claims(g) /\ Claims(g)'
  BY <1>1 DEF Claims
<1>3. \/ task[g].why = "enable" /\ g \notin up
      \/ task[g].why \in {"link", "addr"} /\ g \in up
  BY GroupFacts DEF TaskOK, Idle
<1>4. TaskOK(g)
  BY GroupFacts
<1>5. CASE Ended(g)
  <2>1. TaskOK(g)'
    BY <1>3, <1>4, <1>5 DEF TaskOK, Ended, Idle
  <2>2. task'[g].locked => task[g].locked
    <3>1. ~Idle.locked
      BY DEF Idle
    <3>2. task'[g] = Idle \/ task'[g].locked = task[g].locked
      BY <1>5 DEF Ended
    <3> QED BY <3>1, <3>2
  <2>3. MineOK(g)'
    <3>1. CASE task'[g] = Idle
      <4>1. task'[g].do = "none" /\ g \in up'
        BY <1>3, <1>5, <3>1 DEF Idle, Ended
      <4> QED BY <1>1, <3>1, <4>1 DEF MineOK, Whole
    <3>2. CASE task'[g].do = "unroute" /\ task'[g].fam = 1 /\ g \notin up'
      <4>1. Passed(g)' = {}
        BY <3>2, FamilyFacts DEF Passed
      <4> QED BY <1>1, <3>2, <4>1 DEF MineOK, Whole, Idle
    <3>3. CASE task'[g].do = "chains"
      BY <1>1, <3>3 DEF MineOK, Whole, Idle
    <3> QED BY <1>3, <1>5, <3>1, <3>2, <3>3 DEF Ended
  <2> QED BY <1>2, <2>1, <2>2, <2>3 DEF TakesFree
<1>6. CASE Moved(g) /\ task'[g].do \in {"look", "read", "del", "add"}
  <2>1. TaskOK(g)'
    BY <1>3, <1>4, <1>6 DEF TaskOK, Moved, Idle
  <2>2. MineOK(g)'
    BY <1>1, <1>6 DEF MineOK, Whole, Idle
  <2> QED BY <1>2, <1>6, <2>1, <2>2 DEF TakesFree, Moved
<1> QED BY <1>5, <1>6

LEMMA AddHoleOK ==
  ASSUME TablesIInv, NEW g \in Groups, AddHole(g)
  PROVE  StepOK(g)
<1> DEFINE f == Fam(g)
           m == mine[g].mark
<1>1. phase = "run" /\ task[g].do = "hole"
  BY Running DEF AddHole, At
<1>2. m \in Marks /\ f \in FamilySet /\ mine[g].rule = FamilySet /\ Passed(g) \subseteq mine[g].hole
  BY <1>1, GroupFacts DEF MineOK
<1>3. \/ kind[g] # "link" /\ task[g].fam = NumFamilies /\ Ended(g)
      \/ /\ Moved(g)
         /\ \/ task[g].fam < NumFamilies /\ task'[g].do = "hole" /\ task'[g].fam = task[g].fam + 1
            \/ task[g].fam = NumFamilies /\ task'[g].do = "look" /\ task'[g].fam = 1
  <2>1. CASE task[g].fam = NumFamilies /\ kind[g] # "link"
    <3>1. RoutesDone(g, TRUE)
      BY <2>1 DEF AddHole
    <3> QED BY <2>1, <3>1, GroupFacts, RoutesDoneIs
  <2>2. CASE ~(task[g].fam = NumFamilies /\ kind[g] # "link")
    <3>1. NextFamily(g, "hole", "look", 1) /\ "hole" \in Dos /\ "look" \in Dos
      BY <2>2 DEF AddHole, Dos
    <3> QED BY <3>1, GroupFacts, NextFamilyIs
  <2> QED BY <2>1, <2>2
<1>4. /\ routes' = [routes EXCEPT ![m][f].hole = TRUE] /\ mine' = [mine EXCEPT ![g].hole = @ \cup {f}]
      /\ UNCHANGED <<Others, rules, chains, up, budget>>
  BY DEF AddHole
<1>5. Fam(g) = Families[task[g].fam]
  BY DEF Fam
<1> HIDE DEF f, m
<1>6. /\ mine' \in [Groups -> Memory] /\ \A h \in Groups \ {g} : mine'[h] = mine[h]
      /\ mine'[g].mark = m /\ mine'[g].rule = FamilySet /\ mine'[g].hole = mine[g].hole \cup {f}
      /\ mine'[g].via = mine[g].via
  <2>1. mine[g].hole \cup {f} \in SUBSET FamilySet
    BY <1>2, GroupFacts
  <2> QED BY <1>2, <1>4, <2>1, GroupFacts DEF Memory, m
<1>7. /\ routes' \in [Marks -> Tables] /\ \A n \in Marks \ {m} : routes'[n] = routes[n]
      /\ \A e \in FamilySet : routes'[m][e].via = routes[m][e].via
      /\ \A e \in FamilySet : routes'[m][e].hole <=> routes[m][e].hole \/ e = f
  <2>1. routes[m] \in Tables
    BY <1>2, GroupFacts
  <2>2. \A e \in FamilySet : routes[m][e] \in [hole : BOOLEAN, via : Vias]
    BY <2>1 DEF Tables
  <2>3. routes'[m] = [routes[m] EXCEPT ![f].hole = TRUE] /\ \A n \in Marks \ {m} : routes'[n] = routes[n]
    BY <1>2, <1>4, GroupFacts
  <2>4. routes'[m] \in Tables
    BY <1>2, <2>1, <2>3 DEF Tables
  <2>5. routes' \in [Marks -> Tables]
    BY <1>2, <1>4, <2>3, <2>4, GroupFacts
  <2> QED BY <1>2, <2>1, <2>2, <2>3, <2>5 DEF Tables
<1>8. Claims(g)
  <2>1. FamilySet # {}
    BY FamilyFacts
  <2>2. 0 \notin Marks
    BY DEF Marks
  <2> QED BY <1>2, <2>1, <2>2, Zenon DEF Claims, m
<1>9. OwnOnly(g) /\ TablesTypes'
  <2>1. task' \in [Groups -> Tasks] /\ \A h \in Groups \ {g} : task'[h] = task[h]
    BY <1>3 DEF Moved, Ended
  <2> QED BY <1>1, <1>2, <1>4, <1>6, <1>7, <1>8, <2>1, BudgetKeeps, TableStep DEF m
<1>10. task[g].fam = NumFamilies => mine'[g].hole = FamilySet
  BY <1>2, <1>5, <1>6, FamilyFacts, GroupFacts DEF Passed, f
<1>11. TakesFree(g) /\ TaskOK(g)' /\ MineOK(g)'
  <2>1. CASE task[g].fam = NumFamilies
    <3>1. Ended(g) \/ (Moved(g) /\ task'[g].do \in {"look", "read", "del", "add"})
      BY <1>3, <2>1, GroupFacts
    <3> QED BY <1>1, <1>4, <1>6, <1>10, <2>1, <3>1, WholeStep DEF m
  <2>2. CASE task[g].fam # NumFamilies
    <3>1. Moved(g) /\ task[g].fam < NumFamilies /\ task'[g].do = "hole" /\ task'[g].fam = task[g].fam + 1
      BY <1>3, <2>2
    <3>2. TaskOK(g)'
      BY <1>1, <1>4, <3>1, GroupFacts DEF TaskOK, Moved, Idle
    <3>3. Passed(g)' \subseteq mine'[g].hole
      BY <1>2, <1>5, <1>6, <3>1, FamilyFacts, GroupFacts DEF Passed, f
    <3>4. g \in up => mine'[g].hole = FamilySet
      BY <1>6, <1>2, GroupFacts DEF MineOK, Whole
    <3>5. MineOK(g)'
      BY <1>2, <1>4, <1>6, <3>1, <3>3, <3>4, GroupFacts, FamilyFacts DEF MineOK, Whole, Idle, m
    <3>6. TakesFree(g)
      BY <1>2, <1>6, <1>8, <3>1, FamilyFacts, GroupFacts DEF TakesFree, Moved, Claims, m
    <3> QED BY <3>2, <3>5, <3>6
  <2> QED BY <2>1, <2>2
<1>12. KernelOK(g)'
  <2>1. KernelOK(g)
    BY GroupFacts
  <2>2. UNCHANGED rules
    BY <1>4
  <2> QED BY <1>2, <1>6, <1>7, <1>8, <2>1, <2>2 DEF KernelOK, m
<1>13. AddOK(g)' /\ task'[g].do \notin {"del", "add"}
  BY <1>3 DEF AddOK, Ended, Idle
<1>14. Coming(g)'
  <2>1. kind' = kind
    BY <1>4 DEF Others, given
  <2> QED BY <1>3, <2>1 DEF Coming, Ahead, Wants
<1> QED BY <1>9, <1>11, <1>12, <1>13, <1>14 DEF StepOK, GroupOK

(* A request fails that ends the Enable or the hook.                         *)
LEMMA RequestEnds ==
  ASSUME TablesIInv, NEW g \in Groups, task[g].do \in {"mark", "rule", "hole", "look", "chains"},
         Spend("faults"), UNCHANGED <<Others, kernel, up, mine>>,
         IF task[g].why = "enable" THEN Fails(g) ELSE Stops(g)
  PROVE  StepOK(g)
<1>1. phase = "run" /\ task[g].do \in {"mark", "rule", "hole", "look", "chains"}
  BY Running
<1>2. UNCHANGED <<Others, kernel, up, mine>> /\ Spend("faults")
  OBVIOUS
<1>3. \/ task[g].why = "enable" /\ g \notin up
      \/ task[g].why \in {"link", "addr"} /\ g \in up
  BY <1>1, GroupFacts DEF TaskOK, Idle
<1>4. CASE task[g].why = "enable"
  <2>1. /\ task' \in [Groups -> Tasks] /\ \A h \in Groups \ {g} : task'[h] = task[h]
        /\ task'[g].why = "disable" /\ task'[g].do = "unroute" /\ task'[g].fam = 1
        /\ task'[g].locked = task[g].locked
    <3>1. Fails(g)
      BY <1>4
    <3> QED BY <3>1, GroupFacts, FailsIs
  <2>2. OwnOnly(g) /\ TakesFree(g) /\ TablesTypes' /\ KernelOK(g)'
    BY <1>1, <1>2, <2>1, TaskStep, BudgetKeeps
  <2>3. UNCHANGED <<up, mine>> /\ g \notin up
    BY <1>2, <1>3, <1>4
  <2>4. TaskOK(g)' /\ AddOK(g)'
    BY <2>1, <2>3 DEF TaskOK, AddOK
  <2>5. MineOK(g)'
    <3>1. Passed(g)' = {}
      BY <2>1, FamilyFacts DEF Passed
    <3> QED BY <2>1, <2>3, <3>1, GroupFacts DEF MineOK, Bare, Idle
  <2>6. Coming(g)'
    BY <2>1, <2>3 DEF Coming, Wants
  <2> QED BY <2>1, <2>2, <2>4, <2>5, <2>6 DEF StepOK, GroupOK
<1>5. CASE task[g].why # "enable"
  <2>1. task' \in [Groups -> Tasks] /\ task'[g] = Idle /\ \A h \in Groups \ {g} : task'[h] = task[h]
    <3>1. Stops(g)
      BY <1>5
    <3> QED BY <3>1, GroupFacts, StopsIs
  <2>2. task'[g].why = "none" /\ task'[g].do = "none" /\ ~task'[g].locked
    BY <2>1 DEF Idle
  <2>3. OwnOnly(g) /\ TakesFree(g) /\ TablesTypes' /\ KernelOK(g)'
    BY <1>1, <1>2, <2>1, <2>2, TaskStep, BudgetKeeps
  <2>4. UNCHANGED <<up, mine>> /\ g \in up
    BY <1>2, <1>3, <1>5
  <2>5. TaskOK(g)' /\ AddOK(g)'
    BY <2>1, <2>2 DEF TaskOK, AddOK
  <2>6. MineOK(g)'
    BY <2>2, <2>4, GroupFacts DEF MineOK, Bare, Whole
  <2>7. Coming(g)'
    BY <1>2, BudgetKeeps DEF Coming
  <2> QED BY <2>2, <2>3, <2>5, <2>6, <2>7 DEF StepOK, GroupOK
<1> QED BY <1>4, <1>5

LEMMA InstallChainsOK ==
  ASSUME TablesIInv, NEW g \in Groups, InstallChains(g)
  PROVE  StepOK(g)
<1>1. phase = "run" /\ task[g].do = "chains"
  BY Running DEF InstallChains, At
<1>2. task' \in [Groups -> Tasks] /\ task'[g] = Idle /\ \A h \in Groups \ {g} : task'[h] = task[h]
  BY GroupFacts, StopsIs DEF InstallChains
<1>3. task'[g].why = "none" /\ task'[g].do = "none" /\ ~task'[g].locked
  BY <1>2 DEF Idle
<1>4. /\ up' = up \cup {g} /\ chains' = chains \cup {g}
      /\ UNCHANGED <<kind, p2p, link, rules, routes, phase, mine, loop, events, budget>>
  BY DEF InstallChains, Others, given
<1>5. OwnOnly(g) /\ TakesFree(g) /\ TablesTypes' /\ KernelOK(g)'
  <2>1. chains' \subseteq Groups /\ up' \subseteq Groups
          /\ loop' \in Loops
    BY <1>4 DEF TablesIInv, TablesTypes, DaemonTypes
  <2>2. \A h \in Groups : Reporting(h) => Reporting(h)'
    BY <1>4 DEF Reporting
  <2>3. \A h \in Groups \ {g} : h \in up' <=> h \in up
    BY <1>4
  <2> QED BY <1>1, <1>2, <1>3, <1>4, <2>1, <2>2, <2>3, QuietStep, BudgetKeeps
<1>6. TaskOK(g)' /\ AddOK(g)'
  BY <1>2, <1>3 DEF TaskOK, AddOK
<1>7. MineOK(g)'
  BY <1>1, <1>3, <1>4, GroupFacts DEF MineOK, Bare, Whole
<1>8. Coming(g)'
  <2> SUFFICES ASSUME p2p, budget.faults = MaxFaults, NEW e \in FamilySet, Wants(g, e)'
               PROVE  Reporting(g)' \/ routes'[mine'[g].mark][e].via # None
    BY <1>4 DEF Coming
  <2>1. task[g].why = "enable"
    BY <1>1, GroupFacts DEF TaskOK, Idle
  <2>2. Wants(g, e)
    BY <1>4, <2>1 DEF Wants
  <2>3. Reporting(g) \/ routes[mine[g].mark][e].via # None
    BY <1>1, <2>2, GroupFacts DEF Coming, Ahead
  <2> QED BY <1>4, <2>3 DEF Reporting
<1> QED BY <1>3, <1>5, <1>6, <1>7, <1>8 DEF StepOK, GroupOK

--------------------------------------------------------------------------------
(* The route through the interface *)

(* What is known of a task that is about the route.                          *)
LEMMA RouteTask ==
  ASSUME TablesIInv, NEW g \in Groups, task[g].do \in {"look", "read", "del", "add"}
  PROVE  /\ phase = "run" /\ mine[g].mark \in Marks /\ mine[g].rule = FamilySet /\ mine[g].hole = FamilySet
         /\ Claims(g)
         /\ \/ task[g].why = "enable" /\ g \notin up
            \/ task[g].why \in {"link", "addr"} /\ g \in up
<1>1. phase = "run"
  BY Running
<1>2. mine[g].rule = FamilySet /\ mine[g].hole = FamilySet /\ mine[g].mark # 0 /\ FamilySet # {}
  BY GroupFacts, FamilyFacts DEF MineOK, Whole
<1>3. \/ task[g].why = "enable" /\ g \notin up
      \/ task[g].why \in {"link", "addr"} /\ g \in up
  BY GroupFacts DEF TaskOK, Idle
<1> QED BY <1>1, <1>2, <1>3, GroupFacts DEF Claims

LEMMA LookOK ==
  ASSUME TablesIInv, NEW g \in Groups, Look(g)
  PROVE  StepOK(g)
<1>1. task[g].do = "look"
  BY DEF Look, At
<1>2. UNCHANGED <<Others, kernel, up, mine>> /\ budget' = budget
  BY DEF Look
<1>3. \/ ~link.up /\ Ended(g)
      \/ link.up /\ Moved(g) /\ task'[g].do = "read" /\ task'[g].fam = 1
  <2>1. CASE link.up
    <3>1. GoTo(g, "read", 1) /\ "read" \in Dos /\ 1 \in 1 .. NumFamilies
      BY <2>1, FamilyFacts DEF Look, Dos
    <3> QED BY <2>1, <3>1, GroupFacts, GoToIs
  <2>2. CASE ~link.up
    <3>1. RoutesDone(g, TRUE)
      BY <2>2 DEF Look
    <3> QED BY <2>2, <3>1, GroupFacts, RoutesDoneIs
  <2> QED BY <2>1, <2>2
<1>4. Claims(g) /\ Claims(g)' /\ TakesFree(g) /\ TaskOK(g)' /\ MineOK(g)'
  BY <1>1, <1>2, <1>3, RouteTask, WholeStep
<1>5. OwnOnly(g) /\ TablesTypes' /\ KernelOK(g)'
  <2>1. task'[g].why = "enable" => task[g].why = "enable"
    BY <1>3 DEF Ended, Moved, Idle
  <2>2. task'[g].locked => task[g].locked \/ MutexFree
    BY <1>4 DEF TakesFree
  <2>3. task' \in [Groups -> Tasks] /\ \A h \in Groups \ {g} : task'[h] = task[h]
    BY <1>3 DEF Ended, Moved
  <2> QED BY <1>1, <1>2, <2>1, <2>2, <2>3, RouteTask, TaskStep, BudgetKeeps
<1>6. AddOK(g)' /\ task'[g].do \notin {"del", "add"}
  BY <1>3 DEF AddOK, Ended, Idle
<1>7. Coming(g)'
  <2>1. link' = link
    BY <1>2 DEF Others
  <2>2. CASE link.up
    BY <1>3, <2>2, FamilyFacts DEF Coming, Ahead
  <2>3. CASE ~link.up
    BY <2>1, <2>3 DEF Coming, Wants
  <2> QED BY <2>2, <2>3
<1> QED BY <1>4, <1>5, <1>6, <1>7 DEF StepOK, GroupOK

(* A task that is done with a family leaves it with its route, or without if *)
(* it has no address; the other families are still ahead of it.              *)
LEMMA NextRoute ==
  ASSUME TablesIInv, NEW g \in Groups, task[g].do \in {"read", "del", "add"},
         \/ /\ task[g].fam < NumFamilies
            /\ Moved(g) /\ task'[g].do = "read" /\ task'[g].fam = task[g].fam + 1
         \/ /\ task[g].fam = NumFamilies /\ Ended(g),
         UNCHANGED <<Others, up>>, budget'.faults = MaxFaults => budget.faults = MaxFaults,
         mine'[g].mark = mine[g].mark,
         \A e \in FamilySet \ {Fam(g)} : routes'[mine[g].mark][e] = routes[mine[g].mark][e],
         budget'.faults = MaxFaults /\ p2p /\ link.up /\ Fam(g) \in link.addrs => routes'[mine[g].mark][Fam(g)].via # None
  PROVE  Coming(g)' /\ AddOK(g)' /\ task'[g].do \notin {"del", "add"}
<1>1. task'[g].do \notin {"del", "add"}
  BY DEF Ended, Idle
<1>2. AddOK(g)'
  BY <1>1 DEF AddOK
<1>3. UNCHANGED <<kind, p2p, link, loop, events, up>>
  BY DEF Others, given
<1>4. Coming(g)'
  <2> SUFFICES ASSUME p2p, budget'.faults = MaxFaults, NEW e \in FamilySet, Wants(g, e)', e # Fam(g)
               PROVE  Ahead(g, e)' \/ Reporting(g)' \/ routes'[mine[g].mark][e].via # None
    BY <1>3 DEF Coming, Wants
  <2>1. task'[g].why = "enable" => task[g].why = "enable"
    BY DEF Ended, Moved, Idle
  <2>2. Wants(g, e)
    BY <1>3, <2>1 DEF Wants
  <2>3. Ahead(g, e) \/ Reporting(g) \/ routes[mine[g].mark][e].via # None
    BY <2>2, GroupFacts DEF Coming
  <2>4. Reporting(g) => Reporting(g)'
    BY <1>3 DEF Reporting
  <2>5. ASSUME Ahead(g, e)
        PROVE  Ahead(g, e)'
    <3>1. e \in From(task[g].fam + 1)
      BY <2>5, FamilyFacts, GroupFacts DEF Ahead, Fam
    <3>2. task[g].fam < NumFamilies
      BY <3>1, FamilyFacts, GroupFacts
    <3> QED BY <3>1, <3>2, FamilyFacts DEF Ahead
  <2> QED BY <2>3, <2>4, <2>5
<1> QED BY <1>1, <1>2, <1>4

(* Any request fails.                                                        *)
LEMMA RequestFailsOK ==
  ASSUME TablesIInv, NEW g \in Groups, RequestFails(g)
  PROVE  StepOK(g)
<1>1. UNCHANGED <<Others, kernel, up, mine>> /\ Spend("faults")
  BY DEF RequestFails
<1>2. CASE /\ task[g].do \in {"mark", "rule", "hole", "look", "chains"}
           /\ IF task[g].why = "enable" THEN Fails(g) ELSE Stops(g)
  BY <1>1, <1>2, RequestEnds
<1>3. CASE task[g].do \in {"read", "del"} /\ RouteDone(g, FALSE)
  <2>1. \/ /\ task[g].fam < NumFamilies
           /\ Moved(g) /\ task'[g].do = "read" /\ task'[g].fam = task[g].fam + 1
        \/ /\ task[g].fam = NumFamilies /\ Ended(g)
    BY <1>3, GroupFacts, RouteDoneIs
  <2>2. mine[g].rule = FamilySet /\ mine[g].hole = FamilySet
    BY <1>3, RouteTask
  <2>3. Claims(g)' /\ TakesFree(g) /\ TaskOK(g)' /\ MineOK(g)'
    BY <1>1, <1>3, <2>1, <2>2, WholeStep
  <2>4. OwnOnly(g) /\ TablesTypes' /\ KernelOK(g)'
    <3>1. task'[g].why = "enable" => task[g].why = "enable"
      BY <2>1 DEF Ended, Moved, Idle
    <3>2. task'[g].locked => task[g].locked \/ MutexFree
      BY <2>3 DEF TakesFree
    <3>3. task' \in [Groups -> Tasks] /\ \A h \in Groups \ {g} : task'[h] = task[h]
      BY <2>1 DEF Ended, Moved
    <3> QED BY <1>1, <1>3, <3>1, <3>2, <3>3, RouteTask, TaskStep, BudgetKeeps
  <2>5. Coming(g)'
    BY <1>1, BudgetKeeps DEF Coming
  <2>6. AddOK(g)' /\ task'[g].do \notin {"del", "add"}
    BY <2>1 DEF AddOK, Ended, Idle
  <2> QED BY <2>3, <2>4, <2>5, <2>6 DEF StepOK, GroupOK
<1> QED BY <1>2, <1>3 DEF RequestFails

LEMMA ReadLinkOK ==
  ASSUME TablesIInv, NEW g \in Groups, ReadLink(g)
  PROVE  StepOK(g)
<1> DEFINE f == Fam(g)
           gw == Gateway(f)
           current == mine[g].via[f]
           there == f \notin link.addrs \/ (gw # OnLink /\ gw = current)
           do == IF current # None /\ gw # OnLink THEN "del" ELSE "add"
<1>1. task[g].do = "read" /\ f \in FamilySet
  BY GroupFacts DEF ReadLink, At
<1>2. UNCHANGED <<Others, kernel, up, mine>> /\ budget' = budget
  BY DEF ReadLink
<1>3. gw \in Vias \ {None} /\ (p2p => gw = OnLink)
  <2>1. link.gw[f] \in Gateways \cup {None}
    BY <1>1 DEF TablesIInv, TablesTypes, KernelTypes
  <2> QED BY <2>1, GatewayAssumption DEF Gateway, Vias
<1>4. there => RouteDone(g, TRUE)
  BY DEF ReadLink
<1>5. ~there => task' = [task EXCEPT ![g].gw = gw, ![g].do = do]
  BY DEF ReadLink
<1> HIDE DEF gw
<1>6. CASE there
  <2>1. \/ /\ task[g].fam < NumFamilies
           /\ Moved(g) /\ task'[g].do = "read" /\ task'[g].fam = task[g].fam + 1
        \/ /\ task[g].fam = NumFamilies /\ Ended(g)
    BY <1>4, <1>6, GroupFacts, RouteDoneIs
  <2>2. Claims(g)' /\ TakesFree(g) /\ TaskOK(g)' /\ MineOK(g)'
    BY <1>1, <1>2, <2>1, RouteTask, WholeStep
  <2>3. OwnOnly(g) /\ TablesTypes' /\ KernelOK(g)'
    <3>1. task'[g].why = "enable" => task[g].why = "enable"
      BY <2>1 DEF Ended, Moved, Idle
    <3>2. task'[g].locked => task[g].locked \/ MutexFree
      BY <2>2 DEF TakesFree
    <3>3. task' \in [Groups -> Tasks] /\ \A h \in Groups \ {g} : task'[h] = task[h]
      BY <2>1 DEF Ended, Moved
    <3> QED BY <1>1, <1>2, <3>1, <3>2, <3>3, RouteTask, TaskStep, BudgetKeeps
  <2>4. Coming(g)' /\ AddOK(g)' /\ task'[g].do \notin {"del", "add"}
    <3>1. p2p => f \notin link.addrs
      BY <1>3, <1>6
    <3>2. routes' = routes /\ mine' = mine
      BY <1>2 DEF kernel
    <3> QED BY <1>1, <1>2, <2>1, <3>1, <3>2, NextRoute
  <2> QED BY <2>2, <2>3, <2>4 DEF StepOK, GroupOK
<1>7. CASE ~there
  <2>1. do \in {"del", "add"} /\ do \in Dos
    BY DEF Dos
  <2>2. /\ Moved(g) /\ task'[g].do = do /\ task'[g].gw = gw /\ task'[g].fam = task[g].fam
    <3> HIDE DEF do
    <3> QED BY <1>3, <1>5, <1>7, <2>1, GroupFacts DEF Moved, Tasks
  <2>3. Claims(g) /\ Claims(g)' /\ TakesFree(g) /\ TaskOK(g)' /\ MineOK(g)'
    BY <1>1, <1>2, <2>1, <2>2, RouteTask, WholeStep
  <2>4. OwnOnly(g) /\ TablesTypes' /\ KernelOK(g)'
    <3>1. task'[g].locked => task[g].locked \/ MutexFree
      BY <2>3 DEF TakesFree
    <3> QED BY <1>1, <1>2, <2>2, <3>1, RouteTask, TaskStep, BudgetKeeps DEF Moved
  <2>5. p2p => task'[g].do # "del" /\ (task'[g].do = "add" => task'[g].gw = OnLink)
    BY <1>3, <2>2
  <2>6. AddOK(g)'
    BY <1>3, <2>2 DEF AddOK
  <2>7. Coming(g)'
    <3> SUFFICES ASSUME p2p, budget.faults = MaxFaults, NEW e \in FamilySet, Wants(g, e)
                 PROVE  Ahead(g, e)' \/ Reporting(g)' \/ routes'[mine'[g].mark][e].via # None
      <4>1. UNCHANGED <<kind, p2p, link, up, budget>> /\ task'[g].why = task[g].why
        BY <1>2, <2>2 DEF Moved, Others, given
      <4> QED BY <4>1 DEF Coming, Wants
    <3>1. Ahead(g, e) \/ Reporting(g) \/ routes[mine[g].mark][e].via # None
      BY GroupFacts DEF Coming
    <3>2. Ahead(g, e) => Ahead(g, e)'
      BY <1>1, <1>3, <2>2 DEF Ahead
    <3>3. UNCHANGED <<loop, events, routes, mine>>
      BY <1>2 DEF Others, kernel
    <3> QED BY <3>1, <3>2, <3>3 DEF Reporting
  <2> QED BY <2>3, <2>4, <2>5, <2>6, <2>7 DEF StepOK, GroupOK
<1> QED BY <1>6, <1>7

(* The table of a mark when the route of one family changes.                 *)
LEMMA ViaChanges ==
  ASSUME TablesIInv, NEW m \in Marks, NEW f \in FamilySet, NEW v \in Vias,
         routes' = [routes EXCEPT ![m][f].via = v]
  PROVE  /\ routes' \in [Marks -> Tables]
         /\ \A n \in Marks \ {m} : routes'[n] = routes[n]
         /\ \A e \in FamilySet \ {f} : routes'[m][e] = routes[m][e]
         /\ routes'[m][f].via = v /\ routes'[m][f].hole = routes[m][f].hole
<1>1. routes \in [Marks -> Tables] /\ routes[m] \in Tables
  BY DEF TablesIInv, TablesTypes, KernelTypes
<1>2. routes[m][f] \in [hole : BOOLEAN, via : Vias]
  BY <1>1 DEF Tables
<1>3. routes'[m] = [routes[m] EXCEPT ![f].via = v] /\ \A n \in Marks \ {m} : routes'[n] = routes[n]
  BY <1>1
<1>4. routes'[m] \in Tables
  BY <1>1, <1>3 DEF Tables
<1>5. routes' \in [Marks -> Tables]
  BY <1>1, <1>3, <1>4
<1>6. /\ \A e \in FamilySet \ {f} : routes'[m][e] = routes[m][e]
      /\ routes'[m][f] = [routes[m][f] EXCEPT !.via = v]
  BY <1>1, <1>3 DEF Tables
<1> QED BY <1>2, <1>3, <1>5, <1>6

LEMMA DelRouteOK ==
  ASSUME TablesIInv, NEW g \in Groups, DelRoute(g)
  PROVE  StepOK(g)
<1> DEFINE f == Fam(g)
           m == mine[g].mark
<1>1. task[g].do = "del" /\ f \in FamilySet
  BY GroupFacts DEF DelRoute, At
<1>2. UNCHANGED <<Others, rules, chains, strays, up, mine>> /\ budget' = budget
  BY DEF DelRoute
<1>3. m \in Marks /\ ~p2p /\ ~p2p'
  BY <1>1, <1>2, RouteTask DEF TablesIInv, TunnelOnLink, Others, given
<1>4. CASE Finds(m, f, mine[g].via[f])
  <2>1. routes' = [routes EXCEPT ![m][f].via = None] /\ GoTo(g, "add", task[g].fam)
    BY <1>4 DEF DelRoute
  <2>2. Moved(g) /\ task'[g].do = "add" /\ task'[g].fam = task[g].fam /\ task'[g].gw = task[g].gw
    <3>1. "add" \in Dos
      BY DEF Dos
    <3> QED BY <2>1, <3>1, GroupFacts, GoToIs
  <2> HIDE DEF f, m
  <2>3. /\ routes' \in [Marks -> Tables]
        /\ \A n \in Marks \ {m} : routes'[n] = routes[n]
        /\ \A e \in FamilySet \ {f} : routes'[m][e] = routes[m][e]
        /\ routes'[m][f].via = None /\ routes'[m][f].hole = routes[m][f].hole
    <3>1. None \in Vias
      BY Zenon DEF Vias
    <3>2. ASSUME NEW v \in Vias, routes' = [routes EXCEPT ![m][f].via = v]
          PROVE  /\ routes' \in [Marks -> Tables]
                 /\ \A n \in Marks \ {m} : routes'[n] = routes[n]
                 /\ \A e \in FamilySet \ {f} : routes'[m][e] = routes[m][e]
                 /\ routes'[m][f].via = v /\ routes'[m][f].hole = routes[m][f].hole
      BY <1>1, <1>3, <3>2, ViaChanges, Zenon
    <3> QED BY <2>1, <3>1, <3>2
  <2>4. Claims(g) /\ Claims(g)' /\ TakesFree(g) /\ TaskOK(g)' /\ MineOK(g)'
    BY <1>1, <1>2, <2>2, RouteTask, WholeStep
  <2>5. OwnOnly(g) /\ TablesTypes'
    <3>1. \A e \in FamilySet : e = f \/ routes'[m][e] = routes[m][e]
      BY <2>3, Zenon
    <3>2. \A e \in FamilySet : routes'[m][e].via \in {None, routes[m][e].via}
      BY <2>3, <3>1, Zenon
    <3> QED BY <1>1, <1>2, <2>2, <2>3, <2>4, <3>2, BudgetKeeps, RouteTask, TableStep, GroupFacts DEF Moved, m
  <2>6. KernelOK(g)'
    <3>1. KernelOK(g)
      BY GroupFacts
    <3> QED BY <1>1, <1>2, <2>3, <2>4, <3>1 DEF KernelOK, m
  <2>7. AddOK(g)'
    BY <1>1, <2>2, GroupFacts DEF AddOK
  <2> QED BY <1>3, <2>4, <2>5, <2>6, <2>7 DEF StepOK, GroupOK, Coming
<1>5. CASE ~Finds(m, f, mine[g].via[f])
  <2>1. routes' = routes /\ RouteDone(g, FALSE)
    BY <1>5 DEF DelRoute
  <2>2. \/ /\ task[g].fam < NumFamilies
           /\ Moved(g) /\ task'[g].do = "read" /\ task'[g].fam = task[g].fam + 1
        \/ /\ task[g].fam = NumFamilies /\ Ended(g)
    BY <2>1, GroupFacts, RouteDoneIs
  <2>3. Claims(g) /\ Claims(g)' /\ TakesFree(g) /\ TaskOK(g)' /\ MineOK(g)'
    BY <1>1, <1>2, <2>2, RouteTask, WholeStep
  <2>4. task' \in [Groups -> Tasks] /\ \A h \in Groups \ {g} : task'[h] = task[h]
    BY <2>2 DEF Ended, Moved
  <2>5. OwnOnly(g) /\ TablesTypes' /\ KernelOK(g)'
    <3>1. task'[g].why = "enable" => task[g].why = "enable"
      BY <2>2 DEF Ended, Moved, Idle
    <3>2. task'[g].locked => task[g].locked \/ MutexFree
      BY <2>3 DEF TakesFree
    <3>3. UNCHANGED <<Others, kernel, up, mine>>
      BY <1>2, <2>1 DEF kernel
    <3> QED BY <1>1, <1>2, <2>4, <3>1, <3>2, <3>3, RouteTask, TaskStep, BudgetKeeps
  <2>6. AddOK(g)' /\ task'[g].do \notin {"del", "add"}
    BY <1>1, <1>2, <1>3, <2>1, <2>2, NextRoute
  <2> QED BY <1>3, <2>3, <2>5, <2>6 DEF StepOK, GroupOK, Coming
<1> QED BY <1>4, <1>5

LEMMA AddRouteOK ==
  ASSUME TablesIInv, NEW g \in Groups, AddRoute(g)
  PROVE  StepOK(g)
<1> DEFINE f == Fam(g)
           m == mine[g].mark
           gw == task[g].gw
           sound(kept) == kept = {} /\ link.up /\ (gw # OnLink => f \in link.addrs)
           had == routes[m][f].via
<1>1. task[g].do = "add" /\ f \in FamilySet /\ gw \in Vias \ {None} /\ (p2p => gw = OnLink)
  <2>1. task[g].do = "add" /\ gw \in Vias
    BY GroupFacts DEF AddRoute, At, Tasks
  <2> QED BY <2>1, GroupFacts DEF AddOK, TablesIInv, TunnelOnLink
<1>2. UNCHANGED <<Others, rules, chains, up>>
  BY DEF AddRoute
<1>3. m \in Marks /\ Claims(g) /\ phase = "run"
  BY <1>1, RouteTask
<1>a. PICK kept \in SUBSET {"add"} :
        /\ Refused(kept)
        /\ mine' = [mine EXCEPT ![g].via[f] = IF sound(kept) THEN gw ELSE None]
        /\ IF sound(kept) /\ had = None THEN routes' = [routes EXCEPT ![m][f].via = gw] ELSE UNCHANGED routes
        /\ RouteDone(g, sound(kept))
  BY Zenon DEF AddRoute
<1> DEFINE works == sound(kept)
<1>b. /\ budget' \in [turns : Nat, changes : Nat, faults : 0 .. MaxFaults, crashes : Nat]
      /\ budget'.faults = MaxFaults => budget.faults = MaxFaults /\ kept = {}
  BY <1>a, RefusedKeeps
<1>4. mine' = [mine EXCEPT ![g].via[f] = IF works THEN gw ELSE None]
  BY <1>a
<1>5. /\ works /\ had = None => routes' = [routes EXCEPT ![m][f].via = gw]
      /\ ~(works /\ had = None) => routes' = routes
  BY <1>a
<1>6. \/ /\ task[g].fam < NumFamilies
         /\ Moved(g) /\ task'[g].do = "read" /\ task'[g].fam = task[g].fam + 1
      \/ /\ task[g].fam = NumFamilies /\ Ended(g)
  <2>1. RouteDone(g, works)
    BY <1>a
  <2>2. works = TRUE \/ works = FALSE
    OBVIOUS
  <2> HIDE DEF works
  <2>3. CASE works = TRUE
    BY <2>1, <2>3, GroupFacts, RouteDoneIs
  <2>4. CASE works = FALSE
    BY <2>1, <2>4, GroupFacts, RouteDoneIs
  <2> QED BY <2>2, <2>3, <2>4
<1> HIDE DEF f, m, gw
<1>8. /\ mine' \in [Groups -> Memory] /\ \A h \in Groups \ {g} : mine'[h] = mine[h]
      /\ mine'[g].mark = m /\ mine'[g].rule = FamilySet /\ mine'[g].hole = FamilySet
      /\ \A e \in FamilySet \ {f} : mine'[g].via[e] = mine[g].via[e]
      /\ mine'[g].via[f] = IF works THEN gw ELSE None
  <2>1. mine[g].rule = FamilySet /\ mine[g].hole = FamilySet
    BY <1>1, RouteTask
  <2>2. (IF works THEN gw ELSE None) \in Vias
    BY <1>1 DEF Vias
  <2> HIDE DEF works
  <2> QED BY <1>1, <1>4, <2>1, <2>2, GroupFacts DEF Memory, m
<1>9. /\ routes' \in [Marks -> Tables]
      /\ \A n \in Marks \ {m} : routes'[n] = routes[n]
      /\ \A e \in FamilySet \ {f} : routes'[m][e] = routes[m][e]
      /\ routes'[m][f].via = IF works /\ had = None THEN gw ELSE had
      /\ routes'[m][f].hole = routes[m][f].hole
  <2>1. CASE works /\ had = None
    BY <1>1, <1>3, <1>5, <2>1, ViaChanges
  <2>2. CASE ~(works /\ had = None)
    BY <1>5, <2>2, GroupFacts
  <2> QED BY <2>1, <2>2
<1>10. task' \in [Groups -> Tasks] /\ \A h \in Groups \ {g} : task'[h] = task[h]
  BY <1>6 DEF Ended, Moved
<1>11. Claims(g)' /\ TakesFree(g) /\ TaskOK(g)' /\ MineOK(g)'
  <2>1. up' = up /\ mine'[g].mark = mine[g].mark /\ mine'[g].rule = FamilySet /\ mine'[g].hole = FamilySet
    BY <1>2, <1>8 DEF m
  <2>2. Ended(g) \/ (Moved(g) /\ task'[g].do = "read")
    BY <1>6, Zenon
  <2> QED BY <1>1, <2>1, <2>2, WholeStep
<1>12. OwnOnly(g) /\ TablesTypes'
  <2>1. ~link.up => \A e \in FamilySet : routes'[m][e].via \in {None, routes[m][e].via}
    <3> SUFFICES ASSUME ~link.up, NEW e \in FamilySet
                 PROVE  routes'[m][e].via \in {None, routes[m][e].via}
      OBVIOUS
    <3>1. routes' = routes
      BY <1>5
    <3> QED BY <3>1, Zenon
  <2> HIDE DEF works, had
  <2> QED BY <1>2, <1>3, <1>b, <1>8, <1>9, <1>10, <2>1, TableStep DEF m
<1>13. KernelOK(g)'
  <2>1. KernelOK(g)
    BY GroupFacts
  <2>5. mine[g].rule = FamilySet /\ mine[g].hole = FamilySet
    BY <1>1, RouteTask
  <2>2. ASSUME NEW e \in FamilySet
        PROVE  <<m, e>> \in rules' /\ routes'[m][e].hole
    <3>1. routes'[m][e].hole <=> routes[m][e].hole
      <4>1. CASE e = f
        BY <1>9, <4>1
      <4>2. CASE e # f
        BY <1>9, <4>2, Zenon
      <4> QED BY <4>1, <4>2
    <3>2. rules' = rules
      BY <1>2
    <3>3. <<m, e>> \in rules /\ routes[m][e].hole
      BY <1>3, <2>1, <2>5 DEF KernelOK, m
    <3> QED BY <3>1, <3>2, <3>3
  <2> QED BY <1>8, <2>2 DEF KernelOK
<1>14. Coming(g)' /\ AddOK(g)' /\ task'[g].do \notin {"del", "add"}
  <2>1. budget'.faults = MaxFaults /\ p2p /\ link.up => routes'[m][f].via # None
    BY <1>1, <1>b, <1>9
  <2> QED BY <1>1, <1>2, <1>b, <1>6, <1>8, <1>9, <2>1, NextRoute DEF f, m
<1> QED BY <1>11, <1>12, <1>13, <1>14 DEF StepOK, GroupOK

--------------------------------------------------------------------------------
(* The requests of disable *)

(* What is known of a task that disables.                                    *)
LEMMA DisableTask ==
  ASSUME TablesIInv, NEW g \in Groups, task[g].do \in {"unroute", "unrule", "unchain"}
  PROVE  /\ phase = "run" /\ task[g].why = "disable" /\ g \notin up
         /\ Claims(g) <=> mine[g].rule # {}
         /\ mine[g].mark = 0 => mine[g].rule = {}
         /\ mine[g].rule = {} => Bare(g)
<1>1. phase = "run"
  BY Running
<1>2. task[g].why = "disable" /\ g \notin up
  BY GroupFacts DEF TaskOK, Idle
<1> QED BY <1>1, <1>2, GroupFacts DEF MineOK, Claims

LEMMA DeleteRoutesOK ==
  ASSUME TablesIInv, NEW g \in Groups, DeleteRoutes(g)
  PROVE  StepOK(g)
<1> DEFINE f == Fam(g)
           m == mine[g].mark
           gone(kept) == Deletable(g, f) \ kept
           left(kept) == [hole |-> routes[m][f].hole /\ "hole" \notin gone(kept),
                          via |-> IF "via" \in gone(kept) THEN None ELSE routes[m][f].via]
<1>1. task[g].do = "unroute" /\ f \in FamilySet
  BY GroupFacts DEF DeleteRoutes, At
<1>2. UNCHANGED <<Others, rules, chains, up>>
  BY DEF DeleteRoutes
<1>3. /\ Moved(g)
      /\ \/ task[g].fam < NumFamilies /\ task'[g].do = "unroute" /\ task'[g].fam = task[g].fam + 1
         \/ task[g].fam = NumFamilies /\ task'[g].do = "unrule" /\ task'[g].fam = 1
  <2>1. NextFamily(g, "unroute", "unrule", 1) /\ "unroute" \in Dos /\ "unrule" \in Dos
    BY AfterIs DEF DeleteRoutes, Dos
  <2> QED BY <2>1, GroupFacts, NextFamilyIs
<1>4. mine' = [mine EXCEPT ![g].hole = @ \ {f}, ![g].via[f] = None]
  BY DEF DeleteRoutes
<1>5. PICK kept \in SUBSET Deletable(g, f) :
        /\ Refused(kept)
        /\ routes' = IF gone(kept) = {} THEN routes ELSE [routes EXCEPT ![m][f] = left(kept)]
  <2>1. \E kept \in SUBSET Deletable(g, f) :
          /\ Refused(kept)
          /\ routes' = IF Deletable(g, f) \ kept = {} THEN routes
                       ELSE [routes EXCEPT ![m][f] = [hole |-> @.hole /\ "hole" \notin Deletable(g, f) \ kept,
                                                      via |-> IF "via" \in Deletable(g, f) \ kept THEN None ELSE @.via]]
    BY Zenon DEF DeleteRoutes
  <2> QED BY <2>1
<1>b. /\ budget' \in [turns : Nat, changes : Nat, faults : 0 .. MaxFaults, crashes : Nat]
      /\ budget'.faults = MaxFaults => budget.faults = MaxFaults
  BY <1>5, RefusedKeeps
<1>6. Fam(g) = Families[task[g].fam]
  BY DEF Fam
<1>7. Claims(g) => m \in Marks
  BY GroupFacts DEF Claims
<1>8. ASSUME ~Claims(g)
      PROVE  routes' = routes
  <2>1. Bare(g)
    BY <1>1, <1>8, DisableTask
  <2>2. f \notin mine[g].hole /\ mine[g].via[f] = None
    BY <1>1, <2>1 DEF Bare, NoVia
  <2>3. Deletable(g, f) = {}
    BY <2>2 DEF Deletable
  <2> QED BY <1>5, <2>3
<1> HIDE DEF f, gone
<1>9. /\ mine' \in [Groups -> Memory] /\ \A h \in Groups \ {g} : mine'[h] = mine[h]
      /\ mine'[g].mark = m /\ mine'[g].rule = mine[g].rule /\ mine'[g].hole = mine[g].hole \ {f}
      /\ mine'[g].via = [mine[g].via EXCEPT ![f] = None]
  <2>1. mine[g].hole \ {f} \in SUBSET FamilySet /\ [mine[g].via EXCEPT ![f] = None] \in [FamilySet -> Vias]
    BY <1>1, GroupFacts DEF Vias
  <2> QED BY <1>4, <2>1, GroupFacts DEF Memory
<1>10. ASSUME Claims(g)
       PROVE  /\ routes' \in [Marks -> Tables]
              /\ \A n \in Marks \ {m} : routes'[n] = routes[n]
              /\ \A e \in FamilySet \ {f} : routes'[m][e] = routes[m][e]
              /\ routes'[m][f].via \in {None, routes[m][f].via}
  <2>1. routes \in [Marks -> Tables] /\ routes[m] \in Tables /\ m \in Marks
    BY <1>7, <1>10, GroupFacts
  <2>2. CASE gone(kept) = {}
    BY <1>5, <2>1, <2>2
  <2>3. CASE gone(kept) # {}
    <3> DEFINE l == left(kept)
    <3>1. routes' = [routes EXCEPT ![m][f] = l]
      BY <1>5, <2>3
    <3>2. routes[m][f] \in [hole : BOOLEAN, via : Vias]
      BY <1>1, <2>1 DEF Tables
    <3>3. l.via \in {None, routes[m][f].via} /\ l \in [hole : BOOLEAN, via : Vias]
      <4>1. (routes[m][f].hole /\ "hole" \notin gone(kept)) \in BOOLEAN
        BY Zenon
      <4>2. (IF "via" \in gone(kept) THEN None ELSE routes[m][f].via) \in {None, routes[m][f].via}
        BY Zenon
      <4> QED BY <3>2, <4>1, <4>2 DEF Vias
    <3> HIDE DEF l
    <3>4. routes'[m] = [routes[m] EXCEPT ![f] = l] /\ \A n \in Marks \ {m} : routes'[n] = routes[n]
      BY <2>1, <3>1
    <3>5. routes'[m] \in Tables
      BY <1>1, <2>1, <3>3, <3>4 DEF Tables
    <3>6. routes'[m][f] = l /\ \A e \in FamilySet \ {f} : routes'[m][e] = routes[m][e]
      BY <1>1, <2>1, <3>4 DEF Tables
    <3> QED BY <2>1, <3>1, <3>3, <3>4, <3>5, <3>6
  <2> QED BY <2>2, <2>3
<1>11. OwnOnly(g) /\ TablesTypes'
  <2>1. CASE Claims(g)
    <3>1. \A e \in FamilySet : routes'[m][e].via \in {None, routes[m][e].via}
      <4>1. \A e \in FamilySet : e = f \/ routes'[m][e] = routes[m][e]
        BY <1>10, <2>1
      <4> QED BY <1>10, <2>1, <4>1, Zenon
    <3> QED BY <1>1, <1>2, <1>b, <1>3, <1>9, <1>10, <2>1, <3>1, DisableTask, TableStep DEF Moved
  <2>2. CASE ~Claims(g)
    <3>1. routes' = routes /\ UNCHANGED <<kind, p2p, link, phase, loop, events, rules, up>>
      BY <1>2, <1>8, <2>2 DEF Others, given
    <3>2. chains' \subseteq Groups /\ up' \subseteq Groups
      BY <1>2 DEF TablesIInv, TablesTypes, DaemonTypes
    <3>3. TablesTypes'
      BY <1>2, <1>b, <1>3, <1>9, <3>1, <3>2, GroupFacts, StepTypes DEF Moved
    <3>4. \A h \in Groups : Reporting(h) => Reporting(h)'
      BY <3>1 DEF Reporting
    <3> QED BY <1>1, <1>b, <1>3, <1>9, <3>1, <3>3, <3>4, DisableTask DEF OwnOnly, Moved
  <2> QED BY <2>1, <2>2
<1>12. task'[g].why = "disable" /\ g \notin up'
  BY <1>1, <1>2, <1>3, DisableTask DEF Moved
<1>13. Claims(g)' <=> Claims(g)
  BY <1>1, <1>9, <1>12, DisableTask, GroupFacts DEF Claims
<1>14. TakesFree(g)
  BY <1>3, <1>9, <1>13 DEF TakesFree, Moved
<1>15. KernelOK(g)'
  <2> SUFFICES ASSUME Claims(g), NEW e \in FamilySet
               PROVE  /\ e \in mine'[g].rule => <<m, e>> \in rules'
                      /\ e \in mine'[g].hole => routes'[m][e].hole
    BY <1>9, <1>13 DEF KernelOK
  <2>1. /\ e \in mine[g].rule => <<m, e>> \in rules
        /\ e \in mine[g].hole => routes[m][e].hole
    BY GroupFacts DEF KernelOK
  <2>2. e \in mine'[g].hole => e # f /\ routes'[m][e] = routes[m][e]
    BY <1>9, <1>10
  <2> QED BY <1>2, <1>9, <2>1, <2>2
<1>16. TaskOK(g)' /\ AddOK(g)' /\ Coming(g)' /\ task'[g].do \notin {"del", "add"}
  BY <1>3, <1>12 DEF TaskOK, AddOK, Coming, Wants
<1>17. MineOK(g)'
  <2>1. \A e \in Passed(g) \cup {f} : e \in FamilySet => e \notin mine'[g].hole /\ mine'[g].via[e] = None
    BY <1>1, <1>9, GroupFacts DEF MineOK
  <2>2. Bare(g) => Bare(g)'
    <3> SUFFICES ASSUME Bare(g) PROVE Bare(g)'
      OBVIOUS
    <3>1. mine'[g].hole = {} /\ mine'[g].via = NoVia
      BY <1>1, <1>9 DEF Bare, NoVia
    <3> QED BY <3>1 DEF Bare
  <2>3. mine'[g].rule = {} => Bare(g)'
    BY <1>1, <1>9, <2>2, DisableTask
  <2>4. CASE task[g].fam < NumFamilies
    <3>1. task'[g].do = "unroute" /\ Passed(g)' = Passed(g) \cup {f} /\ Passed(g)' \subseteq FamilySet
      <4>1. Before(task[g].fam) \subseteq FamilySet
        <5>1. \A j \in 1 .. task[g].fam - 1 : j \in 1 .. NumFamilies
          BY FamilyFacts, GroupFacts
        <5>2. \A j \in 1 .. task[g].fam - 1 : Families[j] \in FamilySet
          BY <5>1, FamilyFacts
        <5> QED BY <5>2 DEF Before
      <4>2. Passed(g)' = Before(task'[g].fam)
        BY DEF Passed, Before
      <4>3. task[g].fam \in 1 .. NumFamilies /\ f = Families[task[g].fam]
        BY <1>6, GroupFacts DEF f
      <4>4. Before(task[g].fam + 1) = Before(task[g].fam) \cup {f}
        BY <4>3, FamilyFacts
      <4>5. task'[g].do = "unroute" /\ task'[g].fam = task[g].fam + 1
        BY <1>3, <2>4, <4>3, FamilyFacts
      <4> QED BY <1>1, <4>1, <4>2, <4>4, <4>5 DEF Passed
    <3> QED BY <1>9, <1>12, <2>1, <2>3, <3>1, DisableTask, <1>1 DEF MineOK, Idle
  <2>5. CASE task[g].fam = NumFamilies
    <3>1. task'[g].do = "unrule" /\ Passed(g)' = {} /\ FamilySet = Passed(g) \cup {f}
      BY <1>3, <1>6, <2>5, FamilyFacts, GroupFacts DEF Passed, f
    <3>2. \A e \in FamilySet : e \notin mine'[g].hole /\ mine'[g].via[e] = None
      BY <2>1, <3>1
    <3>3. mine'[g].hole \subseteq FamilySet /\ mine'[g].via \in [FamilySet -> Vias]
      BY <1>9 DEF Memory
    <3>4. Bare(g)'
      BY <3>2, <3>3 DEF Bare, NoVia
    <3> QED BY <1>1, <1>9, <1>12, <3>1, <3>4, DisableTask DEF MineOK, Idle
  <2> QED BY <1>3, <2>4, <2>5
<1> QED BY <1>11, <1>14, <1>15, <1>16, <1>17 DEF StepOK, GroupOK

LEMMA DeleteRulesOK ==
  ASSUME TablesIInv, NEW g \in Groups, DeleteRules(g)
  PROVE  StepOK(g)
<1> DEFINE f == Fam(g)
           m == mine[g].mark
<1>1. task[g].do = "unrule" /\ f \in FamilySet /\ Bare(g) /\ Passed(g) \cap mine[g].rule = {}
  BY GroupFacts DEF DeleteRules, At, MineOK
<1>2. UNCHANGED <<Others, routes, chains, up>>
  BY DEF DeleteRules
<1>3. /\ Moved(g)
      /\ \/ task[g].fam < NumFamilies /\ task'[g].do = "unrule" /\ task'[g].fam = task[g].fam + 1
         \/ task[g].fam = NumFamilies /\ task'[g].do = "unchain" /\ task'[g].fam = 1
  <2>1. NextFamily(g, "unrule", "unchain", 1) /\ "unrule" \in Dos /\ "unchain" \in Dos
    BY AfterIs DEF DeleteRules, Dos
  <2> QED BY <2>1, GroupFacts, NextFamilyIs
<1>4. mine' = [mine EXCEPT ![g].rule = @ \ {f}]
  BY DEF DeleteRules
<1>5. PICK kept \in SUBSET (mine[g].rule \cap {f}) :
        /\ Refused(kept)
        /\ rules' = rules \ {<<m, h>> : h \in (mine[g].rule \cap {f}) \ kept}
  BY Zenon DEF DeleteRules
<1>b. /\ budget' \in [turns : Nat, changes : Nat, faults : 0 .. MaxFaults, crashes : Nat]
      /\ budget'.faults = MaxFaults => budget.faults = MaxFaults
  BY <1>5, RefusedKeeps
<1>6. Fam(g) = Families[task[g].fam]
  BY DEF Fam
<1> HIDE DEF f
<1>7. /\ mine' \in [Groups -> Memory] /\ \A h \in Groups \ {g} : mine'[h] = mine[h]
      /\ mine'[g].mark = m /\ mine'[g].rule = mine[g].rule \ {f} /\ mine'[g].hole = mine[g].hole
      /\ mine'[g].via = mine[g].via
  <2>1. mine[g].rule \ {f} \in SUBSET FamilySet
    BY GroupFacts
  <2> QED BY <1>4, <2>1, GroupFacts DEF Memory
<1>8. Bare(g)'
  BY <1>1, <1>7 DEF Bare
<1>9. task'[g].why = "disable" /\ g \notin up'
  BY <1>1, <1>2, <1>3, DisableTask DEF Moved
<1>10. Claims(g)' <=> mine'[g].rule # {}
  BY <1>1, <1>7, <1>9, DisableTask DEF Claims
<1>11. ASSUME Claims(g)
       PROVE  \A e \in FamilySet : e \in mine'[g].rule => <<m, e>> \in rules'
  <2>1. \A e \in FamilySet : e \in mine[g].rule => <<m, e>> \in rules
    BY <1>11, GroupFacts DEF KernelOK
  <2> QED BY <1>5, <1>7, <2>1
<1>12. Claims(g)' => Claims(g)
  BY <1>1, <1>7, <1>10, DisableTask
<1>13. OwnOnly(g)
  <2>1. UNCHANGED <<kind, p2p, link, phase, loop, events, up, routes>>
    BY <1>2 DEF Others, given
  <2>2. \A h \in Groups \ {g} : task'[h] = task[h] /\ (Reporting(h) => Reporting(h)')
    BY <1>3, <2>1 DEF Moved, Reporting
  <2>3. \A n \in Marks : n # m \/ ~Claims(g) => \A e \in FamilySet : <<n, e>> \in rules' <=> <<n, e>> \in rules
    <3>1. \A n \in Marks : n # m => \A e \in FamilySet : <<n, e>> \in rules' <=> <<n, e>> \in rules
      BY <1>5
    <3>2. ~Claims(g) => rules' = rules
      BY <1>1, <1>5, DisableTask
    <3> QED BY <3>1, <3>2
  <2> QED BY <1>1, <1>b, <1>7, <2>1, <2>2, <2>3, DisableTask DEF OwnOnly
<1>14. TablesTypes'
  <2>1. chains' \subseteq Groups /\ up' \subseteq Groups
    BY <1>2 DEF TablesIInv, TablesTypes, DaemonTypes
  <2>2. rules' \subseteq Marks \X FamilySet
    BY <1>5, GroupFacts
  <2> QED BY <1>2, <1>b, <1>3, <1>7, <2>1, <2>2, GroupFacts, StepTypes DEF Moved
<1>15. TakesFree(g)
  BY <1>3, <1>7, <1>12 DEF TakesFree, Moved
<1>16. KernelOK(g)'
  BY <1>7, <1>8, <1>11, <1>12 DEF KernelOK, Bare
<1>17. TaskOK(g)' /\ AddOK(g)' /\ Coming(g)' /\ task'[g].do \notin {"del", "add"}
  BY <1>3, <1>9 DEF TaskOK, AddOK, Coming, Wants
<1>18. MineOK(g)'
  <2>1. CASE task[g].fam < NumFamilies
    <3>1. task'[g].do = "unrule" /\ Passed(g)' = Passed(g) \cup {f}
      <4>1. task[g].fam \in 1 .. NumFamilies /\ f = Families[task[g].fam]
        BY <1>6, GroupFacts DEF f
      <4>2. Before(task[g].fam + 1) = Before(task[g].fam) \cup {f}
        BY <4>1, FamilyFacts
      <4>3. Passed(g)' = Before(task'[g].fam)
        BY DEF Passed, Before
      <4>4. task'[g].do = "unrule" /\ task'[g].fam = task[g].fam + 1
        BY <1>3, <2>1, <4>1, FamilyFacts
      <4> QED BY <4>2, <4>3, <4>4 DEF Passed
    <3>2. Passed(g)' \cap mine'[g].rule = {}
      BY <1>1, <1>7, <3>1
    <3> QED BY <1>1, <1>7, <1>8, <1>9, <3>1, <3>2, DisableTask DEF MineOK, Idle
  <2>2. CASE task[g].fam = NumFamilies
    <3>1. task'[g].do = "unchain" /\ FamilySet = Passed(g) \cup {f}
      BY <1>3, <1>6, <2>2, FamilyFacts, GroupFacts DEF Passed, f
    <3>2. mine'[g].rule = {}
      BY <1>1, <1>7, <3>1, GroupFacts
    <3> QED BY <1>8, <1>9, <3>1, <3>2 DEF MineOK, Idle
  <2> QED BY <1>3, <2>1, <2>2
<1> QED BY <1>13, <1>14, <1>15, <1>16, <1>17, <1>18 DEF StepOK, GroupOK

LEMMA RemoveChainsOK ==
  ASSUME TablesIInv, NEW g \in Groups, RemoveChains(g)
  PROVE  StepOK(g)
<1>1. task[g].do = "unchain" /\ mine[g].rule = {} /\ Bare(g)
  BY GroupFacts DEF RemoveChains, At, MineOK
<1>2. /\ UNCHANGED <<Others, rules, routes, up>>
      /\ mine' = [mine EXCEPT ![g].mark = 0]
  BY DEF RemoveChains
<1>a. PICK kept \in SUBSET {g} : Refused(kept) /\ chains' = chains \ ({g} \ kept)
  BY DEF RemoveChains
<1>b. /\ budget' \in [turns : Nat, changes : Nat, faults : 0 .. MaxFaults, crashes : Nat]
      /\ budget'.faults = MaxFaults => budget.faults = MaxFaults
  BY <1>a, RefusedKeeps
<1>3. task' \in [Groups -> Tasks] /\ task'[g] = Idle /\ \A h \in Groups \ {g} : task'[h] = task[h]
  BY GroupFacts, StopsIs DEF RemoveChains
<1>4. task'[g].why = "none" /\ task'[g].do = "none" /\ ~task'[g].locked
  BY <1>3 DEF Idle
<1>5. /\ mine' \in [Groups -> Memory] /\ \A h \in Groups \ {g} : mine'[h] = mine[h]
      /\ mine'[g].mark = 0 /\ mine'[g].rule = {} /\ mine'[g].hole = {} /\ mine'[g].via = NoVia
  <2>1. 0 \in Marks \cup {0}
    OBVIOUS
  <2> QED BY <1>1, <1>2, <2>1, GroupFacts DEF Memory, Bare
<1>6. mine'[g] = Nothing
  <2>1. mine'[g] \in Memory
    BY <1>5
  <2> QED BY <1>5, <2>1 DEF Memory, Nothing, NoVia
<1>7. ~Claims(g) /\ ~Claims(g)' /\ g \notin up
  BY <1>1, <1>5, DisableTask DEF Claims
<1>8. UNCHANGED <<kind, p2p, link, phase, loop, events, rules, routes, up>>
  BY <1>2 DEF Others, given
<1>9. OwnOnly(g)
  <2>1. \A h \in Groups : Reporting(h) => Reporting(h)'
    BY <1>8 DEF Reporting
  <2> QED BY <1>1, <1>b, <1>3, <1>5, <1>8, <2>1, DisableTask DEF OwnOnly
<1>10. TablesTypes'
  <2>1. chains' \subseteq Groups /\ up' \subseteq Groups
    BY <1>2, <1>a DEF TablesIInv, TablesTypes, DaemonTypes
  <2> QED BY <1>2, <1>b, <1>3, <1>5, <1>8, <2>1, GroupFacts, StepTypes
<1>11. TakesFree(g)
  BY <1>4, <1>7 DEF TakesFree
<1>12. KernelOK(g)' /\ TaskOK(g)' /\ AddOK(g)'
  BY <1>3, <1>4, <1>7 DEF KernelOK, TaskOK, AddOK
<1>13. MineOK(g)'
  BY <1>4, <1>5, <1>6, <1>7, <1>8 DEF MineOK, Bare
<1>14. Coming(g)'
  BY <1>4, <1>7, <1>8 DEF Coming, Wants
<1> QED BY <1>4, <1>9, <1>10, <1>11, <1>12, <1>13, <1>14 DEF StepOK, GroupOK

--------------------------------------------------------------------------------
(* The main loop *)

LEMMA HookOK ==
  ASSUME TablesIInv, Hook, NEW g \in Groups, g = Head(loop.todo)
  PROVE  StepOK(g)
<1> DEFINE do == IF loop.what = "link" THEN "hole" ELSE "read"
<1>1. loop.todo \in Seq(Groups) /\ loop.todo # <<>> /\ loop.what \in {"link", "addr"} /\ loop \in Loops
  BY DEF Hook, TablesIInv, TablesTypes, DaemonTypes, Loops, NoEvent
<1>2. g \in Groups /\ task[g] = Idle
  BY <1>1 DEF Hook
<1>3. phase = "run"
  BY <1>1 DEF TablesIInv, TablesTypes, DaemonTypes, DownIsIdle, NoEvent
<1>4. /\ UNCHANGED <<kind, p2p, link, rules, routes, chains, phase, up, mine, events>> /\ budget' = budget
      /\ loop' = [loop EXCEPT !.todo = Tail(@)]
  BY DEF Hook, kernel, given
<1>5. loop' \in Loops /\ loop'.todo = Tail(loop.todo)
  <2>1. loop \in [what : {"link", "addr"}, todo : Seq(Groups)]
    BY <1>1 DEF Loops, NoEvent
  <2>2. Tail(loop.todo) \in Seq(Groups)
    BY <1>1
  <2> QED BY <1>4, <2>1, <2>2 DEF Loops
<1>6. \A h \in Groups \ {g} : Reporting(h) => Reporting(h)'
  <2> SUFFICES ASSUME NEW h \in Groups \ {g}, h \in ToSet(loop.todo)
               PROVE  h \in ToSet(Tail(loop.todo))
    BY <1>4, <1>5 DEF Reporting
  <2>1. PICK i \in 1 .. Len(loop.todo) : loop.todo[i] = h
    BY <1>1 DEF ToSet
  <2>2. i # 1
    BY <1>1, <2>1
  <2>3. i - 1 \in 1 .. Len(Tail(loop.todo)) /\ Tail(loop.todo)[i - 1] = h
    BY <1>1, <2>1, <2>2
  <2>4. i - 1 \in DOMAIN Tail(loop.todo)
    BY <1>1, <2>3
  <2> QED BY <2>3, <2>4 DEF ToSet
<1>7. g \notin up => task' = task
  BY DEF Hook
<1>8. g \in up => task' = [task EXCEPT ![g] = [Idle EXCEPT !.why = loop.what, !.do = do]]
  BY DEF Hook
<1>9. CASE g \notin up
  <2>1. task' = task /\ task'[g] = Idle
    BY <1>2, <1>7, <1>9
  <2>2. OwnOnly(g) /\ TakesFree(g) /\ TablesTypes' /\ KernelOK(g)'
    <3>1. chains \subseteq Groups /\ up \subseteq Groups
      BY DEF TablesIInv, TablesTypes, DaemonTypes
    <3> QED BY <1>2, <1>3, <1>4, <1>5, <1>6, <2>1, <3>1, GroupFacts, QuietStep, BudgetKeeps
  <2>3. TaskOK(g)' /\ AddOK(g)' /\ task'[g].do = "none"
    BY <2>1 DEF TaskOK, AddOK, Idle
  <2>4. MineOK(g)'
    BY <1>2, <1>4, <1>9, <2>1, <2>3, GroupFacts DEF MineOK, Bare, Whole
  <2>5. Coming(g)'
    BY <1>4, <1>9, <2>1 DEF Coming, Wants, Idle
  <2> QED BY <2>2, <2>3, <2>4, <2>5 DEF StepOK, GroupOK
<1>10. CASE g \in up
  <2>1. do \in Dos /\ loop.what \in Whys
    BY <1>1 DEF Dos, Whys
  <2>2. /\ task' \in [Groups -> Tasks] /\ \A h \in Groups \ {g} : task'[h] = task[h]
        /\ task'[g].why = loop.what /\ task'[g].do = do /\ task'[g].fam = 1 /\ task'[g].locked = FALSE
    <3>1. Idle.fam = 1 /\ Idle.locked = FALSE /\ Idle.why = "none" /\ Idle.do = "none"
      BY DEF Idle
    <3>2. Idle \in Tasks
      BY IdleIsTask
    <3> HIDE DEF do
    <3> DEFINE t == [Idle EXCEPT !.why = loop.what, !.do = do]
    <3>3. t \in Tasks /\ t.why = loop.what /\ t.do = do /\ t.fam = 1 /\ t.locked = FALSE
      BY <2>1, <3>1, <3>2 DEF Tasks
    <3>4. task' = [task EXCEPT ![g] = t]
      BY <1>8, <1>10
    <3> HIDE DEF t
    <3> QED BY <3>3, <3>4, GroupFacts
  <2>3. OwnOnly(g) /\ TakesFree(g) /\ TablesTypes' /\ KernelOK(g)'
    <3>1. chains \subseteq Groups /\ up \subseteq Groups
      BY DEF TablesIInv, TablesTypes, DaemonTypes
    <3> QED BY <1>1, <1>2, <1>3, <1>4, <1>5, <1>6, <2>2, <3>1, QuietStep, BudgetKeeps
  <2>4. TaskOK(g)' /\ AddOK(g)' /\ task'[g].do \notin {"del", "add"}
    BY <1>1, <1>4, <1>10, <2>2 DEF TaskOK, AddOK
  <2>5. MineOK(g)'
    <3>1. Whole(g) /\ mine[g].mark # 0 /\ Passed(g)' = {}
      <4>1. Passed(g)' = Before(1)
        BY <2>2 DEF Passed, Before
      <4> QED BY <1>2, <1>10, <4>1, GroupFacts, FamilyFacts DEF MineOK, Whole
    <3> QED BY <1>4, <1>10, <2>2, <3>1, FamilyFacts DEF MineOK, Whole, Bare, Idle
  <2>6. Coming(g)'
    <3>1. \A e \in FamilySet : Ahead(g, e)'
      <4>1. From(task[g].fam)' = FamilySet
        BY <2>2, FamilyFacts DEF From
      <4> QED BY <2>2, <4>1 DEF Ahead
    <3> QED BY <3>1 DEF Coming
  <2> QED BY <2>3, <2>4, <2>5, <2>6 DEF StepOK, GroupOK
<1> QED BY <1>9, <1>10

(* The main loop takes an event or is done with one.                         *)
LEMMA LoopStep ==
  ASSUME TablesIInv, UNCHANGED <<kind, p2p, link, rules, routes, chains, phase, up, mine, task>>, budget' = budget,
         phase = "run", loop' \in Loops, events' \in [link : Nat, addr : Nat], RouteIsComing'
  PROVE  TablesIInv'
<1>1. TablesTypes'
  <2>1. KernelTypes'
    BY DEF TablesIInv, TablesTypes, KernelTypes
  <2>2. DaemonTypes'
    BY DEF TablesIInv, TablesTypes, DaemonTypes
  <2> QED BY <2>1, <2>2 DEF TablesTypes
<1>2. AllOK'
  <2> SUFFICES ASSUME NEW g \in Groups
               PROVE  GroupOK(g)'
    BY DEF AllOK
  <2>3. TaskOK(g)'
    BY GroupFacts DEF TaskOK
  <2>4. MineOK(g)'
    <3>1. MineOK(g)
      BY GroupFacts
    <3> QED BY <3>1 DEF MineOK, Whole, Bare, Passed
  <2>2. KernelOK(g)' /\ AddOK(g)'
    <3>1. KernelOK(g) /\ AddOK(g)
      BY GroupFacts
    <3> QED BY <3>1 DEF KernelOK, AddOK, Claims, Fam
  <2> QED BY <2>2, <2>3, <2>4 DEF GroupOK
<1>3. DownIsIdle' /\ OneLocked' /\ Apart'
  BY DEF TablesIInv, DownIsIdle, OneLocked, Apart, Claims
<1>4. NoLinkNoRoute' /\ TunnelOnLink'
  BY DEF TablesIInv, NoLinkNoRoute, TunnelOnLink
<1> QED BY <1>1, <1>2, <1>3, <1>4 DEF TablesIInv

LEMMA TakeEventOK ==
  ASSUME TablesIInv, NEW what \in {"link", "addr"}, TakeEvent(what)
  PROVE  TablesIInv'
<1>1. /\ UNCHANGED <<kind, p2p, link, rules, routes, chains, phase, up, mine, task>> /\ budget' = budget
      /\ phase = "run" /\ events[what] > 0
      /\ events' = [events EXCEPT ![what] = @ - 1] /\ loop' = [what |-> what, todo |-> Links]
  BY DEF TakeEvent, kernel, given
<1>2. loop' \in Loops
  BY <1>1, LinksAreAll DEF Loops
<1>3. events' \in [link : Nat, addr : Nat]
  <2>1. events \in [link : Nat, addr : Nat]
    BY DEF TablesIInv, TablesTypes, DaemonTypes
  <2> QED BY <1>1, <2>1
<1>4. RouteIsComing'
  <2> SUFFICES ASSUME NEW g \in Groups
               PROVE  Coming(g)'
    BY DEF RouteIsComing
  <2> SUFFICES ASSUME p2p, budget.faults = MaxFaults, NEW f \in FamilySet, Wants(g, f)
               PROVE  Reporting(g)'
    BY <1>1 DEF Coming, Wants
  <2>1. g \in ToSet(Links)
    BY LinksAreAll DEF Wants
  <2> QED BY <1>1, <2>1 DEF Reporting
<1> QED BY <1>1, <1>2, <1>3, <1>4, LoopStep

LEMMA HookReturnsOK ==
  ASSUME TablesIInv, HookReturns
  PROVE  TablesIInv'
<1>1. /\ UNCHANGED <<kind, p2p, link, rules, routes, chains, phase, up, mine, task, events>> /\ budget' = budget
      /\ loop # NoEvent /\ loop.todo = <<>> /\ loop' = NoEvent
  BY DEF HookReturns, kernel, given
<1>2. phase = "run" /\ loop' \in Loops /\ events' \in [link : Nat, addr : Nat]
  BY <1>1 DEF TablesIInv, TablesTypes, DaemonTypes, DownIsIdle, Loops
<1>3. loop'.todo = loop.todo
  BY <1>1 DEF NoEvent
<1>4. RouteIsComing'
  <2>1. \A g \in Groups : Reporting(g) => Reporting(g)'
    BY <1>1, <1>3 DEF Reporting
  <2> QED BY <1>1, <2>1 DEF TablesIInv, RouteIsComing, Coming, Wants, Ahead
<1> QED BY <1>1, <1>2, <1>4, LoopStep

--------------------------------------------------------------------------------
(* The interface, the start and the kill *)

(* The kernel may drop routes, and adds none.                                *)
LEMMA NetStep ==
  ASSUME TablesIInv, UNCHANGED Untouched,
         routes' \in [Marks -> Tables],
         \A m \in Marks, f \in FamilySet : /\ routes'[m][f].hole = routes[m][f].hole
                                           /\ routes'[m][f].via \in {None, routes[m][f].via},
         link' \in [up : BOOLEAN, addrs : SUBSET FamilySet, gw : [FamilySet -> Gateways \cup {None}]],
         events' \in [link : Nat, addr : Nat],
         budget' \in [turns : Nat, changes : Nat, faults : 0 .. MaxFaults, crashes : Nat],
         NoLinkNoRoute', RouteIsComing'
  PROVE  TablesIInv'
<1>1. UNCHANGED <<kind, p2p, rules, chains, phase, up, mine, task, loop>>
  BY DEF Untouched, given
<1>2. TablesTypes'
  <2>1. KernelTypes'
    BY <1>1 DEF TablesIInv, TablesTypes, KernelTypes
  <2>2. DaemonTypes'
    BY <1>1 DEF TablesIInv, TablesTypes, DaemonTypes
  <2> QED BY <2>1, <2>2 DEF TablesTypes
<1>3. AllOK'
  <2> SUFFICES ASSUME NEW g \in Groups
               PROVE  GroupOK(g)'
    BY DEF AllOK
  <2>1. TaskOK(g)' /\ MineOK(g)'
    BY <1>1, GroupFacts DEF TaskOK, MineOK, Whole, Bare, Passed
  <2>2. Claims(g)' <=> Claims(g)
    BY <1>1 DEF Claims
  <2>3. KernelOK(g)'
    <3>1. Claims(g) => mine[g].mark \in Marks
      BY GroupFacts DEF Claims
    <3> QED BY <1>1, <2>2, <3>1, GroupFacts DEF KernelOK
  <2>4. AddOK(g)'
    BY <1>1, GroupFacts DEF AddOK
  <2> QED BY <2>1, <2>3, <2>4 DEF GroupOK
<1>4. DownIsIdle' /\ OneLocked' /\ Apart'
  BY <1>1 DEF TablesIInv, DownIsIdle, OneLocked, Apart, Claims
<1>5. TunnelOnLink'
  BY <1>1 DEF TablesIInv, TunnelOnLink
<1> QED BY <1>2, <1>3, <1>4, <1>5 DEF TablesIInv

LEMMA DropViaIs ==
  ASSUME TablesIInv, NEW fams \in SUBSET FamilySet, DropVia(fams)
  PROVE  /\ routes' \in [Marks -> Tables]
         /\ \A m \in Marks, f \in FamilySet : /\ routes'[m][f].hole = routes[m][f].hole
                                              /\ routes'[m][f].via = IF f \in fams THEN None ELSE routes[m][f].via
<1>1. \A m \in Marks, f \in FamilySet : routes[m][f] \in [hole : BOOLEAN, via : Vias]
  BY GroupFacts DEF Tables, TablesIInv, TablesTypes, KernelTypes
<1>2. routes' = [m \in Marks |-> [f \in FamilySet |->
                   IF f \in fams THEN [routes[m][f] EXCEPT !.via = None] ELSE routes[m][f]]]
  BY DEF DropVia
<1>3. ASSUME NEW m \in Marks, NEW f \in FamilySet
      PROVE  /\ routes'[m][f] \in [hole : BOOLEAN, via : Vias]
             /\ routes'[m][f].hole = routes[m][f].hole
             /\ routes'[m][f].via = IF f \in fams THEN None ELSE routes[m][f].via
  <2>1. routes'[m][f] = IF f \in fams THEN [routes[m][f] EXCEPT !.via = None] ELSE routes[m][f]
    BY <1>2
  <2>2. routes[m][f] \in [hole : BOOLEAN, via : Vias] /\ None \in Vias
    BY <1>1 DEF Vias
  <2> QED BY <2>1, <2>2
<1>4. routes' \in [Marks -> Tables]
  <2>1. \A m \in Marks : routes'[m] \in Tables
    BY <1>2, <1>3 DEF Tables
  <2> QED BY <1>2, <2>1
<1> QED BY <1>3, <1>4

LEMMA LinkFacts ==
  ASSUME TablesIInv
  PROVE  /\ link \in [up : BOOLEAN, addrs : SUBSET FamilySet, gw : [FamilySet -> Gateways \cup {None}]]
         /\ events \in [link : Nat, addr : Nat]
         /\ phase # "run" => up = {} /\ \A g \in Groups : task[g].why = "none"
         /\ \A g \in Groups, f \in FamilySet : Wants(g, f) => Ahead(g, f) \/ mine[g].mark \in Marks
<1>1. phase # "run" => up = {} /\ \A g \in Groups : task[g].why = "none"
  BY DEF TablesIInv, DownIsIdle, Idle
<1>2. \A g \in Groups, f \in FamilySet : Wants(g, f) => Ahead(g, f) \/ mine[g].mark \in Marks
  BY WantsClaims, GroupFacts DEF Ahead, Claims
<1> QED BY <1>1, <1>2 DEF TablesIInv, TablesTypes, KernelTypes, DaemonTypes

LEMMA LinkDownOK ==
  ASSUME TablesIInv, LinkDown
  PROVE  TablesIInv'
<1>1. UNCHANGED Untouched /\ events' = events /\ Spend("changes") /\ DropVia(FamilySet)
        /\ link' = [link EXCEPT !.up = FALSE, !.gw = [f \in FamilySet |-> None]]
  BY DEF LinkDown
<1>2. link' \in [up : BOOLEAN, addrs : SUBSET FamilySet, gw : [FamilySet -> Gateways \cup {None}]] /\ ~link'.up
  BY <1>1, LinkFacts
<1>3. /\ routes' \in [Marks -> Tables]
      /\ \A m \in Marks, f \in FamilySet : routes'[m][f].hole = routes[m][f].hole /\ routes'[m][f].via = None
  BY <1>1, DropViaIs
<1>4. NoLinkNoRoute' /\ RouteIsComing'
  BY <1>2, <1>3 DEF NoLinkNoRoute, RouteIsComing, Coming, Wants
<1> QED BY <1>1, <1>2, <1>3, <1>4, NetStep, LinkFacts, BudgetKeeps

LEMMA AddrLostOK ==
  ASSUME TablesIInv, NEW f \in FamilySet, AddrLost(f)
  PROVE  TablesIInv'
<1>1. UNCHANGED Untouched /\ events' = events /\ Spend("changes") /\ DropVia({f})
        /\ link' = [link EXCEPT !.addrs = @ \ {f}, !.gw[f] = None]
  BY DEF AddrLost
<1>2. /\ link' \in [up : BOOLEAN, addrs : SUBSET FamilySet, gw : [FamilySet -> Gateways \cup {None}]]
      /\ link'.up = link.up /\ link'.addrs = link.addrs \ {f}
  <2>1. link.addrs \ {f} \in SUBSET FamilySet /\ [link.gw EXCEPT ![f] = None] \in [FamilySet -> Gateways \cup {None}]
    BY LinkFacts
  <2> QED BY <1>1, <2>1, LinkFacts
<1>3. /\ routes' \in [Marks -> Tables]
      /\ \A m \in Marks, e \in FamilySet : /\ routes'[m][e].hole = routes[m][e].hole
                                           /\ routes'[m][e].via = IF e = f THEN None ELSE routes[m][e].via
  <2>1. {f} \in SUBSET FamilySet /\ \A e : e \in {f} <=> e = f
    OBVIOUS
  <2> QED BY <1>1, <2>1, DropViaIs
<1>4. NoLinkNoRoute'
  BY <1>2, <1>3 DEF NoLinkNoRoute, TablesIInv
<1>5. RouteIsComing'
  <2> SUFFICES ASSUME NEW g \in Groups, p2p, budget.faults = MaxFaults, NEW e \in FamilySet, Wants(g, e)'
               PROVE  (Ahead(g, e) \/ Reporting(g) \/ routes[mine[g].mark][e].via # None)'
    BY <1>1, BudgetKeeps DEF RouteIsComing, Coming, Untouched, given
  <2>1. Wants(g, e) /\ e # f
    BY <1>1, <1>2 DEF Wants, Untouched, given
  <2>2. Ahead(g, e) \/ Reporting(g) \/ routes[mine[g].mark][e].via # None
    BY <2>1, GroupFacts DEF Coming
  <2>3. (Ahead(g, e) => Ahead(g, e)') /\ (Reporting(g) => Reporting(g)')
    BY <1>1 DEF Ahead, Reporting, Untouched
  <2>4. mine[g].mark \in Marks => routes'[mine'[g].mark][e].via = routes[mine[g].mark][e].via
    BY <1>1, <1>3, <2>1 DEF Untouched
  <2> QED BY <2>1, <2>2, <2>3, <2>4, LinkFacts
<1>6. \A m \in Marks, e \in FamilySet : /\ routes'[m][e].hole = routes[m][e].hole
                                        /\ routes'[m][e].via \in {None, routes[m][e].via}
  BY <1>3
<1> QED BY <1>1, <1>2, <1>3, <1>4, <1>5, <1>6, NetStep, LinkFacts, BudgetKeeps

(* A link that comes up and an address that is gained are reported.          *)
LEMMA ReportStep ==
  ASSUME TablesIInv, NEW what \in {"link", "addr"}, Spend("changes"), UNCHANGED <<Untouched, routes>>,
         link' \in [up : BOOLEAN, addrs : SUBSET FamilySet, gw : [FamilySet -> Gateways \cup {None}]],
         link.up => link'.up, Reported(what)
  PROVE  TablesIInv'
<1>1. UNCHANGED <<kind, p2p, rules, chains, phase, up, mine, task, loop, routes>>
  BY DEF Untouched, given
<1>2. events' \in [link : Nat, addr : Nat] /\ (phase = "run" => events'[what] > 0)
  BY LinkFacts DEF Reported
<1>3. NoLinkNoRoute'
  BY <1>1, LinkFacts DEF NoLinkNoRoute, TablesIInv
<1>4. RouteIsComing'
  <2>1. CASE phase = "run"
    BY <1>2, <2>1 DEF RouteIsComing, Coming, Reporting
  <2>2. CASE phase # "run"
    BY <1>1, <2>2, LinkFacts DEF RouteIsComing, Coming, Wants
  <2> QED BY <2>1, <2>2
<1>5. \A m \in Marks, f \in FamilySet : /\ routes'[m][f].hole = routes[m][f].hole
                                        /\ routes'[m][f].via \in {None, routes[m][f].via}
  BY <1>1
<1>6. routes' \in [Marks -> Tables]
  BY <1>1 DEF TablesIInv, TablesTypes, KernelTypes
<1> QED BY <1>2, <1>3, <1>4, <1>5, <1>6, NetStep, LinkFacts, BudgetKeeps

LEMMA LinkUpOK ==
  ASSUME TablesIInv, LinkUp
  PROVE  TablesIInv'
<1>1. /\ UNCHANGED <<Untouched, routes>> /\ Spend("changes") /\ Reported("link")
      /\ link' = [link EXCEPT !.up = TRUE]
  BY DEF LinkUp
<1>2. link' \in [up : BOOLEAN, addrs : SUBSET FamilySet, gw : [FamilySet -> Gateways \cup {None}]] /\ link'.up
  BY <1>1, LinkFacts
<1> QED BY <1>1, <1>2, ReportStep

LEMMA AddrGainedOK ==
  ASSUME TablesIInv, NEW f \in FamilySet, AddrGained(f)
  PROVE  TablesIInv'
<1>1. /\ UNCHANGED <<Untouched, routes>> /\ Spend("changes") /\ Reported("addr")
      /\ link' = [link EXCEPT !.addrs = @ \cup {f}]
  BY DEF AddrGained
<1>2. link' \in [up : BOOLEAN, addrs : SUBSET FamilySet, gw : [FamilySet -> Gateways \cup {None}]]
        /\ link'.up = link.up
  <2>1. link.addrs \cup {f} \in SUBSET FamilySet
    BY LinkFacts
  <2> QED BY <1>1, <2>1, LinkFacts
<1> QED BY <1>1, <1>2, ReportStep

LEMMA GatewayFoundOK ==
  ASSUME TablesIInv, NEW f \in FamilySet, GatewayFound(f)
  PROVE  TablesIInv'
<1>1. UNCHANGED <<Untouched, routes, events>> /\ Spend("changes") /\ ~p2p
  BY DEF GatewayFound
<1>2. PICK gw \in Gateways : link' = [link EXCEPT !.gw[f] = gw]
  BY DEF GatewayFound
<1>3. /\ link' \in [up : BOOLEAN, addrs : SUBSET FamilySet, gw : [FamilySet -> Gateways \cup {None}]]
      /\ link'.up = link.up
  <2>1. [link.gw EXCEPT ![f] = gw] \in [FamilySet -> Gateways \cup {None}]
    BY LinkFacts
  <2> QED BY <1>2, <2>1, LinkFacts
<1>4. NoLinkNoRoute'
  BY <1>1, <1>3 DEF NoLinkNoRoute, TablesIInv
<1>5. RouteIsComing'
  BY <1>1 DEF RouteIsComing, Coming, Untouched, given
<1>6. \A m \in Marks, e \in FamilySet : /\ routes'[m][e].hole = routes[m][e].hole
                                        /\ routes'[m][e].via \in {None, routes[m][e].via}
  BY <1>1
<1>7. routes' \in [Marks -> Tables] /\ events' \in [link : Nat, addr : Nat]
  BY <1>1, LinkFacts DEF TablesIInv, TablesTypes, KernelTypes
<1> QED BY <1>1, <1>3, <1>4, <1>5, <1>6, <1>7, NetStep, LinkFacts, BudgetKeeps

(* Whatever holds when nothing runs, nothing is up and nothing is remembered. *)
LEMMA NothingRuns ==
  ASSUME \A g \in Groups : task[g] = Idle /\ mine[g] = Nothing, up = {}
  PROVE  AllOK /\ Apart /\ OneLocked /\ TunnelOnLink /\ RouteIsComing
<1>1. \A g \in Groups : /\ task[g].why = "none" /\ task[g].do = "none" /\ ~task[g].locked
                        /\ mine[g].mark = 0 /\ mine[g].rule = {} /\ mine[g].hole = {} /\ mine[g].via = NoVia
  BY DEF Idle, Nothing, NoVia
<1>2. \A g \in Groups : ~Claims(g)
  BY <1>1 DEF Claims
<1>3. ASSUME NEW g \in Groups
      PROVE  GroupOK(g)
  <2>1. TaskOK(g) /\ KernelOK(g) /\ AddOK(g)
    BY <1>1, <1>2 DEF TaskOK, KernelOK, AddOK
  <2>2. MineOK(g)
    BY <1>1 DEF MineOK, Bare
  <2> QED BY <2>1, <2>2 DEF GroupOK
<1>4. Apart /\ OneLocked /\ TunnelOnLink
  BY <1>1, <1>2 DEF Apart, OneLocked, TunnelOnLink
<1>5. RouteIsComing
  BY <1>1 DEF RouteIsComing, Coming, Wants
<1> QED BY <1>3, <1>4, <1>5 DEF AllOK

LEMMA NothingIsMemory == Nothing \in Memory
BY DEF Nothing, Memory, Vias

LEMMA TablesInit == Init => TablesIInv
<1> SUFFICES ASSUME Init
             PROVE  TablesIInv
  OBVIOUS
<1>1. /\ phase = "down" /\ up = {} /\ loop = NoEvent /\ rules = {} /\ chains = {} /\ ~link.up
      /\ \A g \in Groups : task[g] = Idle /\ mine[g] = Nothing
      /\ routes = [m \in Marks |-> EmptyTable]
  BY DEF Init
<1>2. EmptyTable \in Tables
  BY DEF EmptyTable, Tables, Vias
<1>3. TablesTypes
  <2>1. KernelTypes
    <3>1. kind \in [Groups -> Kinds] /\ p2p \in BOOLEAN
      BY KindAssumption, PointAssumption DEF Init
    <3>2. link \in [up : BOOLEAN, addrs : SUBSET FamilySet, gw : [FamilySet -> Gateways \cup {None}]]
      BY DEF Init
    <3> QED BY <1>1, <1>2, <3>1, <3>2 DEF KernelTypes
  <2>2. DaemonTypes
    <3>1. mine \in [Groups -> Memory] /\ task \in [Groups -> Tasks]
      BY IdleIsTask, NothingIsMemory DEF Init
    <3>2. events \in [link : Nat, addr : Nat]
      BY DEF Init
    <3>3. budget \in [turns : Nat, changes : Nat, faults : 0 .. MaxFaults, crashes : Nat]
      <4>1. PICK b \in Bounds :
               budget = [turns |-> b.turns, changes |-> b.changes, faults |-> MaxFaults, crashes |-> b.crashes]
        BY Zenon DEF Init
      <4>2. b \in [turns : Nat, changes : Nat, crashes : Nat] /\ MaxFaults \in Nat
        BY BoundAssumption
      <4> QED BY <4>1, <4>2
    <3> QED BY <1>1, <3>1, <3>2, <3>3 DEF DaemonTypes, Loops
  <2> QED BY <2>1, <2>2 DEF TablesTypes
<1>4. DownIsIdle
  BY <1>1 DEF DownIsIdle
<1>5. NoLinkNoRoute
  BY <1>1 DEF NoLinkNoRoute, EmptyTable
<1>6. AllOK /\ Apart /\ OneLocked /\ TunnelOnLink /\ RouteIsComing
  BY <1>1, NothingRuns
<1> QED BY <1>3, <1>4, <1>5, <1>6 DEF TablesIInv

(* The start cleans up: it adds nothing, and no group is called yet.         *)
LEMMA CleanStep ==
  ASSUME TablesIInv, UNCHANGED <<kind, p2p, link, up, mine, task, loop, events>>, phase # "run",
         phase' \in {"clean", "run"}, rules' \subseteq rules, chains' \subseteq chains,
         routes' \in [Marks -> Tables],
         \A m \in Marks, f \in FamilySet : routes'[m][f].via \in {None, routes[m][f].via},
         budget' \in [turns : Nat, changes : Nat, faults : 0 .. MaxFaults, crashes : Nat]
  PROVE  TablesIInv'
<1>1. up = {} /\ loop = NoEvent /\ \A g \in Groups : task[g] = Idle /\ mine[g] = Nothing
  BY DEF TablesIInv, DownIsIdle
<1>2. TablesTypes'
  <2>1. KernelTypes'
    BY DEF TablesIInv, TablesTypes, KernelTypes
  <2>2. DaemonTypes'
    BY DEF TablesIInv, TablesTypes, DaemonTypes
  <2> QED BY <2>1, <2>2 DEF TablesTypes
<1>3. (\A g \in Groups : task[g] = Idle /\ mine[g] = Nothing)' /\ (up = {})'
  BY <1>1
<1>4. AllOK' /\ Apart' /\ OneLocked' /\ TunnelOnLink' /\ RouteIsComing'
  BY <1>3, NothingRuns, PTL
<1>5. DownIsIdle' /\ NoLinkNoRoute'
  BY <1>1, <1>3 DEF DownIsIdle, NoLinkNoRoute, TablesIInv
<1> QED BY <1>2, <1>4, <1>5 DEF TablesIInv

LEMMA StartOK ==
  ASSUME TablesIInv, Start
  PROVE  TablesIInv'
<1>1. /\ UNCHANGED <<kind, p2p, link, rules, routes, up, mine, task, loop, events>> /\ budget' = budget
      /\ phase = "down" /\ phase' = "clean" /\ chains' = {}
  BY DEF Start, given
<1>2. routes' \in [Marks -> Tables]
  BY <1>1 DEF TablesIInv, TablesTypes, KernelTypes
<1> QED BY <1>1, <1>2, CleanStep, BudgetKeeps

LEMMA SweepRuleOK ==
  ASSUME TablesIInv, SweepRule
  PROVE  TablesIInv'
<1>1. UNCHANGED <<kind, p2p, link, routes, chains, phase, up, mine, task, loop, events>> /\ phase = "clean"
  BY DEF SweepRule, given
<1>2. PICK r \in sweep.rules, kept \in SUBSET {"rule"} :
        Refused(kept) /\ rules' = IF kept = {} THEN rules \ {r} ELSE rules
  BY Zenon DEF SweepRule
<1>3. routes' \in [Marks -> Tables]
  BY <1>1 DEF TablesIInv, TablesTypes, KernelTypes
<1> QED BY <1>1, <1>2, <1>3, CleanStep, RefusedKeeps

(* What is left of a table the cleaner goes through.                         *)
LEMMA SweptTable ==
  ASSUME TablesIInv, NEW m \in Marks, NEW kept,
         routes' = [routes EXCEPT ![m] = [f \in FamilySet |->
                      [hole |-> <<"hole", m, f>> \in kept,
                       via |-> IF <<"via", m, f>> \in kept THEN routes[m][f].via ELSE None]]]
  PROVE  /\ routes' \in [Marks -> Tables]
         /\ \A n \in Marks \ {m} : routes'[n] = routes[n]
         /\ \A f \in FamilySet :
              /\ routes'[m][f].hole = (<<"hole", m, f>> \in kept)
              /\ routes'[m][f].via = IF <<"via", m, f>> \in kept THEN routes[m][f].via ELSE None
<1> DEFINE l(f) == [hole |-> <<"hole", m, f>> \in kept,
                    via |-> IF <<"via", m, f>> \in kept THEN routes[m][f].via ELSE None]
<1>1. routes \in [Marks -> Tables] /\ routes[m] \in Tables
  BY DEF TablesIInv, TablesTypes, KernelTypes
<1>2. \A n \in Marks \ {m} : routes'[n] = routes[n]
  BY <1>1
<1>3. routes'[m] = [f \in FamilySet |-> l(f)]
  BY <1>1
<1>4. ASSUME NEW f \in FamilySet
      PROVE  l(f) \in [hole : BOOLEAN, via : Vias]
  <2>1. (<<"hole", m, f>> \in kept) \in BOOLEAN
    <3>1. CASE <<"hole", m, f>> \in kept
      BY <3>1
    <3>2. CASE <<"hole", m, f>> \notin kept
      BY <3>2
    <3> QED BY <3>1, <3>2
  <2>2. (IF <<"via", m, f>> \in kept THEN routes[m][f].via ELSE None) \in Vias
    <3>1. routes[m][f].via \in Vias /\ None \in Vias
      BY <1>1 DEF Tables, Vias
    <3> QED BY <3>1, Zenon
  <2> QED BY <2>1, <2>2
<1>5. routes'[m] \in Tables
  <2> HIDE DEF l
  <2> QED BY <1>3, <1>4 DEF Tables
<1>6. \A f \in FamilySet : routes'[m][f] = l(f)
  <2> HIDE DEF l
  <2> QED BY <1>3
<1> QED BY <1>1, <1>2, <1>5, <1>6

LEMMA SweepTableOK ==
  ASSUME TablesIInv, SweepTable, sweep.tables \subseteq Marks
  PROVE  TablesIInv'
<1>1. UNCHANGED <<kind, p2p, link, rules, chains, phase, up, mine, task, loop, events>> /\ phase = "clean"
  BY DEF SweepTable, given
<1>2. PICK m \in sweep.tables : \E kept \in SUBSET RoutesOf(m) :
        /\ Refused(kept)
        /\ routes' = [routes EXCEPT ![m] = [f \in FamilySet |->
                        [hole |-> <<"hole", m, f>> \in kept,
                         via |-> IF <<"via", m, f>> \in kept THEN routes[m][f].via ELSE None]]]
  BY Zenon DEF SweepTable
<1>3. PICK kept \in SUBSET RoutesOf(m) :
        /\ Refused(kept)
        /\ routes' = [routes EXCEPT ![m] = [f \in FamilySet |->
                        [hole |-> <<"hole", m, f>> \in kept,
                         via |-> IF <<"via", m, f>> \in kept THEN routes[m][f].via ELSE None]]]
  BY <1>2, Zenon
<1>4. /\ routes' \in [Marks -> Tables]
      /\ \A n \in Marks \ {m} : routes'[n] = routes[n]
      /\ \A f \in FamilySet :
           routes'[m][f].via = IF <<"via", m, f>> \in kept THEN routes[m][f].via ELSE None
  BY <1>3, SweptTable
<1>5. ASSUME NEW n \in Marks, NEW f \in FamilySet
      PROVE  routes'[n][f].via \in {None, routes[n][f].via}
  <2>1. CASE n = m
    BY <1>4, <2>1, Zenon
  <2>2. CASE n # m
    BY <1>4, <2>2, Zenon
  <2> QED BY <2>1, <2>2
<1> QED BY <1>1, <1>3, <1>4, <1>5, CleanStep, RefusedKeeps

LEMMA CleanedOK ==
  ASSUME TablesIInv, Cleaned
  PROVE  TablesIInv'
<1>1. /\ UNCHANGED <<kind, p2p, link, rules, routes, chains, up, mine, task, loop, events>> /\ budget' = budget
      /\ phase = "clean" /\ phase' = "run"
  BY DEF Cleaned, kernel, given
<1>2. routes' \in [Marks -> Tables]
  BY <1>1 DEF TablesIInv, TablesTypes, KernelTypes
<1> QED BY <1>1, <1>2, CleanStep, BudgetKeeps

LEMMA KillOK ==
  ASSUME TablesIInv, Kill
  PROVE  TablesIInv'
<1>1. /\ UNCHANGED <<kind, p2p, link, rules, routes, chains>> /\ Spend("crashes")
      /\ phase' = "down" /\ up' = {} /\ loop' = NoEvent /\ events' = [link |-> 0, addr |-> 0]
      /\ mine' = [g \in Groups |-> Nothing] /\ task' = [g \in Groups |-> Idle]
  BY DEF Kill, given, kernel
<1>2. (\A g \in Groups : task[g] = Idle /\ mine[g] = Nothing)' /\ (up = {})'
  BY <1>1
<1>3. TablesTypes'
  <2>1. KernelTypes'
    BY <1>1 DEF TablesIInv, TablesTypes, KernelTypes
  <2>2. mine' \in [Groups -> Memory] /\ task' \in [Groups -> Tasks]
    BY <1>1, IdleIsTask, NothingIsMemory
  <2>3. chains' \subseteq Groups
    BY <1>1 DEF TablesIInv, TablesTypes, DaemonTypes
  <2>4. DaemonTypes'
    BY <1>1, <2>2, <2>3, BudgetKeeps DEF DaemonTypes, Loops
  <2> QED BY <2>1, <2>4 DEF TablesTypes
<1>4. DownIsIdle' /\ NoLinkNoRoute'
  BY <1>1, <1>2 DEF TablesIInv, DownIsIdle, NoLinkNoRoute
<1>5. AllOK' /\ Apart' /\ OneLocked' /\ TunnelOnLink' /\ RouteIsComing'
  BY <1>2, NothingRuns, PTL
<1> QED BY <1>3, <1>4, <1>5 DEF TablesIInv

LEMMA TablesStutter ==
  ASSUME TablesIInv, UNCHANGED vars
  PROVE  TablesIInv'
<1> USE DEF vars, given
<1>1. TablesTypes'
  BY DEF TablesIInv, TablesTypes, KernelTypes, DaemonTypes
<1>2. AllOK'
  <2> SUFFICES ASSUME NEW g \in Groups
               PROVE  GroupOK(g)'
    BY DEF AllOK
  <2>1. GroupOK(g)
    BY DEF TablesIInv, AllOK
  <2>2. TaskOK(g)' /\ MineOK(g)'
    BY <2>1 DEF GroupOK, TaskOK, MineOK, Whole, Bare, Passed
  <2>3. KernelOK(g)' /\ AddOK(g)'
    BY <2>1 DEF GroupOK, KernelOK, AddOK, Claims, Fam
  <2> QED BY <2>2, <2>3 DEF GroupOK
<1>3. DownIsIdle' /\ OneLocked' /\ Apart'
  BY DEF TablesIInv, DownIsIdle, OneLocked, Apart, Claims
<1>4. NoLinkNoRoute' /\ TunnelOnLink'
  BY DEF TablesIInv, NoLinkNoRoute, TunnelOnLink
<1>5. RouteIsComing'
  BY DEF TablesIInv, RouteIsComing, Coming, Wants, Ahead, Reporting
<1> QED BY <1>1, <1>2, <1>3, <1>4, <1>5 DEF TablesIInv

(* What the cleaner has still to go through.                                 *)
SweepOK ==
    /\ sweep \in [rules : SUBSET rules, tables : SUBSET Marks]
    /\ phase # "clean" => sweep = Swept

LEMMA TablesInductive == TablesIInv /\ SweepOK /\ [Next]_vars => TablesIInv'
<1> SUFFICES ASSUME TablesIInv, SweepOK, [Next]_vars
             PROVE  TablesIInv'
  OBVIOUS
<1>1. ASSUME NEW g \in Groups, BeginEnable(g) \/ BeginDisable(g) \/ RequestFails(g)
      PROVE  TablesIInv'
  BY <1>1, StepKeeps, BeginEnableOK, BeginDisableOK, RequestFailsOK
<1>2. ASSUME NEW g \in Groups, FindMark(g) \/ AddRule(g) \/ AddHole(g) \/ InstallChains(g)
      PROVE  TablesIInv'
  BY <1>2, StepKeeps, FindMarkOK, AddRuleOK, AddHoleOK, InstallChainsOK
<1>3. ASSUME NEW g \in Groups, Look(g) \/ ReadLink(g) \/ DelRoute(g) \/ AddRoute(g)
      PROVE  TablesIInv'
  BY <1>3, StepKeeps, LookOK, ReadLinkOK, DelRouteOK, AddRouteOK
<1>4. ASSUME NEW g \in Groups, DeleteRoutes(g) \/ DeleteRules(g) \/ RemoveChains(g)
      PROVE  TablesIInv'
  BY <1>4, StepKeeps, DeleteRoutesOK, DeleteRulesOK, RemoveChainsOK
<1>5. CASE TakeEvent("link") \/ TakeEvent("addr") \/ HookReturns
  BY <1>5, TakeEventOK, HookReturnsOK
<1>6. CASE Hook
  <2>1. loop.todo \in Seq(Groups) /\ loop.todo # <<>>
    BY <1>6 DEF Hook, TablesIInv, TablesTypes, DaemonTypes, Loops, NoEvent
  <2>2. Head(loop.todo) \in Groups
    BY <2>1
  <2> QED BY <1>6, <2>2, HookOK, StepKeeps
<1>7. CASE LinkDown \/ LinkUp
  BY <1>7, LinkDownOK, LinkUpOK
<1>8. ASSUME NEW f \in FamilySet, AddrLost(f) \/ AddrGained(f) \/ GatewayFound(f)
      PROVE  TablesIInv'
  BY <1>8, AddrLostOK, AddrGainedOK, GatewayFoundOK
<1>9. CASE Start \/ SweepRule \/ SweepTable \/ Cleaned \/ Kill
  BY <1>9, StartOK, SweepRuleOK, SweepTableOK, CleanedOK, KillOK DEF SweepOK
<1>10. CASE UNCHANGED vars
  BY <1>10, TablesStutter
<1> QED BY <1>1, <1>2, <1>3, <1>4, <1>5, <1>6, <1>7, <1>8, <1>9, <1>10 DEF Next

--------------------------------------------------------------------------------
(* What is left behind *)

(* Of what the kernel has while the daemon runs, all that is no stray is      *)
(* remembered by a group.                                                     *)
KnowsRule(g, m, f) == mine[g].mark = m /\ f \in mine[g].rule
KnowsHole(g, m, f) == mine[g].mark = m /\ f \in mine[g].hole
KnowsVia(g, m, f) == mine[g].mark = m /\ mine[g].via[f] \in {OnLink, routes[m][f].via}
RuleKnown(m, f) == <<"rule", m, f>> \in strays \/ \E g \in Groups : KnowsRule(g, m, f)
HoleKnown(m, f) == <<"hole", m, f>> \in strays \/ \E g \in Groups : KnowsHole(g, m, f)
ViaKnown(m, f) == <<"via", m, f>> \in strays \/ \E g \in Groups : KnowsVia(g, m, f)
RunOK == phase = "run" =>
    \A m \in Marks, f \in FamilySet :
      /\ <<m, f>> \in rules => RuleKnown(m, f)
      /\ routes[m][f].hole => HoleKnown(m, f)
      /\ routes[m][f].via # None => ViaKnown(m, f)

(* The next cleaner finds a table by its rule, unless it has only strays.     *)
OnlyStrays(m) == \A f \in FamilySet :
    /\ routes[m][f].hole => <<"hole", m, f>> \in strays
    /\ routes[m][f].via # None => <<"via", m, f>> \in strays
DownOK == phase = "down" => \A m \in Marks : Named(m) \/ OnlyStrays(m)
CleanOK == phase = "clean" =>
    /\ \A m \in Marks, f \in FamilySet :
         <<m, f>> \in rules => <<m, f>> \in sweep.rules \/ <<"rule", m, f>> \in strays
    /\ \A m \in Marks :
         \/ m \in sweep.tables
         \/ \E f \in FamilySet : <<m, f>> \in sweep.rules
         \/ OnlyStrays(m)

StrayIInv == SweepOK /\ RunOK /\ CleanOK /\ DownOK

(* A step of one group while the daemon runs.                                *)
LEMMA KnownStep ==
  ASSUME StrayIInv, NEW g \in Groups, phase = "run", UNCHANGED <<phase, sweep>>,
         \A h \in Groups \ {g} : mine'[h] = mine[h],
         \A m \in Marks, f \in FamilySet : <<m, f>> \in rules' =>
           \/ <<"rule", m, f>> \in strays' \/ KnowsRule(g, m, f)'
           \/ /\ <<m, f>> \in rules /\ ~KnowsRule(g, m, f)
              /\ <<"rule", m, f>> \in strays => <<"rule", m, f>> \in strays',
         \A m \in Marks, f \in FamilySet : routes'[m][f].hole =>
           \/ <<"hole", m, f>> \in strays' \/ KnowsHole(g, m, f)'
           \/ /\ routes[m][f].hole /\ ~KnowsHole(g, m, f)
              /\ <<"hole", m, f>> \in strays => <<"hole", m, f>> \in strays',
         \A m \in Marks, f \in FamilySet : routes'[m][f].via # None =>
           \/ <<"via", m, f>> \in strays' \/ KnowsVia(g, m, f)'
           \/ /\ routes'[m][f].via = routes[m][f].via /\ ~KnowsVia(g, m, f)
              /\ <<"via", m, f>> \in strays => <<"via", m, f>> \in strays'
  PROVE  StrayIInv'
<1>1. sweep = Swept /\ Swept.rules = {} /\ Swept.tables = {}
  BY DEF StrayIInv, SweepOK, Swept
<1>2. SweepOK' /\ CleanOK' /\ DownOK'
  BY <1>1 DEF SweepOK, CleanOK, DownOK, Swept
<1>3. RunOK'
  <2> SUFFICES ASSUME NEW m \in Marks, NEW f \in FamilySet
               PROVE  (/\ <<m, f>> \in rules => RuleKnown(m, f)
                       /\ routes[m][f].hole => HoleKnown(m, f)
                       /\ routes[m][f].via # None => ViaKnown(m, f))'
    BY DEF RunOK
  <2>1. /\ <<m, f>> \in rules => RuleKnown(m, f)
        /\ routes[m][f].hole => HoleKnown(m, f)
        /\ routes[m][f].via # None => ViaKnown(m, f)
    BY DEF StrayIInv, RunOK
  <2>2. <<m, f>> \in rules' => RuleKnown(m, f)'
    BY <2>1 DEF RuleKnown, KnowsRule
  <2>3. routes'[m][f].hole => HoleKnown(m, f)'
    BY <2>1 DEF HoleKnown, KnowsHole
  <2>4. routes'[m][f].via # None => ViaKnown(m, f)'
    BY <2>1 DEF ViaKnown, KnowsVia
  <2> QED BY <2>2, <2>3, <2>4
<1> QED BY <1>2, <1>3 DEF StrayIInv

(* Nothing changes of what is there and of what is remembered.                *)
LEMMA SameStrays ==
  ASSUME StrayIInv, UNCHANGED <<phase, sweep, rules, routes, strays, mine>>
  PROVE  StrayIInv'
<1>1. SweepOK' /\ CleanOK' /\ DownOK'
  BY DEF StrayIInv, SweepOK, CleanOK, DownOK, OnlyStrays, Named
<1>2. RunOK'
  BY DEF StrayIInv, RunOK, RuleKnown, HoleKnown, ViaKnown, KnowsRule, KnowsHole, KnowsVia
<1> QED BY <1>1, <1>2 DEF StrayIInv

LEMMA FindMarkStrays ==
  ASSUME TablesIInv, StrayIInv, NEW g \in Groups, FindMark(g)
  PROVE  StrayIInv'
<1>1. phase = "run" /\ task[g].do = "mark"
  BY Running DEF FindMark, At
<1>2. mine[g] = Nothing
  BY <1>1, GroupFacts DEF MineOK
<1>3. UNCHANGED <<phase, sweep, rules, routes, strays>> /\ \A h \in Groups \ {g} : mine'[h] = mine[h]
  BY GroupFacts DEF FindMark, Others, kernel
<1>4. \A m \in Marks, f \in FamilySet : ~KnowsRule(g, m, f) /\ ~KnowsHole(g, m, f) /\ ~KnowsVia(g, m, f)
  BY <1>2, GroupFacts DEF KnowsRule, KnowsHole, KnowsVia, Nothing
<1> QED BY <1>1, <1>3, <1>4, KnownStep

LEMMA AddRuleStrays ==
  ASSUME TablesIInv, StrayIInv, NEW g \in Groups, AddRule(g)
  PROVE  StrayIInv'
<1> DEFINE f == Fam(g)
           m == mine[g].mark
<1>1. phase = "run" /\ task[g].do = "rule" /\ f \in FamilySet
  BY Running, GroupFacts DEF AddRule, At
<1>2. UNCHANGED <<phase, sweep, routes, strays>> /\ rules' = rules \cup {<<m, f>>}
        /\ mine' = [mine EXCEPT ![g].rule = @ \cup {f}]
  BY DEF AddRule, Others
<1> HIDE DEF f, m
<1>3. /\ \A h \in Groups \ {g} : mine'[h] = mine[h]
      /\ mine'[g].mark = m /\ mine'[g].rule = mine[g].rule \cup {f}
      /\ mine'[g].hole = mine[g].hole /\ mine'[g].via = mine[g].via
  BY <1>2, GroupFacts DEF Memory, m
<1>4. ASSUME NEW n \in Marks, NEW e \in FamilySet
      PROVE  /\ KnowsRule(g, n, e) => KnowsRule(g, n, e)'
             /\ KnowsHole(g, n, e) => KnowsHole(g, n, e)'
             /\ KnowsVia(g, n, e) => KnowsVia(g, n, e)'
             /\ <<n, e>> \in rules' => <<n, e>> \in rules \/ KnowsRule(g, n, e)'
  BY <1>2, <1>3 DEF KnowsRule, KnowsHole, KnowsVia, m
<1> QED BY <1>1, <1>2, <1>3, <1>4, KnownStep

LEMMA AddHoleStrays ==
  ASSUME TablesIInv, StrayIInv, NEW g \in Groups, AddHole(g)
  PROVE  StrayIInv'
<1> DEFINE f == Fam(g)
           m == mine[g].mark
<1>1. phase = "run" /\ task[g].do = "hole" /\ f \in FamilySet
  BY Running, GroupFacts DEF AddHole, At
<1>2. m \in Marks
  BY <1>1, GroupFacts DEF MineOK
<1>3. UNCHANGED <<phase, sweep, rules, strays>> /\ routes' = [routes EXCEPT ![m][f].hole = TRUE]
        /\ mine' = [mine EXCEPT ![g].hole = @ \cup {f}]
  BY DEF AddHole, Others
<1> HIDE DEF f, m
<1>4. /\ \A h \in Groups \ {g} : mine'[h] = mine[h]
      /\ mine'[g].mark = m /\ mine'[g].rule = mine[g].rule
      /\ mine'[g].hole = mine[g].hole \cup {f} /\ mine'[g].via = mine[g].via
  BY <1>3, GroupFacts DEF Memory, m
<1>5. ASSUME NEW n \in Marks, NEW e \in FamilySet
      PROVE  /\ routes'[n][e].via = routes[n][e].via
             /\ routes'[n][e].hole => routes[n][e].hole \/ (n = m /\ e = f)
  <2>1. routes[n] \in Tables /\ routes[n][e] \in [hole : BOOLEAN, via : Vias]
    BY GroupFacts DEF Tables
  <2>2. CASE n = m
    <3>1. routes'[n] = [routes[n] EXCEPT ![f].hole = TRUE]
      BY <1>2, <1>3, <2>2, GroupFacts
    <3>2. CASE e = f
      <4>1. routes'[n][e] = [routes[n][e] EXCEPT !.hole = TRUE]
        BY <2>1, <3>1, <3>2 DEF Tables
      <4> QED BY <2>1, <2>2, <3>2, <4>1
    <3>3. CASE e # f
      BY <2>1, <3>1, <3>3 DEF Tables
    <3> QED BY <3>2, <3>3
  <2>3. CASE n # m
    BY <1>2, <1>3, <2>3, GroupFacts
  <2> QED BY <2>2, <2>3
<1>6. ASSUME NEW n \in Marks, NEW e \in FamilySet
      PROVE  /\ KnowsRule(g, n, e) => KnowsRule(g, n, e)'
             /\ KnowsHole(g, n, e) => KnowsHole(g, n, e)'
             /\ KnowsVia(g, n, e) => KnowsVia(g, n, e)'
             /\ routes'[n][e].hole => routes[n][e].hole \/ KnowsHole(g, n, e)'
  BY <1>4, <1>5 DEF KnowsRule, KnowsHole, KnowsVia, m
<1> QED BY <1>1, <1>3, <1>4, <1>5, <1>6, KnownStep

LEMMA DelRouteStrays ==
  ASSUME TablesIInv, StrayIInv, NEW g \in Groups, DelRoute(g)
  PROVE  StrayIInv'
<1> DEFINE f == Fam(g)
           m == mine[g].mark
<1>1. task[g].do = "del" /\ f \in FamilySet
  BY GroupFacts DEF DelRoute, At
<1>2. phase = "run" /\ m \in Marks
  BY <1>1, RouteTask
<1>3. UNCHANGED <<phase, sweep, rules, strays, mine>>
        /\ (routes' = [routes EXCEPT ![m][f].via = None] \/ routes' = routes)
  BY DEF DelRoute, Others
<1> HIDE DEF f, m
<1>4. ASSUME NEW n \in Marks, NEW e \in FamilySet
      PROVE  /\ routes'[n][e].hole = routes[n][e].hole
             /\ routes'[n][e].via # None => routes'[n][e].via = routes[n][e].via
  <2>1. CASE routes' = [routes EXCEPT ![m][f].via = None]
    <3>1. /\ \A k \in Marks \ {m} : routes'[k] = routes[k]
          /\ \A k \in FamilySet \ {f} : routes'[m][k] = routes[m][k]
          /\ routes'[m][f].via = None /\ routes'[m][f].hole = routes[m][f].hole
      <4>1. None \in Vias
        BY DEF Vias
      <4>2. ASSUME NEW v \in Vias, routes' = [routes EXCEPT ![m][f].via = v]
            PROVE  /\ routes' \in [Marks -> Tables]
                   /\ \A k \in Marks \ {m} : routes'[k] = routes[k]
                   /\ \A k \in FamilySet \ {f} : routes'[m][k] = routes[m][k]
                   /\ routes'[m][f].via = v /\ routes'[m][f].hole = routes[m][f].hole
        BY <1>1, <1>2, <4>2, ViaChanges, Zenon
      <4> QED BY <2>1, <4>1, <4>2
    <3>2. (n = m /\ e = f) \/ routes'[n][e] = routes[n][e]
      BY <3>1, Zenon
    <3> QED BY <3>1, <3>2, Zenon
  <2>2. CASE routes' = routes
    BY <2>2
  <2> QED BY <1>3, <2>1, <2>2
<1>5. ASSUME NEW n \in Marks, NEW e \in FamilySet
      PROVE  /\ KnowsRule(g, n, e) => KnowsRule(g, n, e)'
             /\ KnowsHole(g, n, e) => KnowsHole(g, n, e)'
             /\ routes'[n][e].via # None /\ KnowsVia(g, n, e) => KnowsVia(g, n, e)'
  BY <1>3, <1>4 DEF KnowsRule, KnowsHole, KnowsVia
<1> QED BY <1>2, <1>3, <1>4, <1>5, KnownStep

LEMMA AddRouteStrays ==
  ASSUME TablesIInv, StrayIInv, NEW g \in Groups, AddRoute(g)
  PROVE  StrayIInv'
<1> DEFINE f == Fam(g)
           m == mine[g].mark
           gw == task[g].gw
           had == routes[m][f].via
           it == <<"via", m, f>>
           sound(kept) == kept = {} /\ link.up /\ (gw # OnLink => f \in link.addrs)
<1>1. task[g].do = "add" /\ f \in FamilySet /\ gw \in Vias \ {None}
  <2>1. task[g].do = "add" /\ gw \in Vias
    BY GroupFacts DEF AddRoute, At, Tasks
  <2> QED BY <2>1, GroupFacts DEF AddOK
<1>2. phase = "run" /\ m \in Marks
  BY <1>1, RouteTask
<1>3. UNCHANGED <<phase, sweep, rules>>
  BY DEF AddRoute, Others
<1>4. PICK kept \in SUBSET {"add"} :
        /\ mine' = [mine EXCEPT ![g].via[f] = IF sound(kept) THEN gw ELSE None]
        /\ IF sound(kept) /\ had = None THEN routes' = [routes EXCEPT ![m][f].via = gw] ELSE UNCHANGED routes
        /\ strays' = IF had # None /\ ~(sound(kept) /\ gw \in {OnLink, had})
                     THEN strays \cup {it} ELSE strays \ {it}
  BY Zenon DEF AddRoute
<1> DEFINE works == sound(kept)
<1>5. /\ mine' = [mine EXCEPT ![g].via[f] = IF works THEN gw ELSE None]
      /\ works /\ had = None => routes' = [routes EXCEPT ![m][f].via = gw]
      /\ ~(works /\ had = None) => routes' = routes
      /\ had # None /\ ~(works /\ gw \in {OnLink, had}) => strays' = strays \cup {it}
      /\ had = None \/ (works /\ gw \in {OnLink, had}) => strays' = strays \ {it}
  BY <1>4
<1> HIDE DEF works, f, m, gw
<1>6. /\ \A h \in Groups \ {g} : mine'[h] = mine[h]
      /\ mine'[g].mark = m /\ mine'[g].rule = mine[g].rule /\ mine'[g].hole = mine[g].hole
      /\ \A e \in FamilySet \ {f} : mine'[g].via[e] = mine[g].via[e]
      /\ mine'[g].via[f] = IF works THEN gw ELSE None
  BY <1>1, <1>5, GroupFacts DEF Memory, m
<1>7. /\ \A n \in Marks \ {m} : routes'[n] = routes[n]
      /\ \A e \in FamilySet \ {f} : routes'[m][e] = routes[m][e]
      /\ routes'[m][f].via = IF works /\ had = None THEN gw ELSE had
      /\ routes'[m][f].hole = routes[m][f].hole
  <2>1. CASE works /\ had = None
    BY <1>1, <1>2, <1>5, <2>1, ViaChanges
  <2>2. CASE ~(works /\ had = None)
    BY <1>5, <2>2
  <2> QED BY <2>1, <2>2
<1>8. ASSUME NEW n \in Marks, NEW e \in FamilySet
      PROVE  /\ routes'[n][e].hole = routes[n][e].hole
             /\ <<"rule", n, e>> \in strays => <<"rule", n, e>> \in strays'
             /\ <<"hole", n, e>> \in strays => <<"hole", n, e>> \in strays'
             /\ KnowsRule(g, n, e) => KnowsRule(g, n, e)'
             /\ KnowsHole(g, n, e) => KnowsHole(g, n, e)'
  <2>1. routes'[n][e].hole = routes[n][e].hole
    <3>1. (n = m /\ e = f) \/ routes'[n][e] = routes[n][e]
      BY <1>7, Zenon
    <3> QED BY <1>7, <3>1, Zenon
  <2>2. <<"rule", n, e>> # it /\ <<"hole", n, e>> # it
    OBVIOUS
  <2>3. strays' = strays \cup {it} \/ strays' = strays \ {it}
    BY <1>5
  <2> QED BY <1>6, <2>1, <2>2, <2>3 DEF KnowsRule, KnowsHole, m
<1>9. ASSUME NEW n \in Marks, NEW e \in FamilySet, routes'[n][e].via # None
      PROVE  \/ <<"via", n, e>> \in strays' \/ KnowsVia(g, n, e)'
             \/ /\ routes'[n][e].via = routes[n][e].via /\ ~KnowsVia(g, n, e)
                /\ <<"via", n, e>> \in strays => <<"via", n, e>> \in strays'
  <2>1. CASE n = m /\ e = f
    <3>1. CASE had = None
      <4>1. works /\ routes'[m][f].via = gw
        BY <1>7, <1>9, <2>1, <3>1
      <4> QED BY <1>6, <2>1, <4>1 DEF KnowsVia
    <3>2. CASE had # None /\ works /\ gw \in {OnLink, had}
      <4>1. routes'[m][f].via = had /\ mine'[g].via[f] = gw
        BY <1>6, <1>7, <3>2
      <4> QED BY <1>6, <2>1, <3>2, <4>1 DEF KnowsVia
    <3>3. CASE had # None /\ ~(works /\ gw \in {OnLink, had})
      BY <1>5, <2>1, <3>3
    <3> QED BY <3>1, <3>2, <3>3
  <2>2. CASE ~(n = m /\ e = f)
    <3>1. routes'[n][e] = routes[n][e]
      BY <1>7, <2>2, Zenon
    <3>2. <<"via", n, e>> \in strays => <<"via", n, e>> \in strays'
      <4>1. <<"via", n, e>> # it
        BY <2>2
      <4>2. strays' = strays \cup {it} \/ strays' = strays \ {it}
        BY <1>5
      <4> QED BY <4>1, <4>2
    <3>3. KnowsVia(g, n, e) => KnowsVia(g, n, e)'
      <4> SUFFICES ASSUME KnowsVia(g, n, e) PROVE KnowsVia(g, n, e)'
        OBVIOUS
      <4>1. n = m /\ e # f
        BY <2>2 DEF KnowsVia, m
      <4> QED BY <1>6, <3>1, <4>1 DEF KnowsVia
    <3> QED BY <3>1, <3>2, <3>3
  <2> QED BY <2>1, <2>2
<1> HIDE DEF had, it
<1> QED BY <1>2, <1>3, <1>6, <1>8, <1>9, KnownStep

LEMMA DeleteRoutesStrays ==
  ASSUME TablesIInv, StrayIInv, NEW g \in Groups, DeleteRoutes(g)
  PROVE  StrayIInv'
<1> DEFINE f == Fam(g)
           m == mine[g].mark
           gone(kept) == Deletable(g, f) \ kept
           left(kept) == [hole |-> routes[m][f].hole /\ "hole" \notin gone(kept),
                          via |-> IF "via" \in gone(kept) THEN None ELSE routes[m][f].via]
<1>1. task[g].do = "unroute" /\ f \in FamilySet
  BY GroupFacts DEF DeleteRoutes, At
<1>2. phase = "run" /\ UNCHANGED <<phase, sweep, rules>>
  BY <1>1, DisableTask DEF DeleteRoutes, Others
<1>3. mine' = [mine EXCEPT ![g].hole = @ \ {f}, ![g].via[f] = None]
  BY DEF DeleteRoutes
<1>4. PICK kept \in SUBSET Deletable(g, f) :
        /\ routes' = IF gone(kept) = {} THEN routes ELSE [routes EXCEPT ![m][f] = left(kept)]
        /\ strays' = strays \cup {<<what, m, f>> : what \in kept}
  <2>1. \E kept \in SUBSET Deletable(g, f) :
          /\ routes' = IF Deletable(g, f) \ kept = {} THEN routes
                       ELSE [routes EXCEPT ![m][f] = [hole |-> @.hole /\ "hole" \notin Deletable(g, f) \ kept,
                                                      via |-> IF "via" \in Deletable(g, f) \ kept THEN None ELSE @.via]]
          /\ strays' = strays \cup {<<what, m, f>> : what \in kept}
    BY Zenon DEF DeleteRoutes
  <2> QED BY <2>1
<1> HIDE DEF f, m
<1>5. /\ \A h \in Groups \ {g} : mine'[h] = mine[h]
      /\ mine'[g].mark = m /\ mine'[g].rule = mine[g].rule /\ mine'[g].hole = mine[g].hole \ {f}
      /\ mine'[g].via = [mine[g].via EXCEPT ![f] = None]
  BY <1>1, <1>3, GroupFacts DEF Memory, m
<1>6. \A x : x \in strays => x \in strays'
  BY <1>4
<1>7. ASSUME m \in Marks
      PROVE  /\ \A n \in Marks \ {m} : routes'[n] = routes[n]
             /\ \A e \in FamilySet \ {f} : routes'[m][e] = routes[m][e]
             /\ routes'[m][f].hole => routes[m][f].hole /\ "hole" \notin gone(kept)
             /\ routes'[m][f].via # None => /\ routes'[m][f].via = routes[m][f].via
                                            /\ "via" \notin gone(kept)
  <2>1. routes \in [Marks -> Tables] /\ routes[m] \in Tables
    BY <1>7, GroupFacts
  <2>2. CASE gone(kept) = {}
    BY <1>4, <2>2
  <2>3. CASE gone(kept) # {}
    <3> DEFINE l == left(kept)
    <3>1. routes' = [routes EXCEPT ![m][f] = l]
      BY <1>4, <2>3
    <3>2. /\ l.hole => routes[m][f].hole /\ "hole" \notin gone(kept)
          /\ l.via # None => l.via = routes[m][f].via /\ "via" \notin gone(kept)
      <4> HIDE DEF gone
      <4> QED OBVIOUS
    <3> HIDE DEF l
    <3>4. routes'[m] = [routes[m] EXCEPT ![f] = l] /\ \A n \in Marks \ {m} : routes'[n] = routes[n]
      BY <1>7, <2>1, <3>1
    <3>5. routes'[m][f] = l /\ \A e \in FamilySet \ {f} : routes'[m][e] = routes[m][e]
      BY <1>1, <2>1, <3>4 DEF Tables
    <3> QED BY <3>2, <3>4, <3>5
  <2> QED BY <2>2, <2>3
<1>8. ASSUME m \notin Marks
      PROVE  routes' = routes /\ Bare(g)
  <2>1. Bare(g)
    BY <1>1, <1>8, DisableTask, GroupFacts DEF m
  <2>2. f \notin mine[g].hole /\ mine[g].via[f] = None
    BY <1>1, <2>1 DEF Bare, NoVia
  <2>3. Deletable(g, f) = {}
    BY <2>2 DEF Deletable
  <2> QED BY <1>4, <2>1, <2>3
<1>9. ASSUME NEW n \in Marks, NEW e \in FamilySet
      PROVE  /\ KnowsRule(g, n, e) => KnowsRule(g, n, e)'
             /\ routes'[n][e].hole =>
                  routes[n][e].hole /\ (KnowsHole(g, n, e) => KnowsHole(g, n, e)' \/ <<"hole", n, e>> \in strays')
             /\ routes'[n][e].via # None =>
                  /\ routes'[n][e].via = routes[n][e].via
                  /\ KnowsVia(g, n, e) => KnowsVia(g, n, e)' \/ <<"via", n, e>> \in strays'
  <2>1. KnowsRule(g, n, e) => KnowsRule(g, n, e)'
    BY <1>5 DEF KnowsRule, m
  <2>2. CASE n = m /\ e = f
    <3>1. ASSUME routes'[n][e].hole, KnowsHole(g, n, e)
          PROVE  <<"hole", n, e>> \in strays'
      <4>1. "hole" \in Deletable(g, f)
        BY <2>2, <3>1 DEF Deletable, KnowsHole
      <4>2. "hole" \in kept
        BY <1>7, <2>2, <3>1, <4>1
      <4> QED BY <1>4, <2>2, <4>2
    <3>2. ASSUME routes'[n][e].via # None, KnowsVia(g, n, e)
          PROVE  <<"via", n, e>> \in strays'
      <4>1. routes[m][f].via # None /\ mine[g].via[f] \in {OnLink, routes[m][f].via}
        BY <1>7, <2>2, <3>2 DEF KnowsVia
      <4>2. mine[g].via[f] # None
        BY <4>1, GatewayAssumption
      <4>3. "via" \in Deletable(g, f)
        BY <4>1, <4>2 DEF Deletable, Finds, m
      <4>4. "via" \in kept
        BY <1>7, <2>2, <3>2, <4>3
      <4> QED BY <1>4, <2>2, <4>4
    <3> QED BY <1>7, <2>1, <2>2, <3>1, <3>2
  <2>3. CASE ~(n = m /\ e = f)
    <3>1. routes'[n][e] = routes[n][e]
      BY <1>7, <1>8, <2>3, Zenon
    <3>2. KnowsHole(g, n, e) => KnowsHole(g, n, e)'
      BY <1>5, <2>3 DEF KnowsHole, m
    <3>3. KnowsVia(g, n, e) => KnowsVia(g, n, e)'
      <4> SUFFICES ASSUME KnowsVia(g, n, e) PROVE KnowsVia(g, n, e)'
        OBVIOUS
      <4>1. n = m /\ e # f
        BY <2>3 DEF KnowsVia, m
      <4>2. mine'[g].via[e] = mine[g].via[e]
        BY <1>5, <4>1, GroupFacts
      <4> QED BY <1>5, <3>1, <4>1, <4>2 DEF KnowsVia
    <3> QED BY <2>1, <3>1, <3>2, <3>3
  <2> QED BY <2>2, <2>3
<1> QED BY <1>2, <1>5, <1>6, <1>9, KnownStep

LEMMA DeleteRulesStrays ==
  ASSUME TablesIInv, StrayIInv, NEW g \in Groups, DeleteRules(g)
  PROVE  StrayIInv'
<1> DEFINE f == Fam(g)
           m == mine[g].mark
<1>1. task[g].do = "unrule" /\ f \in FamilySet
  BY GroupFacts DEF DeleteRules, At
<1>2. phase = "run" /\ UNCHANGED <<phase, sweep, routes>> /\ mine' = [mine EXCEPT ![g].rule = @ \ {f}]
  BY <1>1, DisableTask DEF DeleteRules, Others
<1>3. PICK kept \in SUBSET (mine[g].rule \cap {f}) :
        /\ rules' = rules \ {<<m, h>> : h \in (mine[g].rule \cap {f}) \ kept}
        /\ strays' = strays \cup {<<"rule", m, h>> : h \in kept}
  BY Zenon DEF DeleteRules
<1> HIDE DEF f, m
<1>4. /\ \A h \in Groups \ {g} : mine'[h] = mine[h]
      /\ mine'[g].mark = m /\ mine'[g].rule = mine[g].rule \ {f}
      /\ mine'[g].hole = mine[g].hole /\ mine'[g].via = mine[g].via
  BY <1>2, GroupFacts DEF Memory, m
<1>5. \A x : x \in strays => x \in strays'
  BY <1>3
<1>6. ASSUME NEW n \in Marks, NEW e \in FamilySet
      PROVE  /\ KnowsHole(g, n, e) => KnowsHole(g, n, e)'
             /\ KnowsVia(g, n, e) => KnowsVia(g, n, e)'
             /\ <<n, e>> \in rules' =>
                  <<n, e>> \in rules /\ (KnowsRule(g, n, e) => KnowsRule(g, n, e)' \/ <<"rule", n, e>> \in strays')
  <2>1. KnowsHole(g, n, e) => KnowsHole(g, n, e)'
    BY <1>4 DEF KnowsHole, m
  <2>2. KnowsVia(g, n, e) => KnowsVia(g, n, e)'
    BY <1>2, <1>4 DEF KnowsVia, m
  <2>3. ASSUME <<n, e>> \in rules', KnowsRule(g, n, e)
        PROVE  KnowsRule(g, n, e)' \/ <<"rule", n, e>> \in strays'
    <3>1. n = m /\ e \in mine[g].rule
      BY <2>3 DEF KnowsRule, m
    <3>2. e # f => KnowsRule(g, n, e)'
      BY <1>4, <3>1 DEF KnowsRule
    <3>3. e = f => e \in kept
      BY <1>3, <2>3, <3>1
    <3> QED BY <1>3, <3>1, <3>2, <3>3
  <2> QED BY <1>3, <2>1, <2>2, <2>3
<1> QED BY <1>2, <1>4, <1>5, <1>6, KnownStep

LEMMA RemoveChainsStrays ==
  ASSUME TablesIInv, StrayIInv, NEW g \in Groups, RemoveChains(g)
  PROVE  StrayIInv'
<1>1. task[g].do = "unchain" /\ mine[g].rule = {} /\ Bare(g)
  BY GroupFacts DEF RemoveChains, At, MineOK
<1>2. phase = "run" /\ UNCHANGED <<phase, sweep, rules, routes, strays>>
        /\ \A h \in Groups \ {g} : mine'[h] = mine[h]
  BY <1>1, DisableTask, GroupFacts DEF RemoveChains, Others
<1>3. \A m \in Marks, f \in FamilySet : ~KnowsRule(g, m, f) /\ ~KnowsHole(g, m, f)
  BY <1>1 DEF KnowsRule, KnowsHole, Bare
<1>4. ASSUME NEW m \in Marks, NEW f \in FamilySet, routes[m][f].via # None
      PROVE  ~KnowsVia(g, m, f)
  BY <1>1, <1>4, GatewayAssumption DEF KnowsVia, Bare, NoVia
<1> QED BY <1>2, <1>3, <1>4, KnownStep

(* The kernel drops routes, and with them the strays among them.              *)
LEMMA DropViaStrays ==
  ASSUME TablesIInv, StrayIInv, NEW fams \in SUBSET FamilySet, DropVia(fams), UNCHANGED <<phase, sweep, rules, mine>>
  PROVE  StrayIInv'
<1>1. \A m \in Marks, f \in FamilySet : /\ routes'[m][f].hole = routes[m][f].hole
                                        /\ routes'[m][f].via = IF f \in fams THEN None ELSE routes[m][f].via
  BY DropViaIs
<1>2. \A m \in Marks, f \in FamilySet :
        /\ <<"rule", m, f>> \in strays => <<"rule", m, f>> \in strays'
        /\ <<"hole", m, f>> \in strays => <<"hole", m, f>> \in strays'
        /\ routes'[m][f].via # None /\ <<"via", m, f>> \in strays => <<"via", m, f>> \in strays'
  BY <1>1 DEF DropVia
<1>3. SweepOK'
  BY DEF SweepOK, StrayIInv
<1>4. \A m \in Marks : OnlyStrays(m) => OnlyStrays(m)'
  BY <1>1, <1>2 DEF OnlyStrays
<1>5. CleanOK' /\ DownOK'
  BY <1>2, <1>4 DEF CleanOK, DownOK, StrayIInv, Named
<1>6. RunOK'
  <2> SUFFICES ASSUME phase = "run", NEW m \in Marks, NEW f \in FamilySet
               PROVE  (/\ <<m, f>> \in rules => RuleKnown(m, f)
                       /\ routes[m][f].hole => HoleKnown(m, f)
                       /\ routes[m][f].via # None => ViaKnown(m, f))'
    BY DEF RunOK
  <2>1. /\ <<m, f>> \in rules => RuleKnown(m, f)
        /\ routes[m][f].hole => HoleKnown(m, f)
        /\ routes[m][f].via # None => ViaKnown(m, f)
    BY DEF StrayIInv, RunOK
  <2>2. <<m, f>> \in rules' => RuleKnown(m, f)'
    BY <1>2, <2>1 DEF RuleKnown, KnowsRule
  <2>3. routes'[m][f].hole => HoleKnown(m, f)'
    BY <1>1, <1>2, <2>1 DEF HoleKnown, KnowsHole
  <2>4. routes'[m][f].via # None => ViaKnown(m, f)'
    BY <1>1, <1>2, <2>1 DEF ViaKnown, KnowsVia
  <2> QED BY <2>2, <2>3, <2>4
<1> QED BY <1>3, <1>5, <1>6 DEF StrayIInv

LEMMA StartStrays ==
  ASSUME TablesIInv, StrayIInv, Start
  PROVE  StrayIInv'
<1>1. UNCHANGED <<rules, routes, strays, mine>> /\ phase = "down" /\ phase' = "clean"
        /\ sweep' = [Swept EXCEPT !.rules = rules]
  BY DEF Start
<1>2. sweep'.rules = rules /\ sweep'.tables = {}
  BY <1>1 DEF Swept
<1>3. SweepOK' /\ RunOK' /\ DownOK'
  BY <1>1, <1>2 DEF SweepOK, RunOK, DownOK, Swept
<1>4. CleanOK'
  BY <1>1, <1>2 DEF CleanOK, DownOK, StrayIInv, Named, OnlyStrays
<1> QED BY <1>3, <1>4 DEF StrayIInv

LEMMA SweepRuleStrays ==
  ASSUME TablesIInv, StrayIInv, SweepRule
  PROVE  StrayIInv'
<1>1. UNCHANGED <<routes, mine, phase>> /\ phase = "clean"
  BY DEF SweepRule
<1>2. PICK r \in sweep.rules, kept \in SUBSET {"rule"} :
        /\ rules' = IF kept = {} THEN rules \ {r} ELSE rules
        /\ strays' = IF kept = {} THEN strays \ {<<"rule", r[1], r[2]>>} ELSE strays \cup {<<"rule", r[1], r[2]>>}
        /\ sweep' = [rules |-> sweep.rules \ {r}, tables |-> sweep.tables \cup {r[1]}]
  BY Zenon DEF SweepRule
<1>3. r \in rules /\ r \in Marks \X FamilySet /\ r = <<r[1], r[2]>> /\ r[1] \in Marks
  BY <1>2 DEF StrayIInv, SweepOK, TablesIInv, TablesTypes, KernelTypes
<1>4. sweep'.rules = sweep.rules \ {r} /\ sweep'.tables = sweep.tables \cup {r[1]}
  BY <1>2
<1>5. SweepOK' /\ RunOK' /\ DownOK'
  BY <1>1, <1>2, <1>3, <1>4 DEF StrayIInv, SweepOK, RunOK, DownOK
<1>6. \A m \in Marks : OnlyStrays(m) => OnlyStrays(m)'
  <2>1. ASSUME NEW m \in Marks, NEW f \in FamilySet
        PROVE  /\ <<"hole", m, f>> \in strays => <<"hole", m, f>> \in strays'
               /\ <<"via", m, f>> \in strays => <<"via", m, f>> \in strays'
    BY <1>2
  <2> QED BY <1>1, <2>1 DEF OnlyStrays
<1>7. CleanOK'
  <2>1. ASSUME NEW m \in Marks, NEW f \in FamilySet, <<m, f>> \in rules'
        PROVE  <<m, f>> \in sweep'.rules \/ <<"rule", m, f>> \in strays'
    <3>1. <<m, f>> \in rules /\ (<<m, f>> \in sweep.rules \/ <<"rule", m, f>> \in strays)
      BY <1>1, <1>2, <2>1 DEF StrayIInv, CleanOK
    <3>2. CASE <<m, f>> = r
      BY <1>2, <2>1, <3>2
    <3>3. CASE <<m, f>> # r
      <4>1. <<"rule", m, f>> # <<"rule", r[1], r[2]>>
        BY <1>3, <3>3
      <4> QED BY <1>2, <1>4, <3>1, <3>3, <4>1
    <3> QED BY <3>2, <3>3
  <2>2. ASSUME NEW m \in Marks
        PROVE  \/ m \in sweep'.tables
               \/ \E f \in FamilySet : <<m, f>> \in sweep'.rules
               \/ OnlyStrays(m)'
    <3>1. m \in sweep.tables \/ (\E f \in FamilySet : <<m, f>> \in sweep.rules) \/ OnlyStrays(m)
      BY <1>1 DEF StrayIInv, CleanOK
    <3> QED BY <1>3, <1>4, <1>6, <3>1
  <2> QED BY <2>1, <2>2 DEF CleanOK
<1> QED BY <1>5, <1>7 DEF StrayIInv

LEMMA SweepTableStrays ==
  ASSUME TablesIInv, StrayIInv, SweepTable
  PROVE  StrayIInv'
<1>1. UNCHANGED <<rules, mine, phase>> /\ phase = "clean" /\ sweep.rules = {}
  BY DEF SweepTable
<1>2. PICK m \in sweep.tables : \E kept \in SUBSET RoutesOf(m) :
        /\ routes' = [routes EXCEPT ![m] = [f \in FamilySet |->
                        [hole |-> <<"hole", m, f>> \in kept,
                         via |-> IF <<"via", m, f>> \in kept THEN routes[m][f].via ELSE None]]]
        /\ strays' = (strays \ RoutesOf(m)) \cup kept
        /\ sweep' = [sweep EXCEPT !.tables = @ \ {m}]
  BY Zenon DEF SweepTable
<1>3. PICK kept \in SUBSET RoutesOf(m) :
        /\ routes' = [routes EXCEPT ![m] = [f \in FamilySet |->
                        [hole |-> <<"hole", m, f>> \in kept,
                         via |-> IF <<"via", m, f>> \in kept THEN routes[m][f].via ELSE None]]]
        /\ strays' = (strays \ RoutesOf(m)) \cup kept
        /\ sweep' = [sweep EXCEPT !.tables = @ \ {m}]
  BY <1>2, Zenon
<1>4. m \in Marks /\ sweep \in [rules : SUBSET rules, tables : SUBSET Marks]
  BY <1>2 DEF StrayIInv, SweepOK
<1>5. sweep'.rules = {} /\ sweep'.tables = sweep.tables \ {m}
        /\ sweep' \in [rules : SUBSET rules, tables : SUBSET Marks]
  BY <1>1, <1>3, <1>4
<1>6. /\ \A n \in Marks \ {m} : routes'[n] = routes[n]
      /\ \A f \in FamilySet :
           /\ routes'[m][f].hole = (<<"hole", m, f>> \in kept)
           /\ routes'[m][f].via = IF <<"via", m, f>> \in kept THEN routes[m][f].via ELSE None
  BY <1>3, <1>4, SweptTable
<1>7. SweepOK' /\ RunOK' /\ DownOK'
  BY <1>1, <1>5 DEF SweepOK, RunOK, DownOK
<1>8. OnlyStrays(m)'
  <2> SUFFICES ASSUME NEW f \in FamilySet
               PROVE  /\ routes'[m][f].hole => <<"hole", m, f>> \in strays'
                      /\ routes'[m][f].via # None => <<"via", m, f>> \in strays'
    BY DEF OnlyStrays
  <2> QED BY <1>3, <1>6
<1>9. ASSUME NEW n \in Marks, n # m
      PROVE  OnlyStrays(n) => OnlyStrays(n)'
  <2>1. \A f \in FamilySet : <<"hole", n, f>> \notin RoutesOf(m) /\ <<"via", n, f>> \notin RoutesOf(m)
    BY <1>9 DEF RoutesOf
  <2>2. routes'[n] = routes[n]
    BY <1>6, <1>9
  <2> QED BY <1>3, <2>1, <2>2 DEF OnlyStrays
<1>10. CleanOK'
  <2>1. ASSUME NEW n \in Marks, NEW f \in FamilySet, <<n, f>> \in rules'
        PROVE  <<"rule", n, f>> \in strays'
    <3>1. <<"rule", n, f>> \in strays
      BY <1>1, <2>1 DEF StrayIInv, CleanOK
    <3>2. <<"rule", n, f>> \notin RoutesOf(m)
      BY DEF RoutesOf
    <3> QED BY <1>3, <3>1, <3>2
  <2>2. ASSUME NEW n \in Marks
        PROVE  n \in sweep'.tables \/ OnlyStrays(n)'
    <3>1. n \in sweep.tables \/ OnlyStrays(n)
      BY <1>1 DEF StrayIInv, CleanOK
    <3> QED BY <1>5, <1>8, <1>9, <3>1
  <2> QED BY <2>1, <2>2 DEF CleanOK
<1> QED BY <1>7, <1>10 DEF StrayIInv

LEMMA CleanedStrays ==
  ASSUME TablesIInv, StrayIInv, Cleaned
  PROVE  StrayIInv'
<1>1. UNCHANGED <<rules, routes, strays, mine, sweep>> /\ phase = "clean" /\ phase' = "run" /\ sweep = Swept
  BY DEF Cleaned, kernel
<1>2. sweep.rules = {} /\ sweep.tables = {}
  BY <1>1 DEF Swept
<1>3. SweepOK' /\ CleanOK' /\ DownOK'
  BY <1>1 DEF StrayIInv, SweepOK, CleanOK, DownOK
<1>4. RunOK'
  BY <1>1, <1>2 DEF StrayIInv, CleanOK, OnlyStrays, RunOK, RuleKnown, HoleKnown, ViaKnown
<1> QED BY <1>3, <1>4 DEF StrayIInv

(* A running daemon that is killed remembered a rule of every table it        *)
(* remembered a route of.                                                     *)
LEMMA KillStrays ==
  ASSUME TablesIInv, StrayIInv, Kill
  PROVE  StrayIInv'
<1>1. UNCHANGED <<rules, routes>> /\ phase # "down" /\ phase' = "down" /\ sweep' = Swept
        /\ strays' = strays \cup UNION {RoutesOf(m) : m \in {m \in sweep.tables : ~Named(m)}}
  BY DEF Kill
<1>2. SweepOK' /\ RunOK' /\ CleanOK'
  BY <1>1 DEF SweepOK, RunOK, CleanOK, Swept
<1>3. ASSUME NEW m \in Marks, ~Named(m)
      PROVE  OnlyStrays(m)'
  <2>1. ASSUME OnlyStrays(m)
        PROVE  OnlyStrays(m)'
    BY <1>1, <2>1 DEF OnlyStrays
  <2>2. CASE phase = "clean"
    <3>1. m \in sweep.tables \/ OnlyStrays(m)
      BY <1>3, <2>2 DEF StrayIInv, CleanOK, SweepOK, Named
    <3>2. CASE m \in sweep.tables
      <4>1. RoutesOf(m) \subseteq strays'
        BY <1>1, <1>3, <3>2
      <4>2. \A f \in FamilySet : /\ routes[m][f].hole => <<"hole", m, f>> \in RoutesOf(m)
                                 /\ routes[m][f].via # None => <<"via", m, f>> \in RoutesOf(m)
        BY DEF RoutesOf
      <4> QED BY <1>1, <4>1, <4>2 DEF OnlyStrays
    <3> QED BY <2>1, <3>1, <3>2
  <2>3. CASE phase = "run"
    <3>1. ASSUME NEW g \in Groups, mine[g].mark = m
          PROVE  Bare(g)
      <4> SUFFICES ASSUME mine[g].rule # {}
                   PROVE  FALSE
        BY GroupFacts DEF MineOK
      <4>1. PICK e \in FamilySet : e \in mine[g].rule
        BY GroupFacts
      <4>2. Claims(g)
        BY <3>1, GroupFacts DEF Claims
      <4>3. <<m, e>> \in rules
        BY <3>1, <4>1, <4>2, GroupFacts DEF KernelOK
      <4> QED BY <1>3, <4>3 DEF Named
    <3>2. ASSUME NEW f \in FamilySet
          PROVE  /\ routes[m][f].hole => <<"hole", m, f>> \in strays
                 /\ routes[m][f].via # None => <<"via", m, f>> \in strays
      <4>1. \A g \in Groups : ~KnowsHole(g, m, f)
        BY <3>1 DEF KnowsHole, Bare
      <4>2. routes[m][f].via # None => \A g \in Groups : ~KnowsVia(g, m, f)
        BY <3>1, GatewayAssumption DEF KnowsVia, Bare, NoVia
      <4> QED BY <2>3, <4>1, <4>2 DEF StrayIInv, RunOK, HoleKnown, ViaKnown
    <3>3. OnlyStrays(m)
      BY <3>2 DEF OnlyStrays
    <3> QED BY <2>1, <3>3
  <2> QED BY <1>1, <2>2, <2>3 DEF TablesIInv, TablesTypes, DaemonTypes
<1>4. DownOK'
  BY <1>1, <1>3 DEF DownOK, Named
<1> QED BY <1>2, <1>4 DEF StrayIInv

LEMMA StrayInit == Init => StrayIInv
<1> SUFFICES ASSUME Init
             PROVE  StrayIInv
  OBVIOUS
<1>1. phase = "down" /\ sweep = Swept /\ routes = [m \in Marks |-> EmptyTable]
  BY DEF Init
<1>2. SweepOK /\ RunOK /\ CleanOK
  BY <1>1 DEF SweepOK, RunOK, CleanOK, Swept
<1>3. \A m \in Marks, f \in FamilySet : ~routes[m][f].hole /\ routes[m][f].via = None
  BY <1>1 DEF EmptyTable
<1>4. DownOK
  BY <1>3 DEF DownOK, OnlyStrays
<1> QED BY <1>2, <1>4 DEF StrayIInv

LEMMA StrayInductive == TablesIInv /\ StrayIInv /\ [Next]_vars => StrayIInv'
<1> SUFFICES ASSUME TablesIInv, StrayIInv, [Next]_vars
             PROVE  StrayIInv'
  OBVIOUS
<1>1. ASSUME NEW g \in Groups, BeginEnable(g) \/ BeginDisable(g) \/ RequestFails(g) \/ Look(g) \/ ReadLink(g)
      PROVE  StrayIInv'
  <2>1. UNCHANGED <<phase, sweep, rules, routes, strays, mine>>
    BY <1>1 DEF BeginEnable, BeginDisable, RequestFails, Look, ReadLink, Others, kernel
  <2> QED BY <2>1, SameStrays
<1>2. ASSUME NEW g \in Groups, InstallChains(g)
      PROVE  StrayIInv'
  BY <1>2, SameStrays DEF InstallChains, Others
<1>3. ASSUME NEW g \in Groups, FindMark(g) \/ AddRule(g) \/ AddHole(g) \/ DelRoute(g) \/ AddRoute(g)
      PROVE  StrayIInv'
  BY <1>3, FindMarkStrays, AddRuleStrays, AddHoleStrays, DelRouteStrays, AddRouteStrays
<1>4. ASSUME NEW g \in Groups, DeleteRoutes(g) \/ DeleteRules(g) \/ RemoveChains(g)
      PROVE  StrayIInv'
  BY <1>4, DeleteRoutesStrays, DeleteRulesStrays, RemoveChainsStrays
<1>5. CASE TakeEvent("link") \/ TakeEvent("addr") \/ Hook \/ HookReturns \/ UNCHANGED vars
  <2>1. UNCHANGED <<phase, sweep, rules, routes, strays, mine>>
    BY <1>5 DEF TakeEvent, Hook, HookReturns, kernel, vars
  <2> QED BY <2>1, SameStrays
<1>6. CASE LinkUp \/ \E f \in FamilySet : AddrGained(f) \/ GatewayFound(f)
  <2>1. UNCHANGED <<phase, sweep, rules, routes, strays, mine>>
    BY <1>6 DEF LinkUp, AddrGained, GatewayFound, Untouched
  <2> QED BY <2>1, SameStrays
<1>7. CASE LinkDown
  BY <1>7, DropViaStrays DEF LinkDown, Untouched
<1>8. ASSUME NEW f \in FamilySet, AddrLost(f)
      PROVE  StrayIInv'
  BY <1>8, DropViaStrays DEF AddrLost, Untouched
<1>9. CASE Start \/ SweepRule \/ SweepTable \/ Cleaned \/ Kill
  BY <1>9, StartStrays, SweepRuleStrays, SweepTableStrays, CleanedStrays, KillStrays
<1> QED BY <1>1, <1>2, <1>3, <1>4, <1>5, <1>6, <1>7, <1>8, <1>9 DEF Next

LEMMA TablesInvariant == Spec => [](TablesIInv /\ StrayIInv)
<1>1. Init => TablesIInv /\ StrayIInv
  BY TablesInit, StrayInit
<1>2. (TablesIInv /\ StrayIInv) /\ [Next]_vars => (TablesIInv /\ StrayIInv)'
  BY TablesInductive, StrayInductive DEF StrayIInv
<1> QED BY <1>1, <1>2, PTL DEF Spec

--------------------------------------------------------------------------------
(* Theorems *)

(* The kernel's rules and tables, the memory of the groups and the tasks keep *)
(* their types, and a group that is off with nothing running remembers no     *)
(* mark, no rule and no route: disable has forgotten all (ipset-to-link.go).  *)
THEOREM TablesTypeCorrect == Spec => []TypeOK
<1>1. TablesIInv => TypeOK
  <2> SUFFICES ASSUME TablesIInv
               PROVE  TypeOK
    OBVIOUS
  <2>1. \A m \in Marks, f \in FamilySet : routes[m][f].via \in Gateways \cup {None, OnLink}
    BY DEF TablesIInv, TablesTypes, KernelTypes, Tables, Vias
  <2>2. rules \subseteq Marks \X FamilySet /\ chains \subseteq Groups /\ up \subseteq Groups /\ phase \in {"down", "clean", "run"}
    BY DEF TablesIInv, TablesTypes, KernelTypes, DaemonTypes
  <2>3. \A g \in Groups : mine[g].mark \in Marks \cup {0} /\ task[g].fam \in 1 .. NumFamilies
    BY DEF TablesIInv, TablesTypes, DaemonTypes, Memory, Tasks
  <2>4. \A g \in Groups \ up : task[g] = Idle => mine[g] = Nothing
    BY DEF TablesIInv, AllOK, GroupOK, MineOK
  <2> QED BY <2>1, <2>2, <2>3, <2>4 DEF TypeOK
<1> QED BY <1>1, TablesInvariant, PTL

(* No two groups share a mark and a table.  getUnusedMarkAndTable reads the   *)
(* kernel and insertIPRule writes it later, in requests of their own; what    *)
(* keeps the mark free in between is routingMutationMu, under which every     *)
(* Enable runs, and that nothing else adds a rule (ipset-to-link.go).         *)
THEOREM MarksStayOwn == Spec => []MarksAreOwn
<1>1. TablesIInv => MarksAreOwn
  <2> SUFFICES ASSUME TablesIInv, NEW g \in up, NEW h \in Groups, h # g, mine[h].rule # {}
               PROVE  mine[g].mark # mine[h].mark
    BY DEF MarksAreOwn
  <2>1. g \in Groups /\ GroupOK(g) /\ GroupOK(h)
    BY DEF TablesIInv, AllOK, TablesTypes, DaemonTypes
  <2>2. mine[g].rule # {}
    BY <2>1, FamilyFacts DEF GroupOK, MineOK, Whole
  <2>3. Claims(g) /\ Claims(h)
    BY <2>1, <2>2 DEF GroupOK, MineOK, Claims
  <2> QED BY <2>1, <2>3 DEF TablesIInv, Apart
<1> QED BY <1>1, TablesInvariant, PTL

(* A packet with the mark of a group that is up never falls through to the    *)
(* main table: whichever request of a hook fails, and whatever the kernel     *)
(* drops with the interface, the rule and the blackhole stay (app.go:411).    *)
THEOREM PacketsAreGuarded == Spec => []LeakGuard
<1>1. TablesIInv => LeakGuard
  <2> SUFFICES ASSUME TablesIInv, NEW g \in up, NEW f \in FamilySet
               PROVE  <<mine[g].mark, f>> \in rules /\ routes[mine[g].mark][f].hole
    BY DEF LeakGuard
  <2>1. g \in Groups /\ GroupOK(g)
    BY DEF TablesIInv, AllOK, TablesTypes, DaemonTypes
  <2>2. mine[g].rule = FamilySet /\ mine[g].hole = FamilySet
    BY <2>1 DEF GroupOK, MineOK, Whole
  <2>3. Claims(g)
    BY <2>1, <2>2, FamilyFacts DEF GroupOK, MineOK, Claims
  <2> QED BY <2>1, <2>2, <2>3 DEF GroupOK, KernelOK
<1> QED BY <1>1, TablesInvariant, PTL

(* A tunnel's route is there whenever the tunnel is up with an address and    *)
(* nothing is left to handle: an event that comes before, during or after     *)
(* Enable, or while another group's hook runs, is never lost (start.go:127,   *)
(* LinkUpHook, AddrChangeHook).                                               *)
THEOREM TunnelKeepsItsRoute == Spec => []RouteFollowsTunnel
<1>1. TablesIInv => RouteFollowsTunnel
  <2> SUFFICES ASSUME TablesIInv, p2p, budget.faults = MaxFaults, phase = "run", link.up,
                      events = [link |-> 0, addr |-> 0], loop = NoEvent,
                      NEW g \in up, NEW f \in link.addrs, kind[g] = "link", task[g] = Idle
               PROVE  routes[mine[g].mark][f].via # None
    BY DEF RouteFollowsTunnel, Follows
  <2>1. g \in Groups /\ f \in FamilySet
    BY DEF TablesIInv, TablesTypes, KernelTypes, DaemonTypes
  <2>2. ~Ahead(g, f)
    BY DEF Ahead, Idle
  <2>3. ~Reporting(g)
    BY DEF Reporting, NoEvent, ToSet
  <2>4. Wants(g, f)
    BY DEF Wants
  <2> QED BY <2>1, <2>2, <2>3, <2>4 DEF TablesIInv, RouteIsComing, Coming
<1> QED BY <1>1, TablesInvariant, PTL

(* When a start has cleaned up, nothing is left of ours but what a refused    *)
(* request has made the daemon forget, or what a cleaner that was killed had  *)
(* come between: whichever other request the daemon was killed after, a table *)
(* that is not empty has a rule by which the cleaner finds it, since rules    *)
(* go in first and come out last (cleanIPRulesAndRoutes).                     *)
THEOREM StartFindsAll == Spec => []StartLeavesOnlyStrays
<1>1. StrayIInv => StartLeavesOnlyStrays
  <2> SUFFICES ASSUME StrayIInv, phase = "clean", sweep = Swept, NEW m \in Marks, NEW f \in FamilySet
               PROVE  /\ <<m, f>> \in rules => <<"rule", m, f>> \in strays
                      /\ routes[m][f].hole => <<"hole", m, f>> \in strays
                      /\ routes[m][f].via # None => <<"via", m, f>> \in strays
    BY DEF StartLeavesOnlyStrays
  <2>1. sweep.rules = {} /\ sweep.tables = {}
    BY DEF Swept
  <2> QED BY <2>1 DEF StrayIInv, CleanOK, OnlyStrays
<1> QED BY <1>1, TablesInvariant, PTL

=============================================================================
