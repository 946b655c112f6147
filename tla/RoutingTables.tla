---------------------------- MODULE RoutingTables ----------------------------
(***************************************************************************)
(* Marks, rules and routes.  A group that routes through an interface, into *)
(* the blackhole or to the proxy takes a mark nobody uses, adds a rule that *)
(* sends the mark to a table of the same number, and fills that table: a    *)
(* blackhole (or the local route of the proxy) below the route through the  *)
(* interface.  Every call is a netlink request of its own; links go up and  *)
(* down, get and lose addresses in between, and the main loop answers their *)
(* events one at a time.  A request may be refused: a teardown then goes on *)
(* and forgets what it could not delete.  The daemon may be killed between  *)
(* two requests, those of its own cleaner included (ipset-to-link.go,       *)
(* ipset-to-tproxy.go, netlink.go, iptables-cleaner.go).                    *)
(*                                                                          *)
(* There is one interface.  The number of a mark is its place after         *)
(* StartIdx; chains are installed and removed in one step here and call by  *)
(* call in IPTablesChains.                                                  *)
(***************************************************************************)
EXTENDS Naturals, Sequences, FiniteSets, FiniteSetsExt, SequencesExt

CONSTANTS
  Groups,
  KindMaps,    \* what the groups may be: a set of [Groups -> Kinds]
  Families,    \* the address families, in the order of the code
  Gateways,    \* the gateways a broadcast interface may have
  PointToPoint,\* what the interface may be: a set of booleans
  Bounds,      \* what a run may spend: enables and disables, changes of the interface, kills
  MaxFaults,   \* bound: steps of which requests fail
  NumMarks,    \* bound: the marks after StartIdx
  None

NumFamilies == Len(Families)
FamilySet == ToSet(Families)
Marks == 1 .. NumMarks
OnLink == "onlink"   \* a route that names no gateway

Kinds == {"link", "blackhole", "tproxy"}

ASSUME GroupAssumption == IsFiniteSet(Groups)
ASSUME KindAssumption == KindMaps \subseteq [Groups -> Kinds]
ASSUME FamilyAssumption == Families \in Seq(FamilySet) /\ Families # <<>>
ASSUME GatewayAssumption == OnLink \notin Gateways /\ None \notin Gateways \cup {OnLink}
ASSUME PointAssumption == PointToPoint \subseteq BOOLEAN
ASSUME BoundAssumption ==
  {MaxFaults, NumMarks} \subseteq Nat /\ Bounds \subseteq [turns : Nat, changes : Nat, crashes : Nat]

VARIABLES
  kind,      \* what each group is
  p2p,       \* the interface is point-to-point
  link,      \* [up, addrs, gw]: gw is what the main table names, by family
  rules,     \* the rules of the kernel: {<<mark, family>>}
  routes,    \* [mark -> [family -> [hole, via]]]
  chains,    \* the groups whose chains mark packets
  strays,    \* history: what a refused request or a killed cleaner has left, <<what, mark, family>>
  phase,     \* of the daemon: "down", "clean" or "run"
  sweep,     \* [rules, tables] the cleaner has still to go through
  up,        \* the groups whose Enable has succeeded
  mine,      \* what a group remembers: [mark, rule, hole, via], by family
  task,      \* what runs for a group under its lock
  loop,      \* the event the main loop handles, and the groups it still has to call
  events,    \* the events not yet handled: [link, addr]
  budget     \* what is left of the bounds

kernel == <<rules, routes, chains, strays>>
given == <<kind, p2p>>
vars == <<kind, p2p, link, rules, routes, chains, strays, phase, sweep, up, mine, task, loop, events, budget>>

--------------------------------------------------------------------------------
EmptyTable == [f \in FamilySet |-> [hole |-> FALSE, via |-> None]]
Nothing == [mark |-> 0, rule |-> {}, hole |-> {}, via |-> [f \in FamilySet |-> None]]
Idle == [why |-> "none", do |-> "none", fam |-> 1, gw |-> None, failed |-> FALSE, locked |-> FALSE]
NoEvent == [what |-> "none", todo |-> <<>>]
Swept == [rules |-> {}, tables |-> {}]

Init ==
  /\ kind \in KindMaps /\ p2p \in PointToPoint
  /\ link = [up |-> FALSE, addrs |-> {}, gw |-> [f \in FamilySet |-> None]]
  /\ rules = {} /\ routes = [m \in Marks |-> EmptyTable] /\ chains = {} /\ strays = {}
  /\ phase = "down" /\ sweep = Swept /\ up = {}
  /\ mine = [g \in Groups |-> Nothing]
  /\ task = [g \in Groups |-> Idle]
  /\ loop = NoEvent
  /\ events = [link |-> 0, addr |-> 0]
  /\ \E b \in Bounds :
       budget = [turns |-> b.turns, changes |-> b.changes, faults |-> MaxFaults, crashes |-> b.crashes]

Spend(what) == budget[what] > 0 /\ budget' = [budget EXCEPT ![what] = @ - 1]

(* Of the requests of a step these are refused. *)
Refused(kept) == IF kept = {} THEN UNCHANGED budget ELSE Spend("faults")

Fam(g) == Families[task[g].fam]
At(g, do) == task[g].do = do
MutexFree == \A g \in Groups : ~task[g].locked

--------------------------------------------------------------------------------
(* Where a task goes next *)

(* Mutant: the rules go first. *)
RulesFirst == <<"unrule", "unroute", "unchain">>

(* disable: the order of its requests. *)
Teardown == <<"unroute", "unrule", "unchain">>
After(do) == LET i == CHOOSE i \in DOMAIN Teardown : Teardown[i] = do IN Teardown[i + 1]

GoTo(g, do, i) == task' = [task EXCEPT ![g].do = do, ![g].fam = i]
Fails(g) == task' = [task EXCEPT ![g].why = "disable", ![g].do = Teardown[1], ![g].fam = 1]
Stops(g) == task' = [task EXCEPT ![g] = Idle]

(* The same request for the next family, or what follows the last. *)
NextFamily(g, do, then, i) == IF task[g].fam < NumFamilies THEN GoTo(g, do, task[g].fam + 1) ELSE GoTo(g, then, i)

(* The end of insertIPRoute: of an Enable or of a hook.  ok tells whether the *)
(* last request succeeded.                                                    *)
RoutesDone(g, ok) ==
  CASE task[g].why # "enable"                              -> Stops(g)
    [] task[g].why = "enable" /\ (task[g].failed \/ ~ok)  -> Fails(g)
    [] OTHER                                               -> GoTo(g, "chains", 1)

(* updateIfaceRoute is left for one family; the other is tried all the same. *)
RouteDone(g, ok) ==
  IF task[g].fam < NumFamilies
  THEN task' = [task EXCEPT ![g].do = "read", ![g].fam = @ + 1, ![g].failed = @ \/ ~ok]
  ELSE RoutesDone(g, ok)

Others == <<given, link, phase, sweep, loop, events>>

--------------------------------------------------------------------------------
(* Enable and disable *)

BeginEnable(g) ==
  /\ phase = "run" /\ MutexFree
  /\ task[g] = Idle /\ g \notin up
  /\ Spend("turns")
  /\ task' = [task EXCEPT ![g] = [Idle EXCEPT !.why = "enable", !.do = "mark", !.locked = TRUE]]
  /\ UNCHANGED <<Others, kernel, up, mine>>

(* DeleteGroup does not take routingMutationMu. *)
BeginDisable(g) ==
  /\ phase = "run"
  /\ task[g] = Idle /\ g \in up
  /\ Spend("turns")
  /\ up' = up \ {g}
  /\ \E locked \in BOOLEAN :
       /\ locked => MutexFree
       /\ task' = [task EXCEPT ![g] = [Idle EXCEPT !.why = "disable", !.do = Teardown[1], !.locked = locked]]
  /\ UNCHANGED <<Others, kernel, mine>>

(* Mutant: only the routes are looked at. *)
UsedByRoutes == {m \in Marks : routes[m] # EmptyTable}

(* The marks the kernel knows, from its rules and its tables. *)
Used == {m \in Marks : routes[m] # EmptyTable \/ \E f \in FamilySet : <<m, f>> \in rules}

(* getUnusedMarkAndTable *)
FindMark(g) ==
  /\ At(g, "mark")
  /\ Used # Marks
  /\ mine' = [mine EXCEPT ![g].mark = Min(Marks \ Used)]
  /\ GoTo(g, "rule", 1)
  /\ UNCHANGED <<Others, kernel, up, budget>>

(* insertIPRule *)
AddRule(g) ==
  /\ At(g, "rule")
  /\ rules' = rules \cup {<<mine[g].mark, Fam(g)>>}
  /\ mine' = [mine EXCEPT ![g].rule = @ \cup {Fam(g)}]
  /\ NextFamily(g, "rule", "hole", 1)
  /\ UNCHANGED <<Others, routes, chains, strays, up, budget>>

(* insertIPRoute: the blackhole, or the local route of the proxy; one that is *)
(* there already is as good.                                                  *)
AddHole(g) ==
  /\ At(g, "hole")
  /\ routes' = [routes EXCEPT ![mine[g].mark][Fam(g)].hole = TRUE]
  /\ mine' = [mine EXCEPT ![g].hole = @ \cup {Fam(g)}]
  /\ IF task[g].fam = NumFamilies /\ kind[g] # "link" THEN RoutesDone(g, TRUE) ELSE NextFamily(g, "hole", "look", 1)
  /\ UNCHANGED <<Others, rules, chains, strays, up, budget>>

(* A request fails that makes or looks for something: the Enable or the hook  *)
(* ends.  AddrList and the RouteDel of updateIfaceRoute leave the route as it *)
(* is, and the other family is tried.                                         *)
RequestFails(g) ==
  /\ Spend("faults")
  /\ \/ /\ task[g].do \in {"mark", "rule", "hole", "look", "chains"}
        /\ IF task[g].why = "enable" THEN Fails(g) ELSE Stops(g)
     \/ /\ task[g].do \in {"read", "del"}
        /\ RouteDone(g, FALSE)
  /\ UNCHANGED <<Others, kernel, up, mine>>

(* LinkByName and the flags: an interface that is down is waited for. *)
Look(g) ==
  /\ At(g, "look")
  /\ IF link.up THEN GoTo(g, "read", 1) ELSE RoutesDone(g, TRUE)
  /\ UNCHANGED <<Others, kernel, up, mine, budget>>

(* The gateway a route would name. *)
Gateway(f) == IF p2p \/ link.gw[f] = None THEN OnLink ELSE link.gw[f]

(* updateIfaceRoute as far as its requests: the addresses and the gateway. *)
ReadLink(g) ==
  LET f == Fam(g)
      current == mine[g].via[f]
      gw == Gateway(f)
  IN
  /\ At(g, "read")
  /\ IF f \notin link.addrs \/ (gw # OnLink /\ gw = current) THEN RouteDone(g, TRUE)
     ELSE task' = [task EXCEPT ![g].gw = gw,
                               ![g].do = IF current # None /\ gw # OnLink THEN "del" ELSE "add"]
  /\ UNCHANGED <<Others, kernel, up, mine, budget>>

(* What RouteDel finds for a route with this gateway. *)
Finds(m, f, gw) == routes[m][f].via # None /\ (gw = OnLink \/ gw = routes[m][f].via)

DelRoute(g) ==
  LET f == Fam(g)
      m == mine[g].mark
  IN
  /\ At(g, "del")
  /\ IF Finds(m, f, mine[g].via[f])
     THEN routes' = [routes EXCEPT ![m][f].via = None] /\ GoTo(g, "add", task[g].fam)
     ELSE UNCHANGED routes /\ RouteDone(g, FALSE)
  /\ UNCHANGED <<Others, rules, chains, strays, up, mine, budget>>

(* Mutant: the route takes the place of the blackhole. *)
ReplaceRoute(g) ==
  LET f == Fam(g)
      m == mine[g].mark
  IN
  /\ At(g, "add")
  /\ mine' = [mine EXCEPT ![g].via[f] = IF link.up THEN task[g].gw ELSE None]
  /\ routes' = IF link.up THEN [routes EXCEPT ![m][f] = [hole |-> FALSE, via |-> task[g].gw]] ELSE routes
  /\ RouteDone(g, link.up)
  /\ UNCHANGED <<Others, rules, chains, strays, up, budget>>

(* RouteAdd; a route that is there already is as good.  Where it is refused   *)
(* the group has no route, though one may be there.                           *)
AddRoute(g) ==
  LET f == Fam(g)
      m == mine[g].mark
      via == routes[m][f].via
  IN
  /\ At(g, "add")
  /\ \E kept \in SUBSET {"add"} :
       LET works == kept = {} /\ link.up /\ (task[g].gw # OnLink => f \in link.addrs) IN
       /\ Refused(kept)
       /\ mine' = [mine EXCEPT ![g].via[f] = IF works THEN task[g].gw ELSE None]
       /\ IF works /\ via = None
          THEN routes' = [routes EXCEPT ![m][f].via = task[g].gw] ELSE UNCHANGED routes
       /\ strays' = IF via # None /\ ~(works /\ task[g].gw \in {OnLink, via})
                    THEN strays \cup {<<"via", m, f>>} ELSE strays \ {<<"via", m, f>>}
       /\ RouteDone(g, works)
  /\ UNCHANGED <<Others, rules, chains, up>>

(* The chains of both families (IPTablesChains). *)
InstallChains(g) ==
  /\ At(g, "chains")
  /\ chains' = chains \cup {g}
  /\ up' = up \cup {g}
  /\ Stops(g)
  /\ UNCHANGED <<Others, rules, routes, strays, mine, budget>>

(* The routes of a family that RouteDel would delete for what g remembers. *)
Deletable(g, f) ==
  {what \in {"hole", "via"} :
     IF what = "hole" THEN f \in mine[g].hole
     ELSE mine[g].via[f] # None /\ Finds(mine[g].mark, f, mine[g].via[f])}

(* deleteIPRoute: a route that could not be deleted is forgotten all the same. *)
DeleteRoutes(g) ==
  LET f == Fam(g)
      m == mine[g].mark
  IN
  /\ At(g, "unroute")
  /\ \E kept \in SUBSET Deletable(g, f) :
       LET gone == Deletable(g, f) \ kept IN
       /\ Refused(kept)
       /\ routes' = IF gone = {} THEN routes
                    ELSE [routes EXCEPT ![m][f] = [hole |-> @.hole /\ "hole" \notin gone,
                                                   via |-> IF "via" \in gone THEN None ELSE @.via]]
       /\ strays' = strays \cup {<<what, m, f>> : what \in kept}
  /\ mine' = [mine EXCEPT ![g].hole = @ \ {f}, ![g].via[f] = None]
  /\ NextFamily(g, "unroute", After("unroute"), 1)
  /\ UNCHANGED <<Others, rules, chains, up>>

(* Mutant: the rule that is deleted is remembered. *)
DeleteRulesOnly(g) ==
  LET f == Fam(g) IN
  /\ At(g, "unrule")
  /\ rules' = IF f \in mine[g].rule THEN rules \ {<<mine[g].mark, f>>} ELSE rules
  /\ NextFamily(g, "unrule", After("unrule"), 1)
  /\ UNCHANGED <<Others, routes, chains, strays, up, mine, budget>>

(* deleteIPRule: the rule, too, is forgotten. *)
DeleteRules(g) ==
  LET f == Fam(g)
      m == mine[g].mark
  IN
  /\ At(g, "unrule")
  /\ \E kept \in SUBSET (mine[g].rule \cap {f}) :
       /\ Refused(kept)
       /\ rules' = rules \ {<<m, h>> : h \in (mine[g].rule \cap {f}) \ kept}
       /\ strays' = strays \cup {<<"rule", m, h>> : h \in kept}
  /\ mine' = [mine EXCEPT ![g].rule = @ \ {f}]
  /\ NextFamily(g, "unrule", After("unrule"), 1)
  /\ UNCHANGED <<Others, routes, chains, up>>

RemoveChains(g) ==
  /\ At(g, "unchain")
  /\ \E kept \in SUBSET {g} :
       /\ Refused(kept)
       /\ chains' = chains \ ({g} \ kept)
  /\ mine' = [mine EXCEPT ![g].mark = 0]
  /\ Stops(g)
  /\ UNCHANGED <<Others, rules, routes, strays, up>>

--------------------------------------------------------------------------------
(* The main loop: handleLink and handleAddr call every group that routes      *)
(* through the interface, one after another, each under its lock.             *)

Links == SetToSeq({g \in Groups : kind[g] = "link"})

TakeEvent(what) ==
  /\ phase = "run" /\ loop = NoEvent /\ events[what] > 0
  /\ events' = [events EXCEPT ![what] = @ - 1]
  /\ loop' = [what |-> what, todo |-> Links]
  /\ UNCHANGED <<given, link, kernel, phase, sweep, up, mine, task, budget>>

(* Mutant: a group whose lock is taken is passed over. *)
HookUnlessBusy ==
  /\ loop.todo # <<>>
  /\ LET g == Head(loop.todo) IN
       IF g \in up /\ task[g] = Idle
       THEN task' = [task EXCEPT ![g] = [Idle EXCEPT !.why = loop.what, !.do = IF loop.what = "link" THEN "hole" ELSE "read"]]
       ELSE UNCHANGED task
  /\ loop' = IF Len(loop.todo) = 1 THEN NoEvent ELSE [loop EXCEPT !.todo = Tail(@)]
  /\ UNCHANGED <<given, link, kernel, phase, sweep, up, mine, events, budget>>

(* LinkUpHook and AddrChangeHook wait for the lock; a group that is off is    *)
(* passed over.  The loop goes on when the hook has returned.                 *)
Hook ==
  /\ loop.todo # <<>>
  /\ LET g == Head(loop.todo) IN
       /\ task[g] = Idle
       /\ task' = IF g \in up
                  THEN [task EXCEPT ![g] = [Idle EXCEPT !.why = loop.what, !.do = IF loop.what = "link" THEN "hole" ELSE "read"]]
                  ELSE task
  /\ loop' = [loop EXCEPT !.todo = Tail(@)]
  /\ \A g \in Groups : task[g].why \notin {"link", "addr"}
  /\ UNCHANGED <<given, link, kernel, phase, sweep, up, mine, events, budget>>

HookReturns ==
  /\ loop # NoEvent /\ loop.todo = <<>>
  /\ \A g \in Groups : task[g].why \notin {"link", "addr"}
  /\ loop' = NoEvent
  /\ UNCHANGED <<given, link, kernel, phase, sweep, up, mine, task, events, budget>>

--------------------------------------------------------------------------------
(* The interface *)

DropVia(fams) ==
  /\ routes' = [m \in Marks |-> [f \in FamilySet |->
                  IF f \in fams THEN [routes[m][f] EXCEPT !.via = None] ELSE routes[m][f]]]
  /\ strays' = strays \ ({"via"} \X Marks \X fams)

Reported(what) == events' = IF phase = "run" THEN [events EXCEPT ![what] = @ + 1] ELSE events
Untouched == <<given, rules, chains, phase, sweep, up, mine, task, loop>>

(* The kernel drops the routes through an interface that goes down. *)
LinkDown ==
  /\ link.up /\ Spend("changes")
  /\ link' = [link EXCEPT !.up = FALSE, !.gw = [f \in FamilySet |-> None]]
  /\ DropVia(FamilySet)
  /\ UNCHANGED <<Untouched, events>>

LinkUp ==
  /\ ~link.up /\ Spend("changes")
  /\ link' = [link EXCEPT !.up = TRUE]
  /\ Reported("link")
  /\ UNCHANGED <<Untouched, routes, strays>>

(* ... or loses its last address. *)
AddrLost(f) ==
  /\ f \in link.addrs /\ Spend("changes")
  /\ link' = [link EXCEPT !.addrs = @ \ {f}, !.gw[f] = None]
  /\ DropVia({f})
  /\ UNCHANGED <<Untouched, events>>

AddrGained(f) ==
  /\ f \notin link.addrs /\ Spend("changes")
  /\ link' = [link EXCEPT !.addrs = @ \cup {f}]
  /\ Reported("addr")
  /\ UNCHANGED <<Untouched, routes, strays>>

(* The main table gets a gateway: nothing is reported. *)
GatewayFound(f) ==
  /\ ~p2p /\ link.up /\ f \in link.addrs
  /\ \E gw \in Gateways \ {link.gw[f]} : link' = [link EXCEPT !.gw[f] = gw]
  /\ Spend("changes")
  /\ UNCHANGED <<Untouched, routes, strays, events>>

--------------------------------------------------------------------------------
(* Start and kill *)

(* CleanIPTables: the chains, and the list of the rules with a mark of ours.  *)
(* A start that fails here ends like one that is killed.                      *)
Start ==
  /\ phase = "down"
  /\ phase' = "clean"
  /\ chains' = {}
  /\ sweep' = [Swept EXCEPT !.rules = rules]
  /\ UNCHANGED <<given, link, rules, routes, strays, up, mine, task, loop, events, budget>>

(* cleanIPRulesAndRoutes: a rule is deleted and its table noted ... *)
SweepRule ==
  /\ phase = "clean"
  /\ \E r \in sweep.rules, kept \in SUBSET {"rule"} :
       LET stray == {<<"rule", r[1], r[2]>>} IN
       /\ Refused(kept)
       /\ rules' = IF kept = {} THEN rules \ {r} ELSE rules
       /\ strays' = IF kept = {} THEN strays \ stray ELSE strays \cup stray
       /\ sweep' = [rules |-> sweep.rules \ {r}, tables |-> sweep.tables \cup {r[1]}]
  /\ UNCHANGED <<given, link, routes, chains, phase, up, mine, task, loop, events>>

RoutesOf(m) ==
  {<<"hole", m, f>> : f \in {f \in FamilySet : routes[m][f].hole}}
    \cup {<<"via", m, f>> : f \in {f \in FamilySet : routes[m][f].via # None}}

(* ... then the routes of each table, those of one that cannot be listed not. *)
SweepTable ==
  /\ phase = "clean" /\ sweep.rules = {}
  /\ \E m \in sweep.tables : \E kept \in SUBSET RoutesOf(m) :
       /\ Refused(kept)
       /\ routes' = [routes EXCEPT ![m] = [f \in FamilySet |->
                       [hole |-> <<"hole", m, f>> \in kept,
                        via |-> IF <<"via", m, f>> \in kept THEN routes[m][f].via ELSE None]]]
       /\ strays' = (strays \ RoutesOf(m)) \cup kept
       /\ sweep' = [sweep EXCEPT !.tables = @ \ {m}]
  /\ UNCHANGED <<given, link, rules, chains, phase, up, mine, task, loop, events>>

(* The subscriptions to events come next, before any group. *)
Cleaned ==
  /\ phase = "clean" /\ sweep = Swept
  /\ phase' = "run"
  /\ UNCHANGED <<given, link, kernel, sweep, up, mine, task, loop, events, budget>>

Named(m) == \E f \in FamilySet : <<m, f>> \in rules

(* A cleaner that is killed leaves the tables whose rules it has deleted. *)
Kill ==
  /\ phase # "down" /\ Spend("crashes")
  /\ strays' = strays \cup UNION {RoutesOf(m) : m \in {m \in sweep.tables : ~Named(m)}}
  /\ phase' = "down" /\ sweep' = Swept /\ up' = {}
  /\ mine' = [g \in Groups |-> Nothing]
  /\ task' = [g \in Groups |-> Idle]
  /\ loop' = NoEvent
  /\ events' = [link |-> 0, addr |-> 0]
  /\ UNCHANGED <<given, link, rules, routes, chains>>

Next ==
  \/ \E g \in Groups :
       \/ BeginEnable(g) \/ BeginDisable(g) \/ FindMark(g) \/ AddRule(g) \/ AddHole(g) \/ RequestFails(g)
       \/ Look(g) \/ ReadLink(g) \/ DelRoute(g) \/ AddRoute(g) \/ InstallChains(g)
       \/ DeleteRoutes(g) \/ DeleteRules(g) \/ RemoveChains(g)
  \/ TakeEvent("link") \/ TakeEvent("addr") \/ Hook \/ HookReturns
  \/ LinkDown \/ LinkUp \/ \E f \in FamilySet : AddrLost(f) \/ AddrGained(f) \/ GatewayFound(f)
  \/ Start \/ SweepRule \/ SweepTable \/ Cleaned \/ Kill

Spec == Init /\ [][Next]_vars

--------------------------------------------------------------------------------
(* Properties *)

(* Every variable keeps its type; a group that is off remembers nothing. *)
TypeOK ==
  /\ rules \subseteq Marks \X FamilySet
  /\ \A m \in Marks, f \in FamilySet : routes[m][f].via \in Gateways \cup {None, OnLink}
  /\ chains \subseteq Groups /\ up \subseteq Groups /\ phase \in {"down", "clean", "run"}
  /\ \A g \in Groups : mine[g].mark \in Marks \cup {0} /\ task[g].fam \in 1 .. NumFamilies
  /\ \A g \in Groups \ up : task[g] = Idle => mine[g] = Nothing

(* Two groups never share a mark and a table, though each looks for a free    *)
(* one before it takes it and DeleteGroup gives marks back under no common    *)
(* lock (getUnusedMarkAndTable).                                              *)
MarksAreOwn ==
  \A g \in up, h \in Groups :
    h # g /\ mine[h].rule # {} => mine[g].mark # mine[h].mark

(* The leak guard (app.go:411): from the moment a group is up until it is     *)
(* disabled, a packet with its mark finds its rule and, whatever becomes of   *)
(* the interface and of its route, at least the blackhole or the local route: *)
(* it never falls through to the main table.                                  *)
LeakGuard ==
  \A g \in up, f \in FamilySet :
    /\ <<mine[g].mark, f>> \in rules
    /\ routes[mine[g].mark][f].hole

(* The daemon may be killed between any two requests and any request may be   *)
(* refused: when a start has cleaned up, what is left of ours is just what a  *)
(* refused request made the daemon forget, or what a cleaner that was killed  *)
(* had come between.  Nothing else is lost, though the tables are found only  *)
(* through the rules (cleanIPRulesAndRoutes).                                 *)
StartLeavesOnlyStrays ==
  phase = "clean" /\ sweep = Swept =>
    \A m \in Marks, f \in FamilySet :
      /\ <<m, f>> \in rules => <<"rule", m, f>> \in strays
      /\ routes[m][f].hole => <<"hole", m, f>> \in strays
      /\ routes[m][f].via # None => <<"via", m, f>> \in strays

(* The comment of rollbackFailedBringUp (app.go:576) says that CleanIPTables  *)
(* of the next start cleans up what a teardown has left: it would, if the     *)
(* daemon never left a table that no rule names.                              *)
TablesAreNamed ==
  phase = "down" => \A m \in Marks : routes[m] # EmptyTable => Named(m)

(* A group up has its route through the interface when the interface is up    *)
(* with an address and every event has been handled.                          *)
Follows ==
  (phase = "run" /\ link.up /\ events = [link |-> 0, addr |-> 0] /\ loop = NoEvent) =>
    \A g \in up, f \in link.addrs :
      kind[g] = "link" /\ task[g] = Idle => routes[mine[g].mark][f].via # None

(* ... for a point-to-point interface, as a tunnel is, unless a request has   *)
(* failed: the event may come before, during or after Enable (start.go:127,   *)
(* "our route on it would never get installed").                              *)
RouteFollowsTunnel == p2p /\ budget.faults = MaxFaults => Follows

(* The comment of updateIfaceRoute (ipset-to-link.go:417) says so of every    *)
(* interface: "idempotently keeps up the default route".  A broadcast         *)
(* interface that comes back with the same gateway is left without.           *)
RouteFollowsLink == budget.faults = MaxFaults => Follows
=============================================================================
