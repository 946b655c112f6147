---------------------------- MODULE IPTablesChains ----------------------------
(***************************************************************************)
(* The chains of the groups.  Every group, the shared preamble of the       *)
(* interface groups and the DNS remap own a chain in some tables and a jump *)
(* to it from a chain of the system.  What is wanted is kept in memory      *)
(* (utils/iptables: an override or a deletion per chain, ordered operations *)
(* per jump) and edited call by call, each under its own lock.  A commit    *)
(* reads the kernel, compiles chain after chain against what it read and    *)
(* restores the difference.  Commits exclude each other, and calls that     *)
(* register a chain; rules are added and deleted while one runs, and the    *)
(* firmware may wipe a table at any moment (ipset-to-link.go,               *)
(* ipset-to-tproxy.go, port-remap.go, netfiler-helper.go,                   *)
(* iptables-cleaner.go).                                                    *)
(*                                                                          *)
(* A chain of the system is known by its table: FORWARD in filter,          *)
(* PREROUTING in mangle and nat (for interface groups POSTROUTING in nat,   *)
(* where order does not matter).                                            *)
(***************************************************************************)
EXTENDS Naturals, Sequences, FiniteSets, SequencesExt

CONSTANTS
  Groups,
  Courses,     \* what the groups may be, with bounds: enables and disables; wipes, failures and batches together
  Preamble,    \* the owner of the shared chain
  Families,    \* the address families, in the order of the code
  ByOrder,     \* the direct priority of this run of the daemon
  Leftovers,   \* what a killed daemon may leave: sequences of owners
  None

Kinds == {"direct", "interface", "blackhole", "tproxy", "remap"}
Owners == Groups \cup {Preamble}
Tables == {"filter", "mangle", "nat"}
FamilySet == ToSet(Families)

KindOf(k, o) == IF o = Preamble THEN "preamble" ELSE k[o]

(* a stands above b in a chain of the system. *)
Before(seq, a, b) == \E i, j \in DOMAIN seq : i < j /\ seq[i] = a /\ seq[j] = b

Marking == {"interface", "blackhole"}

(* Every group that marks stands below the preamble. *)
PreambleFirst(jumps, k) ==
  \A g \in ToSet(jumps) \ {Preamble} : KindOf(k, g) \in Marking => Before(jumps, Preamble, g)

(* Unless the list decides, what is direct stands above what routes. *)
DirectFirst(jumps, k) ==
  ByOrder \/ \A a, b \in ToSet(jumps) :
    KindOf(k, a) = "direct" /\ KindOf(k, b) \in Marking \cup {"preamble", "tproxy"} => Before(jumps, a, b)

ASSUME CourseAssumption ==
  Courses \subseteq [kind : [Groups -> Kinds], turns : Nat, incidents : Nat] /\ Preamble \notin Groups
ASSUME FlagAssumption == ByOrder \in BOOLEAN
ASSUME GroupAssumption == IsFiniteSet(Groups) /\ Groups \cap {None, "pass", "batch"} = {}
ASSUME CommitAssumption == None \notin {"pass", "batch"} \cup FamilySet
ASSUME FamilyAssumption ==
  /\ Families \in Seq(FamilySet) /\ Families # <<>>
  /\ \A i, j \in DOMAIN Families : Families[i] = Families[j] => i = j

(* A daemon of the same settings was killed: its jumps were in order. *)
ASSUME LeftoverAssumption ==
  \A left \in Leftovers :
    /\ left \in Seq(Owners)
    /\ \A i, j \in DOMAIN left : left[i] = left[j] => i = j
    /\ \A c \in Courses : PreambleFirst(left, c.kind) /\ DirectFirst(left, c.kind)

VARIABLES
  kind,      \* what each group is
  chains,    \* IPTables.rules: [family -> [table -> [owner -> chain]]]
  links,     \* chainPatch.orderedRules: [family -> [table -> Seq([owner, way])]]
  kernel,    \* [family -> [table -> [chains, jumps]]]
  commit,    \* the commit of each family: [by, seen, chains, links]
  started,   \* the families CleanIPTables has cleaned
  up,        \* the groups whose Enable has succeeded
  task,      \* what runs for each group: [phase, fam, tab, step, failed, locked]
  held,      \* preambleHeld
  refs,      \* preambleRefs
  lock,      \* the holder of preambleMu
  deferred,  \* the families in deferred mode
  batch,     \* what the batch does with groups: "enable", "disable", "failed", "none"
  flush,     \* the family the batch is about to commit, or None
  refused,   \* history: some commit has failed
  unflushed, \* history: the commit at the end of a batch has failed
  raced,     \* history: a batch has swallowed the commit of a DeleteGroup
  overtaken, \* history: a table was wiped after a commit had read it, and restored all the same
  turns, incidents  \* what is left of the bounds

memory == <<chains, links>>
sharing == <<held, refs, lock>>
batching == <<deferred, batch, flush>>
history == <<refused, unflushed, raced, overtaken>>
bounds == <<turns, incidents>>
vars == <<kind, chains, links, kernel, commit, started, up, task, held, refs, lock, deferred, batch, flush,
          refused, unflushed, raced, overtaken, turns, incidents>>

--------------------------------------------------------------------------------
(* What a chain holds, table by table in the order of the code.  Every chain  *)
(* begins with the guard of the bypassed clients.                             *)

DirectChains == << <<"mangle", <<"guard", "accept">>>>, <<"nat", <<"guard", "accept">>>> >>

InterfaceChains(k) ==
  << <<"filter", IF k = "blackhole" THEN <<"guard">> ELSE <<"guard", "accept">>>>,
     <<"mangle", <<"guard", "mark", "save", "accept">>>>,
     <<"nat", <<"guard", "masquerade">>>> >>

TProxyChains ==
  << <<"nat", <<"guard", "redirect">>>>,
     <<"mangle", <<"guard", "refresh", "socket mark", "socket accept", "tproxy">>>> >>

RemapChains == << <<"nat", <<"guard", "dnat">>>> >>

PreambleChains == << <<"mangle", <<"guard", "restore", "accept">>>> >>

ChainsOf ==
  [direct |-> DirectChains, tproxy |-> TProxyChains, remap |-> RemapChains, preamble |-> PreambleChains,
   interface |-> InterfaceChains("interface"), blackhole |-> InterfaceChains("blackhole")]

WholeChains ==
  [k \in DOMAIN ChainsOf |-> [t \in {ChainsOf[k][i][1] : i \in DOMAIN ChainsOf[k]} |->
     ChainsOf[k][CHOOSE i \in DOMAIN ChainsOf[k] : ChainsOf[k][i][1] = t][2]]]

(* What a chain may hold: what it shall, or the beginning of it. *)
Rules == UNION {UNION {Prefixes(ChainsOf[k][i][2]) : i \in DOMAIN ChainsOf[k]} : k \in DOMAIN ChainsOf}

ASSUME NoneAssumption == None \notin Rules

Is(o) == KindOf(kind, o)
Whole(o, t) == WholeChains[Is(o)][t]
TablesOf(o) == DOMAIN WholeChains[Is(o)]
Marks(g) == Is(g) \in Marking

(* linkDirectChain; PortRemap inserts. *)
AtTop(o) == Is(o) = "remap" \/ (Is(o) = "direct" /\ ~ByOrder)

--------------------------------------------------------------------------------
(* The calls.  What a task does in one of its phases goes over the families    *)
(* and, in each, over the tables of a chain: the same calls for every table,   *)
(* then a commit.  task.fam, task.tab and task.step say which call is next.    *)

(* insertIPTablesRules: the chain is made and filled before it is linked.  The *)
(* rules are appended one by one: "fill" is called once for each.              *)
InstallCalls == <<"override", "fill", "link">>

(* Mutant: the jump is forgotten. *)
RemoveChainOnly == <<"drop">>

(* deleteIPTablesRules: the chain goes first, the jump second, so a commit in *)
(* between fails. *)
RemoveCalls == <<"drop", "unlink">>

(* removeInterfacePreamble: the other way round. *)
ReleaseCalls == <<"unlink", "drop">>

Phases == {"idle", "clear", "hold", "acquire", "install", "remove", "release"}
Calling == Phases \ {"idle", "hold"}

CallsOf(phase) ==
  CASE phase \in {"acquire", "install"} -> InstallCalls
    [] phase = "release"                -> ReleaseCalls
    [] OTHER                            -> RemoveCalls

(* Whose chains a task works on. *)
Worked(g) == IF task[g].phase \in {"acquire", "release"} THEN Preamble ELSE g
Chains(g) == ChainsOf[Is(Worked(g))]

Calls(g) == task[g].phase \in Calling /\ task[g].fam <= Len(Families)
AtCall(g) == Calls(g) /\ task[g].tab <= Len(Chains(g))
AtCommit(g) == Calls(g) /\ task[g].tab > Len(Chains(g))
AtEnd(g) == task[g].phase \in Calling /\ task[g].fam > Len(Families)

(* A task at the beginning of a phase. *)
Fresh(phase, locked) ==
  [phase |-> phase, fam |-> 1, tab |-> 1, step |-> 1, failed |-> FALSE, locked |-> locked]
Idle == Fresh("idle", FALSE)

AfterCall(p) ==
  IF p.step < Len(CallsOf(p.phase)) THEN [p EXCEPT !.step = p.step + 1]
  ELSE [p EXCEPT !.tab = p.tab + 1, !.step = 1]
AfterCommit(p, ok) ==
  [phase |-> p.phase, fam |-> p.fam + 1, tab |-> 1, step |-> 1,
   failed |-> p.failed \/ ~ok, locked |-> p.locked]

Enter(g, phase) == task' = [task EXCEPT ![g] = Fresh(phase, task[g].locked)]
Ends(g) == task' = [task EXCEPT ![g] = Idle]

--------------------------------------------------------------------------------
(* Commit *)

(* The members of a sequence that are in S, in their order. *)
Kept(seq, S) ==
  LET kept[n \in 0 .. Len(seq)] ==
        IF n = 0 THEN <<>> ELSE IF seq[n] \in S THEN Append(kept[n - 1], seq[n]) ELSE kept[n - 1]
  IN  kept[Len(seq)]

Linked(f, t, o) == \E op \in ToSet(links[f][t]) : op.who = o /\ op.way # "unlink"

EmptyTable == [chains |-> [o \in Owners |-> None], jumps |-> <<>>]
NoChains == [t \in Tables |-> [o \in Owners |-> [is |-> "none", rules |-> <<>>]]]
NoLinks == [t \in Tables |-> <<>>]
NoCommit == [by |-> None, seen |-> [t \in Tables |-> EmptyTable], chains |-> NoChains, links |-> NoLinks]

Committing(f) == commit[f].by # None

(* Mutant: a chain that is there counts as filled. *)
CompileMissing(there, seen, wanted) ==
  [o \in Owners |-> CASE wanted[o].is = "override" /\ seen[o] = None -> wanted[o].rules
                      [] wanted[o].is = "drop" /\ seen[o] # None       -> None
                      [] OTHER                                         -> there[o]]

(* chainOverride and chainDelete: a chain that was seen to differ is flushed  *)
(* and filled again, one that was seen is deleted, and the others are left as *)
(* they are there when the table is restored.                                 *)
CompileChains(there, seen, wanted) ==
  [o \in Owners |-> CASE wanted[o].is = "override" /\ seen[o] # wanted[o].rules -> wanted[o].rules
                      [] wanted[o].is = "drop" /\ seen[o] # None                -> None
                      [] OTHER                                                   -> there[o]]

(* chainPatch: a jump that was seen is left where it is. *)
Apply(jumps, op, seen) ==
  CASE op.way = "unlink" -> Kept(jumps, Owners \ {op.who})
    [] op.way = "bottom" /\ op.who \notin seen -> Append(jumps, op.who)
    [] op.way = "top" /\ op.who \notin seen    -> <<op.who>> \o jumps
    [] OTHER -> jumps

CompileJumps(jumps, ops, seen) ==
  LET applied[n \in 0 .. Len(ops)] ==
        IF n = 0 THEN jumps ELSE Apply(applied[n - 1], ops[n], seen)
  IN  applied[Len(ops)]

(* What becomes of table K when it is restored with the difference between    *)
(* table S, as it was read, and what is wanted.                               *)
Compile(K, S, wanted, ops) ==
  [chains |-> CompileChains(K.chains, S.chains, wanted), jumps |-> CompileJumps(K.jumps, ops, ToSet(S.jumps))]

(* iptables-restore refuses a table as a whole: a jump that was seen and is    *)
(* not there cannot be deleted, nothing can jump to a chain that is not there, *)
(* and a chain that something jumps to cannot be deleted.                      *)
Refuses(K, S, wanted, ops) ==
  LET after == Compile(K, S, wanted, ops) IN
  \/ \E op \in ToSet(ops) : op.way = "unlink" /\ op.who \in ToSet(S.jumps) \ ToSet(K.jumps)
  \/ \E o \in ToSet(after.jumps) : after.chains[o] = None

Incident == incidents > 0 /\ incidents' = incidents - 1

(* CommitContext, under commitMu, reads the kernel.                           *)
CommitBegins(f, by) ==
  /\ ~Committing(f)
  /\ commit' = [commit EXCEPT ![f] = [by |-> by, seen |-> kernel[f], chains |-> chains[f], links |-> links[f]]]

(* It then compiles one chain after the other, in the random order of a Go    *)
(* map, each under the lock of that chain: an edit meanwhile comes too late   *)
(* for the commit or, in what it has not compiled yet, just in time.          *)
CaughtOrMissed(f, t, o) ==
  \/ UNCHANGED commit
  \/ /\ Committing(f) /\ commit[f].chains[t][o] = chains[f][t][o]
     /\ commit' = [commit EXCEPT ![f].chains[t][o] = chains'[f][t][o]]
  \/ /\ Committing(f) /\ commit[f].links[t] = links[f][t]
     /\ commit' = [commit EXCEPT ![f].links[t] = links'[f][t]]

(* The table as the commit restores it; the tables it has something for, and  *)
(* those that are refused.                                                    *)
Restored(f, t) == Compile(kernel[f][t], commit[f].seen[t], commit[f].chains[t], commit[f].links[t])
Changed(f) ==
  LET c == commit[f] IN {t \in Tables : Compile(c.seen[t], c.seen[t], c.chains[t], c.links[t]) # c.seen[t]}
RefusedIn(f) ==
  LET c == commit[f] IN {t \in Changed(f) : Refuses(kernel[f][t], c.seen[t], c.chains[t], c.links[t])}

(* Tables are restored in the random order of a Go map, each at once; the     *)
(* first that is refused ends the restore.                                    *)
Restore(f, done) ==
  /\ kernel' = [kernel EXCEPT ![f] = [t \in Tables |-> IF t \in done THEN Restored(f, t) ELSE kernel[f][t]]]
  /\ overtaken' = (overtaken \/ \E t \in done : commit[f].seen[t] # kernel[f][t])
  /\ commit' = [commit EXCEPT ![f] = NoCommit]

CommitSucceeds(f) ==
  /\ Committing(f) /\ RefusedIn(f) = {}
  /\ Restore(f, Changed(f))
  /\ UNCHANGED <<refused, unflushed, incidents>>

CommitFails(f) ==
  /\ Committing(f)
  /\ IF RefusedIn(f) = {} THEN Incident ELSE UNCHANGED incidents
  /\ \E done \in SUBSET (Changed(f) \ RefusedIn(f)) : Restore(f, done)
  /\ refused' = TRUE
  /\ unflushed' = (unflushed \/ commit[f].by = "batch")

--------------------------------------------------------------------------------
(* The calls of package iptables *)

SetChain(f, t, o, is, rules) ==
  chains' = [chains EXCEPT ![f][t][o] = [is |-> is, rules |-> rules]]

(* Mutant: an operation that replaces an earlier one keeps its place. *)
SetLinkInPlace(f, t, o, way) ==
  LET ops == links[f][t] IN
  links' = [links EXCEPT ![f][t] =
              IF \E i \in DOMAIN ops : ops[i].who = o
              THEN [i \in DOMAIN ops |-> IF ops[i].who = o THEN [who |-> o, way |-> way] ELSE ops[i]]
              ELSE Append(ops, [who |-> o, way |-> way])]

(* Mutant: an operation does not replace the earlier one. *)
SetLinkBeside(f, t, o, way) ==
  links' = [links EXCEPT ![f][t] = Append(links[f][t], [who |-> o, way |-> way])]

(* chainPatch.addRule: the last operation on a rule replaces the earlier one  *)
(* and goes to the end.                                                       *)
SetLink(f, t, o, way) ==
  LET others == {op \in ToSet(links[f][t]) : op.who # o} IN
  links' = [links EXCEPT ![f][t] = Append(Kept(links[f][t], others), [who |-> o, way |-> way])]

Do(call, f, t, o, whole) ==
  \/ call = "override" /\ SetChain(f, t, o, "override", <<>>) /\ UNCHANGED links
  \/ call = "drop" /\ SetChain(f, t, o, "drop", <<>>) /\ UNCHANGED links
  \/ /\ call = "fill"
     /\ LET rules == chains[f][t][o].rules IN SetChain(f, t, o, "override", Append(rules, whole[Len(rules) + 1]))
     /\ UNCHANGED links
  \/ call = "link" /\ SetLink(f, t, o, IF AtTop(o) THEN "top" ELSE "bottom") /\ UNCHANGED chains
  \/ call = "unlink" /\ SetLink(f, t, o, "unlink") /\ UNCHANGED chains

--------------------------------------------------------------------------------
MutexFree == \A g \in Groups : ~task[g].locked
Started == started = FamilySet

(* What a daemon that was killed has left: whole chains with their jumps. *)
LeftTable(left, t) ==
  [chains |-> [o \in Owners |-> IF o \in ToSet(left) /\ t \in TablesOf(o) THEN Whole(o, t) ELSE None],
   jumps |-> Kept(left, {o \in Owners : t \in TablesOf(o)})]

Init ==
  /\ \E c \in Courses : kind = c.kind /\ turns = c.turns /\ incidents = c.incidents
  /\ chains = [f \in FamilySet |-> NoChains]
  /\ links = [f \in FamilySet |-> NoLinks]
  /\ \E left \in Leftovers : kernel = [f \in FamilySet |-> [t \in Tables |-> LeftTable(left, t)]]
  /\ commit = [f \in FamilySet |-> NoCommit]
  /\ started = {}
  /\ up = {}
  /\ task = [g \in Groups |-> Idle]
  /\ held = [g \in Groups |-> FALSE]
  /\ refs = 0 /\ lock = None
  /\ deferred = {} /\ batch = "none" /\ flush = None
  /\ refused = FALSE /\ unflushed = FALSE /\ raced = FALSE /\ overtaken = FALSE

(* CleanIPTables, before the committer and the sockets: every chain with the  *)
(* prefix is to be deleted, every jump to one unlinked.                       *)
Clean(f) ==
  LET found(t) == {o \in Owners : kernel[f][t].chains[o] # None}
      table(t) == [chains |-> [o \in Owners |-> None],
                   jumps |-> Kept(kernel[f][t].jumps, Owners \ found(t))]
  IN
  /\ f \notin started
  /\ chains' = [chains EXCEPT ![f] = [t \in Tables |->
       [o \in Owners |-> IF o \in found(t) THEN [is |-> "drop", rules |-> <<>>] ELSE chains[f][t][o]]]]
  /\ links' = [links EXCEPT ![f] = [t \in Tables |->
       [i \in DOMAIN kernel[f][t].jumps |-> [who |-> kernel[f][t].jumps[i], way |-> "unlink"]]]]
  /\ kernel' = [kernel EXCEPT ![f] = [t \in Tables |-> table(t)]]
  /\ started' = started \cup {f}
  /\ UNCHANGED <<kind, commit, up, task, sharing, batching, history, bounds>>

MayRun(what) == batch = "none" \/ (deferred = FamilySet /\ batch = what)

(* Group.Enable and PortRemap.Enable under routingMutationMu.  A group is     *)
(* first cleared (ClearIfDisabled).                                           *)
BeginEnable(g) ==
  /\ Started /\ MutexFree /\ MayRun("enable")
  /\ task[g] = Idle /\ g \notin up /\ turns > 0
  /\ turns' = turns - 1
  /\ task' = [task EXCEPT ![g] = Fresh(IF Is(g) = "remap" THEN "install" ELSE "clear", TRUE)]
  /\ UNCHANGED <<kind, memory, kernel, commit, started, up, sharing, batching, history, incidents>>

(* Group.Disable; DeleteGroup does not take routingMutationMu. *)
BeginDisable(g) ==
  /\ task[g] = Idle /\ g \in up /\ turns > 0
  /\ turns' = turns - 1
  /\ up' = up \ {g}
  /\ \E locked \in BOOLEAN :
       /\ locked => MutexFree /\ MayRun("disable")
       /\ Is(g) = "remap" => locked
       /\ task' = [task EXCEPT ![g] = Fresh("remove", locked)]
  /\ UNCHANGED <<kind, memory, kernel, commit, started, sharing, batching, history, incidents>>

(* One call in memory.  Chains are registered under the lock that a commit    *)
(* holds; rules and jumps are not.                                            *)
Edit(g) ==
  /\ AtCall(g)
  /\ LET now == task[g]
         call == CallsOf(now.phase)[now.step]
         f == Families[now.fam]
         t == Chains(g)[now.tab][1]
         whole == Chains(g)[now.tab][2]
         o == Worked(g)
     IN  /\ call \in {"override", "drop"} => ~Committing(f)
         /\ Do(call, f, t, o, whole)
         /\ CaughtOrMissed(f, t, o)
         /\ task' = IF call = "fill" /\ Len(chains[f][t][o].rules) + 1 < Len(whole) THEN task
                    ELSE [task EXCEPT ![g] = AfterCall(now)]
  /\ UNCHANGED <<kind, kernel, started, up, sharing, batching, history, bounds>>

CommitReturns(g, ok) == task' = [task EXCEPT ![g] = AfterCommit(task[g], ok)]

(* Commit looks at the batch, which swallows it, and then waits for commitMu: *)
(* a batch may begin in between, unless the task holds routingMutationMu.     *)
Commit(g) ==
  /\ AtCommit(g)
  /\ LET f == Families[task[g].fam] IN
       \/ /\ f \in deferred /\ commit[f].by # g
          /\ raced' = (raced \/ ~task[g].locked)
          /\ CommitReturns(g, TRUE)
          /\ UNCHANGED commit
       \/ /\ f \notin deferred \/ ~task[g].locked
          /\ CommitBegins(f, g)
          /\ UNCHANGED <<task, raced>>
  /\ UNCHANGED <<kind, memory, kernel, started, up, sharing, batching, refused, unflushed, overtaken, bounds>>

(* A group whose own chains cannot be committed is taken down at once;        *)
(* everywhere else the other family is still tried.                           *)
Committed(g) ==
  /\ AtCommit(g)
  /\ LET f == Families[task[g].fam] IN
       /\ commit[f].by = g
       /\ \/ CommitSucceeds(f) /\ CommitReturns(g, TRUE)
          \/ CommitFails(f) /\ IF task[g].phase = "install" THEN Enter(g, "remove") ELSE CommitReturns(g, FALSE)
  /\ UNCHANGED <<kind, memory, started, up, sharing, batching, raced, turns>>

(* Marks, rules and routes come before the chains and may fail.  In a batch   *)
(* no other group is then enabled (bringUpRouting).                     *)
RoutesFail(g) ==
  /\ task[g] = Fresh("install", task[g].locked) /\ Is(g) \in {"interface", "blackhole", "tproxy"}
  /\ Incident
  /\ Enter(g, "remove")
  /\ batch' = IF batch = "enable" THEN "failed" ELSE batch
  /\ UNCHANGED <<kind, memory, kernel, commit, started, up, sharing, deferred, flush, history, turns>>

Cleared(g) ==
  /\ AtEnd(g) /\ task[g].phase = "clear"
  /\ IF task[g].failed THEN Ends(g) ELSE Enter(g, IF Marks(g) THEN "hold" ELSE "install")
  /\ UNCHANGED <<kind, memory, kernel, commit, started, up, sharing, batching, history, bounds>>

(* acquireInterfacePreamble, under preambleMu. *)
Acquire(g) ==
  /\ task[g].phase = "hold" /\ lock = None
  /\ IF refs = 0
     THEN lock' = g /\ Enter(g, "acquire") /\ UNCHANGED <<refs, held>>
     ELSE refs' = refs + 1 /\ held' = [held EXCEPT ![g] = TRUE] /\ Enter(g, "install") /\ UNCHANGED lock
  /\ UNCHANGED <<kind, memory, kernel, commit, started, up, batching, history, bounds>>

Acquired(g) ==
  /\ AtEnd(g) /\ task[g].phase = "acquire"
  /\ lock' = None
  /\ IF task[g].failed
     THEN Enter(g, "remove") /\ UNCHANGED <<refs, held>>
     ELSE refs' = refs + 1 /\ held' = [held EXCEPT ![g] = TRUE] /\ Enter(g, "install")
  /\ UNCHANGED <<kind, memory, kernel, commit, started, up, batching, history, bounds>>

Installed(g) ==
  /\ AtEnd(g) /\ task[g].phase = "install"
  /\ up' = up \cup {g}
  /\ Ends(g)
  /\ UNCHANGED <<kind, memory, kernel, commit, started, sharing, batching, history, bounds>>

(* Mutant: every group that goes takes the preamble with it. *)
RemovedWithPreamble(g) ==
  /\ AtEnd(g) /\ task[g].phase = "remove"
  /\ IF ~held[g] THEN Ends(g) /\ UNCHANGED <<held, refs, lock>>
     ELSE /\ lock = None
          /\ refs' = refs - 1 /\ held' = [held EXCEPT ![g] = FALSE]
          /\ lock' = g /\ Enter(g, "release")
  /\ UNCHANGED <<kind, memory, kernel, commit, started, up, batching, history, bounds>>

(* releaseInterfacePreamble, under preambleMu: the last one takes it away. *)
Removed(g) ==
  /\ AtEnd(g) /\ task[g].phase = "remove"
  /\ IF ~held[g] THEN Ends(g) /\ UNCHANGED <<held, refs, lock>>
     ELSE /\ lock = None
          /\ refs' = refs - 1 /\ held' = [held EXCEPT ![g] = FALSE]
          /\ IF refs = 1 THEN lock' = g /\ Enter(g, "release") ELSE Ends(g) /\ UNCHANGED lock
  /\ UNCHANGED <<kind, memory, kernel, commit, started, up, batching, history, bounds>>

Released(g) ==
  /\ AtEnd(g) /\ task[g].phase = "release"
  /\ lock' = None
  /\ Ends(g)
  /\ UNCHANGED <<kind, memory, kernel, commit, started, up, held, refs, batching, history, bounds>>

(* Helper.Batch, under routingMutationMu: the tasks of the batch run between. *)
BatchBegins ==
  /\ Started /\ MutexFree /\ batch = "none"
  /\ Incident
  /\ batch' \in {"enable", "disable"}
  /\ deferred' = FamilySet
  /\ UNCHANGED <<kind, memory, kernel, commit, started, up, task, sharing, flush, history, turns>>

(* Family by family, commits are let through again and one is made. *)
BatchLifts ==
  /\ MutexFree /\ batch # "none" /\ flush = None
  /\ flush' = Families[CHOOSE i \in DOMAIN Families :
                         Families[i] \in deferred /\ \A j \in 1 .. i - 1 : Families[j] \notin deferred]
  /\ deferred' = deferred \ {flush'}
  /\ UNCHANGED <<kind, memory, kernel, commit, started, up, task, sharing, batch, history, bounds>>

BatchCommits ==
  /\ flush # None
  /\ CommitBegins(flush, "batch")
  /\ UNCHANGED <<kind, memory, kernel, started, up, task, sharing, batching, history, bounds>>

BatchCommitted ==
  /\ flush # None /\ commit[flush].by = "batch"
  /\ CommitSucceeds(flush) \/ CommitFails(flush)
  /\ flush' = None
  /\ batch' = IF deferred = {} THEN "none" ELSE batch
  /\ UNCHANGED <<kind, memory, started, up, task, sharing, deferred, raced, turns>>

(* The committer; the batch does not stop it. *)
Pass(f) ==
  /\ Started
  /\ CommitBegins(f, "pass")
  /\ UNCHANGED <<kind, memory, kernel, started, up, task, sharing, batching, history, bounds>>

PassEnds(f) ==
  /\ commit[f].by = "pass"
  /\ CommitSucceeds(f) \/ CommitFails(f)
  /\ UNCHANGED <<kind, memory, started, up, task, sharing, batching, raced, turns>>

(* The firmware rewrites a table, or only its own chains. *)
Wipe(f, t) ==
  /\ Started /\ kernel[f][t] # EmptyTable
  /\ Incident
  /\ \/ kernel' = [kernel EXCEPT ![f][t] = EmptyTable]
     \/ kernel' = [kernel EXCEPT ![f][t].jumps = <<>>]
  /\ UNCHANGED <<kind, memory, commit, started, up, task, sharing, batching, history, turns>>

Next ==
  \/ \E f \in FamilySet : Clean(f) \/ Pass(f) \/ PassEnds(f) \/ \E t \in Tables : Wipe(f, t)
  \/ \E g \in Groups : \/ BeginEnable(g) \/ BeginDisable(g) \/ Edit(g) \/ Commit(g) \/ Committed(g) \/ RoutesFail(g)
                       \/ Cleared(g) \/ Acquire(g) \/ Acquired(g) \/ Installed(g) \/ Removed(g) \/ Released(g)
  \/ BatchBegins \/ BatchLifts \/ BatchCommits \/ BatchCommitted

Spec == Init /\ [][Next]_vars

--------------------------------------------------------------------------------
(* Properties *)

(* Every variable keeps its type. *)
TypeOK ==
  /\ \A f \in FamilySet, t \in Tables :
       /\ DOMAIN chains[f][t] = Owners /\ DOMAIN kernel[f][t].chains = Owners
       /\ ToSet(kernel[f][t].jumps) \subseteq Owners
       /\ \A i, j \in DOMAIN links[f][t] : links[f][t][i].who = links[f][t][j].who => i = j
       /\ \A i \in DOMAIN links[f][t] : links[f][t][i].way \in {"top", "bottom", "unlink"}
  /\ \A f \in FamilySet : commit[f].by \in Groups \cup {None, "pass", "batch"}
  /\ started \subseteq FamilySet /\ deferred \subseteq FamilySet /\ up \subseteq Groups
  /\ flush \in FamilySet \cup {None}
  /\ refs = Cardinality({g \in Groups : held[g]})
  /\ lock \in Groups \cup {None}

InForce(o) == o \in up \/ (o = Preamble /\ \E g \in Groups : held[g])

(* Whatever runs, fails or is wiped, a jump in the kernel leads to a chain    *)
(* that is there and holds the beginning of what it shall: the guard of the   *)
(* bypassed clients stands before anything else, and a packet that meets half *)
(* a group returns.  Half a chain is there while its group is enabled         *)
(* (insertIPTablesRules fills and links beside a commit of another) or has    *)
(* failed to be: once Enable has succeeded the chain is whole, unless a batch *)
(* has still to commit it or could not.                                       *)
JumpsLeadToWholeChains ==
  \A f \in FamilySet, t \in Tables :
    \A o \in ToSet(kernel[f][t].jumps) :
      LET there == kernel[f][t].chains[o] IN
      /\ there # None /\ t \in TablesOf(o) /\ IsPrefix(there, Whole(o, t))
      /\ InForce(o) /\ batch = "none" /\ ~unflushed => there = Whole(o, t)

(* No interface group is linked without the preamble above it: a connection   *)
(* that is already marked never reaches the chain of another group            *)
(* (netfiler-helper.go:65-66, "The preamble runs before every interface-group *)
(* chain").                                                                   *)
PreambleAbove == \A f \in FamilySet : PreambleFirst(kernel[f]["mangle"].jumps, kind)

(* With the absolute priority a direct group is above everything that routes, *)
(* the preamble included, however groups are enabled and tables repaired.     *)
DirectAbove == \A f \in FamilySet, t \in {"mangle", "nat"} : DirectFirst(kernel[f][t].jumps, kind)

(* Direct groups keep their place whatever runs and fails.  The preamble      *)
(* keeps its own as long as no table is wiped between iptables-save and       *)
(* iptables-restore of one commit: then a group can be linked without it, and *)
(* the next commit puts it below (commit-retry.go:14-18).                     *)
OrderHolds == DirectAbove /\ (~overtaken => PreambleAbove)

Quiet == \A g \in Groups : task[g] = Idle

(* When no call runs, a commit that reads the kernel now can succeed, and     *)
(* what it then installs is every group that is up, whole and linked once per *)
(* table, and nothing of any other group.                                     *)
PassInstallsWhatIsUp ==
  (Quiet /\ Started) =>
    \A f \in FamilySet, t \in Tables :
      LET now == kernel[f][t]
          after == Compile(now, now, chains[f][t], links[f][t])
          linked(g) == Cardinality({i \in DOMAIN after.jumps : after.jumps[i] = g})
      IN  /\ ~Refuses(now, now, chains[f][t], links[f][t])
          /\ \A g \in Groups :
               IF g \in up /\ t \in TablesOf(g)
               THEN after.chains[g] = Whole(g, t) /\ linked(g) = 1
               ELSE after.chains[g] = None /\ linked(g) = 0

(* As long as no commit has failed, the firmware may wipe a table and the     *)
(* repair puts the groups back in the order they had: which group wins an     *)
(* address both have does not change (chain-patch.go addRule and Compile).    *)
(* Two things are excluded.  A table that is wiped after a commit has read it *)
(* and is restored all the same gets only what the commit found missing, and  *)
(* the rest comes below.  A DeleteGroup that runs beside a batch, without     *)
(* routingMutationMu, has its commit swallowed, so that a jump still in the   *)
(* kernel may be wanted again, at the end.                                    *)
RepairKeepsOrder ==
  (Started /\ ~refused /\ ~raced /\ ~overtaken) =>
    \A f \in FamilySet, t \in Tables :
      LET jumps == kernel[f][t].jumps
          fresh == CompileJumps(<<>>, links[f][t], {})
      IN  \A a, b \in ToSet(jumps) \cap ToSet(fresh) : Before(jumps, a, b) => Before(fresh, a, b)
=============================================================================
