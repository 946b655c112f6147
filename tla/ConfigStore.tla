----------------------------- MODULE ConfigStore -----------------------------
(***************************************************************************)
(* The configuration in memory, in config.yaml and in the kernel: the       *)
(* networks of the bypassed clients live in one ipset per address family    *)
(* that the rules of every chain refer to (client-routing.go).              *)
(*                                                                          *)
(* SetClientRouting and a reload by SIGHUP fill a shadow set per family and *)
(* swap it in, under clientRoutingMu and cfgMu; SetClientRouting goes on to *)
(* save and takes everything back when that fails.  Handlers that edit      *)
(* groups change the rest of the configuration under cfgMu alone.  They all *)
(* save: a snapshot under cfgMu, the file written in place without a lock.  *)
(*                                                                          *)
(* The rest of the configuration is the number of its last edit.            *)
(***************************************************************************)
EXTENDS Naturals, Sequences, FiniteSets, SequencesExt

CONSTANTS
  Callers,     \* HTTP handlers and the goroutine that takes SIGHUP
  Networks,    \* the lists of client networks that are asked for
  Families,    \* the address families, in the order of the code
  MaxCalls,    \* bound: calls
  MaxFaults,   \* bound: netlink requests, file operations and imports that fail
  MaxCrashes,  \* bound: kills
  MaxStops,    \* bound: orderly stops
  None

NumFamilies == Len(Families)
FamilySet == ToSet(Families)
Empty == [nets |-> "empty", edit |-> 0]  \* a file that has been truncated
Torn == [nets |-> "torn", edit |-> 0]    \* a file that is cut short, or mixes two writes
Unreadable == {Empty, Torn}
Default == "default"   \* the networks of a daemon without a configuration
AllNetworks == Networks \cup {Default}

ASSUME NetworkAssumption == None \notin AllNetworks /\ None \notin Callers

(* No family comes twice. *)
ASSUME FamilyAssumption ==
  /\ Families \in Seq(FamilySet) /\ NumFamilies > 0
  /\ \A i, j \in DOMAIN Families : Families[i] = Families[j] => i = j

ASSUME BoundAssumption == {MaxCalls, MaxFaults, MaxCrashes, MaxStops} \subseteq Nat

VARIABLES
  memory,    \* the configuration: [nets, edit]
  file,      \* config.yaml: the same, or Unreadable
  sets,      \* by family [active, shadow], each [nets, whole] or None
  ready,     \* clientBypassReady
  phase,     \* of the daemon: "down", "run", or "ending" once its sets are gone
  clientMu,  \* who holds clientRoutingMu
  cfgMu,     \* who holds cfgMu as a writer
  task,      \* what each caller is at
  accepted,  \* the networks last put in force for good
  budget     \* what is left of the bounds

locks == <<clientMu, cfgMu>>
vars == <<memory, file, sets, ready, phase, clientMu, cfgMu, task, accepted, budget>>

--------------------------------------------------------------------------------
Idle == [op |-> "none", at |-> "idle", fam |-> 1, nets |-> None, old |-> None, snap |-> None]
Nobody == [c \in Callers |-> Idle]
NoSets == [f \in FamilySet |-> [active |-> None, shadow |-> None]]
NoShadows == [f \in FamilySet |-> [sets[f] EXCEPT !.shadow = None]]
Filled(nets) == [nets |-> nets, whole |-> TRUE]

ASSUME SetAssumption == \A nets \in AllNetworks : None # Filled(nets)

Init ==
  /\ memory = [nets |-> Default, edit |-> 0]
  /\ file = memory
  /\ sets = NoSets /\ ready = FALSE
  /\ phase = "down"
  /\ clientMu = None /\ cfgMu = None
  /\ task = Nobody
  /\ accepted = Default
  /\ budget = [calls |-> MaxCalls, faults |-> MaxFaults, crashes |-> MaxCrashes, stops |-> MaxStops]

Spend(what) == budget[what] > 0 /\ budget' = [budget EXCEPT ![what] = @ - 1]
NoFault == UNCHANGED budget
Fault == Spend("faults")

At(c, at) == task[c].at = at
Fam(c) == Families[task[c].fam]
GoTo(c, at, i) == task' = [task EXCEPT ![c].at = at, ![c].fam = i]
Returns(c) == task' = [task EXCEPT ![c] = Idle]
Release(c) == clientMu' = (IF clientMu = c THEN None ELSE clientMu) /\ cfgMu' = IF cfgMu = c THEN None ELSE cfgMu

(* The next family, or what follows the last. *)
NextFamily(c, at, then) == IF task[c].fam < NumFamilies THEN GoTo(c, at, task[c].fam + 1) ELSE GoTo(c, then, 1)

Begin(c, op, nets, at) ==
  /\ phase = "run" /\ task[c] = Idle
  /\ Spend("calls")
  /\ task' = [task EXCEPT ![c] = [Idle EXCEPT !.op = op, !.nets = nets, !.at = at]]
  /\ UNCHANGED <<memory, file, sets, ready, phase, locks, accepted>>

SetClientRouting(c) == \E nets \in Networks : Begin(c, "set", nets, "client")
EditGroups(c) == Begin(c, "edit", None, "cfg")
SaveConfig(c) == Begin(c, "save", None, "snapshot")
Reload(c) == Begin(c, "reload", None, "read")

--------------------------------------------------------------------------------
(* Locks *)

(* LoadConfig reads the file before it takes a lock. *)
ReadFile(c) ==
  /\ At(c, "read")
  /\ IF file \in Unreadable THEN Returns(c)
     ELSE task' = [task EXCEPT ![c] = [@ EXCEPT !.at = "client", !.snap = file, !.nets = file.nets]]
  /\ UNCHANGED <<memory, file, sets, ready, phase, locks, accepted, budget>>

TakeClientMu(c) ==
  /\ At(c, "client") /\ clientMu = None
  /\ clientMu' = c
  /\ GoTo(c, "cfg", 1)
  /\ UNCHANGED <<memory, file, sets, ready, phase, cfgMu, accepted, budget>>

(* UpdateClientBypass is refused before the sets are made and once they are gone. *)
TakeCfgMu(c) ==
  /\ At(c, "cfg") /\ cfgMu = None
  /\ cfgMu' = c
  /\ task' = [task EXCEPT ![c].at = IF task[c].op = "edit" THEN "edit" ELSE IF ready THEN "fill" ELSE "fail",
                          ![c].old = IF task[c].op = "set" THEN memory.nets ELSE @]
  /\ UNCHANGED <<memory, file, sets, ready, phase, clientMu, accepted, budget>>

Edit(c) ==
  /\ At(c, "edit")
  /\ memory' = [memory EXCEPT !.edit = @ + 1]
  /\ Release(c)
  /\ GoTo(c, "snapshot", 1)
  /\ UNCHANGED <<file, sets, ready, phase, accepted, budget>>

--------------------------------------------------------------------------------
(* UpdateClientBypass *)

(* Mutant: a set that could not be filled is swapped in all the same. *)
FillWhatFits(c) ==
  LET f == Fam(c) IN
  /\ At(c, "fill")
  /\ \E whole \in BOOLEAN :
       /\ IF whole THEN NoFault ELSE Fault
       /\ sets' = [sets EXCEPT ![f].shadow = [nets |-> task[c].nets, whole |-> whole]]
  /\ NextFamily(c, "fill", "swap")
  /\ UNCHANGED <<memory, file, ready, phase, locks, accepted>>

(* The stale shadow set is destroyed, a new one created and filled.  A set    *)
(* that cannot be destroyed stops the call; one that cannot be created or     *)
(* filled takes all the shadows with it.                                      *)
Fill(c) ==
  LET f == Fam(c) IN
  /\ At(c, "fill")
  /\ \/ /\ NoFault
        /\ sets' = [sets EXCEPT ![f].shadow = Filled(task[c].nets)]
        /\ NextFamily(c, "fill", "swap")
     \/ /\ Fault /\ sets[f].shadow # None
        /\ UNCHANGED sets
        /\ GoTo(c, "fail", 1)
     \/ /\ Fault
        /\ sets' = NoShadows
        /\ GoTo(c, "fail", 1)
  /\ UNCHANGED <<memory, file, ready, phase, locks, accepted>>

Exchange(f) == sets' = [sets EXCEPT ![f] = [active |-> @.shadow, shadow |-> @.active]]

(* Mutant: the families already swapped are not swapped back. *)
SwapOrDrop(c) ==
  /\ At(c, "swap")
  /\ \/ NoFault /\ Exchange(Fam(c)) /\ NextFamily(c, "swap", "clear")
     \/ Fault /\ UNCHANGED sets /\ GoTo(c, "drop", 1)
  /\ UNCHANGED <<memory, file, ready, phase, locks, accepted>>

Swap(c) ==
  /\ At(c, "swap")
  /\ \/ NoFault /\ Exchange(Fam(c)) /\ NextFamily(c, "swap", "clear")
     \/ /\ Fault /\ UNCHANGED sets
        /\ IF task[c].fam > 1 THEN GoTo(c, "unswap", task[c].fam - 1) ELSE GoTo(c, "drop", 1)
  /\ UNCHANGED <<memory, file, ready, phase, locks, accepted>>

(* The families already swapped are swapped back, the last first, whether or not one fails. *)
Unswap(c) ==
  /\ At(c, "unswap")
  /\ \/ NoFault /\ Exchange(Fam(c))
     \/ Fault /\ UNCHANGED sets
  /\ IF task[c].fam > 1 THEN GoTo(c, "unswap", task[c].fam - 1) ELSE GoTo(c, "drop", 1)
  /\ UNCHANGED <<memory, file, ready, phase, locks, accepted>>

(* A set that cannot be destroyed is left. *)
ShadowsGo ==
  \/ NoFault /\ sets' = NoShadows
  \/ Fault /\ UNCHANGED sets

DropShadows(c) ==
  /\ At(c, "drop")
  /\ ShadowsGo
  /\ GoTo(c, "fail", 1)
  /\ UNCHANGED <<memory, file, ready, phase, locks, accepted>>

(* Mutant: cfgMu is not given back before the configuration is saved. *)
UpdatedUnderLock(c) ==
  LET t == task[c] IN
  /\ At(c, "clear")
  /\ ShadowsGo
  /\ memory' = [memory EXCEPT !.nets = t.nets]
  /\ accepted' = IF t.op = "reload" THEN t.nets ELSE accepted
  /\ CASE t.op = "set"    -> UNCHANGED locks /\ GoTo(c, "snapshot", 1)
       [] t.op = "reload" -> UNCHANGED locks /\ GoTo(c, "import", 1)
       [] OTHER           -> Release(c) /\ Returns(c)
  /\ UNCHANGED <<file, ready, phase>>

(* The sets are in place and the configuration follows under the same lock.   *)
(* What SetClientRouting has put in force still depends on the file; what a   *)
(* reload has put in force is never taken back.                               *)
Updated(c) ==
  LET t == task[c] IN
  /\ At(c, "clear")
  /\ ShadowsGo
  /\ memory' = [memory EXCEPT !.nets = t.nets]
  /\ accepted' = IF t.op = "reload" THEN t.nets ELSE accepted
  /\ CASE t.op = "set"    -> cfgMu' = None /\ UNCHANGED clientMu /\ GoTo(c, "snapshot", 1)
       [] t.op = "reload" -> UNCHANGED locks /\ GoTo(c, "import", 1)
       [] OTHER           -> Release(c) /\ Returns(c)
  /\ UNCHANGED <<file, ready, phase>>

(* A reload goes on with the groups and subscriptions of the file, under both *)
(* locks.  One that cannot be added or rebuilt ends it with an error: part of *)
(* the rest is the file's, and the new networks stay.                         *)
Import(c) ==
  /\ At(c, "import")
  /\ \/ NoFault /\ memory' = [memory EXCEPT !.edit = task[c].snap.edit]
     \/ Fault /\ memory' \in {memory, [memory EXCEPT !.edit = task[c].snap.edit]}
  /\ Release(c)
  /\ Returns(c)
  /\ UNCHANGED <<file, sets, ready, phase, accepted>>

(* Mutant: the error path leaves clientRoutingMu taken. *)
UpdateFailsLocked(c) ==
  /\ At(c, "fail")
  /\ memory' = IF task[c].op = "undo" THEN [memory EXCEPT !.nets = task[c].nets] ELSE memory
  /\ cfgMu' = None /\ UNCHANGED clientMu
  /\ Returns(c)
  /\ UNCHANGED <<file, sets, ready, phase, accepted, budget>>

(* It has failed; the configuration of a rollback goes back all the same. *)
UpdateFails(c) ==
  /\ At(c, "fail")
  /\ memory' = IF task[c].op = "undo" THEN [memory EXCEPT !.nets = task[c].nets] ELSE memory
  /\ Release(c)
  /\ Returns(c)
  /\ UNCHANGED <<file, sets, ready, phase, accepted, budget>>

--------------------------------------------------------------------------------
(* SaveConfig *)

Snapshot(c) ==
  /\ At(c, "snapshot") /\ cfgMu = None
  /\ task' = [task EXCEPT ![c].at = "open", ![c].snap = memory]
  /\ UNCHANGED <<memory, file, sets, ready, phase, locks, accepted, budget>>

(* SetClientRouting takes back what it has done; the others log the error. *)
SaveFails(c) ==
  /\ IF task[c].op = "set"
     THEN task' = [task EXCEPT ![c] = [@ EXCEPT !.op = "undo", !.at = "cfg", !.nets = task[c].old]]
     ELSE Returns(c)
  /\ UNCHANGED <<locks, accepted>>

Open(c) ==
  /\ At(c, "open")
  /\ \/ NoFault /\ file' = Empty /\ GoTo(c, "write", 1) /\ UNCHANGED <<locks, accepted>>
     \/ Fault /\ UNCHANGED file /\ SaveFails(c)
  /\ UNCHANGED <<memory, sets, ready, phase>>

(* Over what another has written meanwhile, the shorter of the two leaves the *)
(* end of the longer.                                                         *)
Write(c) ==
  /\ At(c, "write")
  /\ \/ /\ NoFault
        /\ file' \in IF file \in {Empty, task[c].snap} THEN {task[c].snap} ELSE {task[c].snap, Torn}
        /\ accepted' = IF task[c].op = "set" THEN task[c].nets ELSE accepted
        /\ Release(c) /\ Returns(c)
     \/ Fault /\ file' = Torn /\ SaveFails(c)
  /\ UNCHANGED <<memory, sets, ready, phase>>

--------------------------------------------------------------------------------
(* The daemon *)

(* New loads the file, or goes on with the defaults; SetupClientBypass makes  *)
(* the sets before any rule refers to them and before any call comes in.      *)
Start ==
  /\ phase = "down"
  /\ memory' = IF file \in Unreadable THEN [nets |-> Default, edit |-> 0] ELSE file
  /\ sets' = [f \in FamilySet |-> [active |-> Filled(memory'.nets), shadow |-> None]]
  /\ accepted' = memory'.nets
  /\ ready' = TRUE /\ phase' = "run"
  /\ UNCHANGED <<file, locks, task, budget>>

InUpdate(c) == task[c].at \in {"fill", "swap", "unswap", "drop", "clear"}

(* DestroyClientBypass waits for clientBypassMu; the rules are gone, handlers *)
(* may still be running.                                                      *)
Stop ==
  /\ phase = "run" /\ \A c \in Callers : ~InUpdate(c)
  /\ Spend("stops")
  /\ phase' = "ending" /\ ready' = FALSE
  /\ sets' = NoSets
  /\ UNCHANGED <<memory, file, locks, task, accepted>>

Ended == phase' = "down" /\ ready' = FALSE /\ task' = Nobody /\ clientMu' = None /\ cfgMu' = None

Exit ==
  /\ phase = "ending" /\ Ended
  /\ UNCHANGED <<memory, file, sets, accepted, budget>>

Kill ==
  /\ phase = "run" /\ Spend("crashes") /\ Ended
  /\ UNCHANGED <<memory, file, sets, accepted>>

Step(c) ==
  \/ ReadFile(c) \/ TakeClientMu(c) \/ TakeCfgMu(c) \/ Edit(c)
  \/ Fill(c) \/ Swap(c) \/ Unswap(c) \/ DropShadows(c) \/ Updated(c) \/ Import(c) \/ UpdateFails(c)
  \/ Snapshot(c) \/ Open(c) \/ Write(c)

Next ==
  \/ \E c \in Callers : SetClientRouting(c) \/ EditGroups(c) \/ SaveConfig(c) \/ Reload(c) \/ Step(c)
  \/ Start \/ Stop \/ Exit \/ Kill

Spec == Init /\ [][Next]_vars

(* A handler that has begun goes on. *)
LiveSpec == Spec /\ \A c \in Callers : WF_vars(Step(c))

--------------------------------------------------------------------------------
(* Properties *)

(* Every variable keeps its type, and a lock is held exactly where the code   *)
(* is between taking it and giving it back.                                   *)
TypeOK ==
  /\ memory.nets \in AllNetworks /\ memory.edit \in 0 .. MaxCalls
  /\ \A f \in FamilySet, which \in {"active", "shadow"} :
       sets[f][which] = None \/ sets[f][which].nets \in AllNetworks
  /\ phase \in {"down", "run", "ending"} /\ ready = (phase = "run")
  /\ \A c \in Callers :
       /\ clientMu = c <=> /\ task[c].op \in {"set", "undo", "reload"}
                           /\ task[c].at \notin {"read", "client"}
       /\ cfgMu = c <=> (InUpdate(c) \/ task[c].at \in {"edit", "import", "fail"})

(* While rules refer to the sets, each family has its set and it holds all    *)
(* the networks of one configuration: whatever fails and whoever runs, no     *)
(* client meets a set that is missing or half full (client-routing.go:196,    *)
(* "Rules keep referencing the stable active names throughout the update").   *)
BypassIsWhole ==
  phase = "run" => \A f \in FamilySet : sets[f].active # None /\ sets[f].active.whole

(* When no call is at it, the sets of both families and the configuration     *)
(* agree, and hold the networks of the last SetClientRouting that succeeded   *)
(* or the last reload that got as far as its import (config.go:214-240): an   *)
(* update that fails - filling, swapping one family - and a SetClientRouting  *)
(* that cannot save leave what they found, if the rollback does not fail as   *)
(* well (app.go:470).  A reload whose import fails leaves its networks, in    *)
(* all three places.                                                          *)
BypassIsAccepted ==
  phase = "run" /\ clientMu = None /\ budget.faults + 1 >= MaxFaults =>
    /\ memory.nets = accepted
    /\ \A f \in FamilySet : sets[f].active.nets = accepted

(* Every call returns, whatever the others hold: nobody saves while he holds  *)
(* cfgMu, and clientRoutingMu is always taken before it (config.go:70).       *)
CallsEnd == \A c \in Callers : (task[c] # Idle) ~> (task[c] = Idle)

(* "Saves the current configuration to persistent memory" (handlers.go:308):  *)
(* when every call has returned, nothing has failed and the daemon has not    *)
(* been stopped halfway, the file holds the configuration in memory.          *)
FileIsCurrent ==
  task = Nobody /\ budget.faults = MaxFaults /\ budget.crashes = MaxCrashes /\ budget.stops = MaxStops =>
    file = memory
=============================================================================
