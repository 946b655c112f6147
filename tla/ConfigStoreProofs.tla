-------------------------- MODULE ConfigStoreProofs --------------------------
(***************************************************************************)
(* Theorems about the configuration, the sets of the bypassed clients and  *)
(* the calls that change them, for any callers, any lists of networks, any *)
(* number of families, of calls, of faults, of kills and of stops.         *)
(***************************************************************************)
EXTENDS ConfigStore, FiniteSetTheorems, TLAPS

Configs == [nets : AllNetworks, edit : Nat]
FullSets == {Filled(nets) : nets \in AllNetworks}
SetValues == FullSets \cup {None}
Ops == {"none", "set", "undo", "edit", "save", "reload"}
Updating == {"fill", "swap", "unswap", "drop", "clear"}
Saving == {"snapshot", "open", "write"}
Places == Updating \cup Saving \cup {"idle", "read", "client", "cfg", "edit", "import", "fail"}
Tasks == [op : Ops, at : Places, fam : 1 .. NumFamilies, nets : AllNetworks \cup {None},
          old : AllNetworks \cup {None}, snap : Configs \cup Unreadable \cup {None}]
Budgets == [{"calls", "faults", "crashes", "stops"} -> Nat]

ConfigTypes ==
    /\ memory \in Configs
    /\ file \in Configs \cup Unreadable
    /\ sets \in [FamilySet -> [active : SetValues, shadow : SetValues]]
    /\ phase \in {"down", "run", "ending"}
    /\ ready = (phase = "run")
    /\ clientMu \in Callers \cup {None}
    /\ cfgMu \in Callers \cup {None}
    /\ task \in [Callers -> Tasks]
    /\ accepted \in AllNetworks
    /\ budget \in Budgets /\ budget["faults"] <= MaxFaults

(* Where a call of each kind can be. *)
PlaceOK(t) ==
    /\ t.op = "set" => t.at \in {"client", "cfg", "fail"} \cup Updating \cup Saving
    /\ t.op = "undo" => t.at \in {"cfg", "fail"} \cup Updating
    /\ t.op = "edit" => t.at \in {"cfg", "edit"} \cup Saving
    /\ t.op = "save" => t.at \in Saving
    /\ t.op = "reload" => t.at \in {"read", "client", "cfg", "import", "fail"} \cup Updating

(* What a call has in hand there. *)
TaskOK(t) ==
    /\ PlaceOK(t)
    /\ t.op = "none" => t = Idle
    /\ t.op \in {"set", "undo"} => t.nets \in AllNetworks
    /\ t.op = "set" /\ t.at \notin {"client", "cfg"} => t.old \in AllNetworks
    /\ t.op = "reload" /\ t.at # "read" => t.nets \in AllNetworks /\ t.snap \in Configs
    /\ t.at \in {"open", "write"} => t.snap \in Configs
    /\ t.at \notin {"fill", "swap", "unswap"} => t.fam = 1

TasksOK == \A c \in Callers : TaskOK(task[c])

NeedsClientMu(t) == t.op \in {"set", "undo", "reload"} /\ t.at \notin {"read", "client"}
NeedsCfgMu(t) == t.at \in Updating \cup {"edit", "import", "fail"}

LocksOK ==
    \A c \in Callers : /\ clientMu = c <=> NeedsClientMu(task[c])
                       /\ cfgMu = c <=> NeedsCfgMu(task[c])

(* A daemon that is down runs nothing, and an update runs only while it is up. *)
PhaseOK ==
    /\ phase = "down" => task = Nobody
    /\ \A c \in Callers : task[c].at \in Updating => phase = "run"

(* The edits that are still to be made. *)
Pending == {c \in Callers : task[c].op = "edit" /\ task[c].at \in {"cfg", "edit"}}
HasSnap(t) == (t.op = "reload" /\ t.at # "read") \/ t.at \in {"open", "write"}
Affords(config) == config.edit + Cardinality(Pending) + budget["calls"] <= MaxCalls
EditsAreCounted ==
    /\ IsFiniteSet(Pending)
    /\ Affords(memory) /\ Affords(file)
    /\ \A c \in Callers : HasSnap(task[c]) => Affords(task[c].snap)

(* The sets of the families, while rules refer to them and as an update goes. *)
SetsAreWhole == phase = "run" => \A f \in FamilySet : sets[f].active \in FullSets

UpdateOK(c) ==
    LET t == task[c]
        S(i) == sets[Families[i]]
        Fams == 1 .. NumFamilies IN
    /\ t.at = "fill" => \A i \in Fams : i < t.fam => S(i).shadow = Filled(t.nets)
    /\ t.at = "swap" => \A i \in Fams : 
          IF i < t.fam THEN S(i).active = Filled(t.nets) /\ S(i).shadow \in FullSets
          ELSE S(i).shadow = Filled(t.nets)
    /\ t.at = "unswap" => \A i \in Fams : i <= t.fam => S(i).shadow \in FullSets
    /\ t.at = "clear" => \A i \in Fams : S(i).active = Filled(t.nets)

UpdatesOK == \A c \in Callers : UpdateOK(c)

(* With one fault at most, while the daemon runs. *)
OneFault == phase = "run" /\ budget["faults"] + 1 >= MaxFaults
HasFailed == budget["faults"] < MaxFaults
AllActive(nets) == \A i \in 1 .. NumFamilies : sets[Families[i]].active = Filled(nets)
Settled == memory.nets = accepted /\ AllActive(accepted)

(* An update that has not been made yet has changed nothing but the families *)
(* it has swapped.                                                          *)
NotYet(t) ==
    /\ memory.nets = accepted
    /\ t.at \in {"cfg", "fill", "drop", "import", "fail"} => AllActive(accepted)
    /\ t.at = "swap" => \A i \in 1 .. NumFamilies :
          IF i < t.fam THEN sets[Families[i]].shadow = Filled(accepted)
          ELSE sets[Families[i]].active = Filled(accepted)
    /\ t.at = "unswap" => HasFailed /\ \A i \in 1 .. NumFamilies :
          IF i <= t.fam THEN sets[Families[i]].shadow = Filled(accepted)
          ELSE sets[Families[i]].active = Filled(accepted)

HolderOK(t) ==
    /\ t.op \in {"set", "reload"} /\ t.at \notin Saving => NotYet(t)
    /\ t.op = "set" /\ t.at # "cfg" => t.old = accepted
    /\ t.op = "set" /\ t.at \in Saving => memory.nets = t.nets /\ AllActive(t.nets)
    /\ t.op = "undo" => t.nets = accepted /\ HasFailed /\ t.at \notin {"unswap", "drop", "fail"}

AcceptedOK ==
    OneFault => /\ clientMu = None => Settled
                /\ \A c \in Callers : clientMu = c => HolderOK(task[c])

ConfigIInv ==
    /\ ConfigTypes /\ TasksOK /\ LocksOK /\ PhaseOK /\ EditsAreCounted
    /\ SetsAreWhole /\ UpdatesOK /\ AcceptedOK

--------------------------------------------------------------------------------
(* Operators *)

LEMMA FamiliesAreListed ==
    /\ NumFamilies \in Nat /\ 1 \in 1 .. NumFamilies
    /\ DOMAIN Families = 1 .. NumFamilies
    /\ \A i \in 1 .. NumFamilies : Families[i] \in FamilySet
    /\ \A f \in FamilySet : \E i \in 1 .. NumFamilies : f = Families[i]
    /\ \A i, j \in 1 .. NumFamilies : Families[i] = Families[j] => i = j
<1>1. /\ NumFamilies \in Nat /\ NumFamilies > 0
      /\ DOMAIN Families = 1 .. NumFamilies
      /\ \A i \in 1 .. NumFamilies : Families[i] \in FamilySet
  BY FamilyAssumption DEF NumFamilies
<1>2. FamilySet = {Families[i] : i \in DOMAIN Families}
  BY DEF FamilySet, ToSet
<1> QED BY <1>1, <1>2, FamilyAssumption

LEMMA IdleTask == Idle \in Tasks /\ TaskOK(Idle) /\ ~NeedsClientMu(Idle) /\ ~NeedsCfgMu(Idle)
BY FamiliesAreListed
   DEF Idle, Tasks, Ops, Places, Updating, Saving, TaskOK, PlaceOK, NeedsClientMu, NeedsCfgMu

(* A call that goes to another place keeps everything else it has. *)
LEMMA GoingTo ==
    ASSUME task \in [Callers -> Tasks], NEW c \in Callers, NEW at \in Places,
           NEW i \in 1 .. NumFamilies, GoTo(c, at, i)
    PROVE  /\ task' \in [Callers -> Tasks]
           /\ \A d \in Callers \ {c} : task'[d] = task[d]
           /\ task'[c].op = task[c].op /\ task'[c].at = at /\ task'[c].fam = i
           /\ task'[c].nets = task[c].nets /\ task'[c].old = task[c].old /\ task'[c].snap = task[c].snap
<1>1. task[c] \in Tasks
  OBVIOUS
<1>2. [[task[c] EXCEPT !.at = at] EXCEPT !.fam = i] \in Tasks
  BY <1>1 DEF Tasks
<1> QED BY <1>1, <1>2 DEF GoTo, Tasks

LEMMA Returning ==
    ASSUME task \in [Callers -> Tasks], NEW c \in Callers, Returns(c)
    PROVE  /\ task' \in [Callers -> Tasks]
           /\ \A d \in Callers \ {c} : task'[d] = task[d]
           /\ task'[c] = Idle
BY IdleTask DEF Returns

(* A save that fails ends the call, or sends SetClientRouting back. *)
LEMMA SaveFailing ==
    ASSUME task \in [Callers -> Tasks], NEW c \in Callers, SaveFails(c)
    PROVE  task'[c] = Idle \/ task'[c].at = "cfg"
<1>1. CASE task[c].op = "set"
  <2> DEFINE new == [task[c] EXCEPT !.op = "undo", !.at = "cfg", !.nets = task[c].old]
  <2>1. task' = [task EXCEPT ![c] = new]
    BY <1>1 DEF SaveFails
  <2>2. new.at = "cfg"
    BY DEF Tasks
  <2> HIDE DEF new
  <2> QED BY <2>1, <2>2
<1>2. CASE task[c].op # "set"
  BY <1>2, Returning DEF SaveFails
<1> QED BY <1>1, <1>2

(* What is read from the file or of the configuration goes with the call. *)
LEMMA TakesSnapshot ==
    ASSUME task \in [Callers -> Tasks], NEW c \in Callers
    PROVE  /\ ReadFile(c) => Returns(c) \/ task'[c].at = "client"
           /\ Snapshot(c) => task'[c].at = "open"
<1>1. ASSUME ReadFile(c), ~Returns(c) PROVE task'[c].at = "client"
  <2> DEFINE new == [task[c] EXCEPT !.at = "client", !.snap = file, !.nets = file.nets]
  <2>1. task' = [task EXCEPT ![c] = new]
    BY <1>1 DEF ReadFile
  <2>2. new.at = "client"
    BY DEF Tasks
  <2> HIDE DEF new
  <2> QED BY <2>1, <2>2
<1>2. ASSUME Snapshot(c) PROVE task'[c].at = "open"
  BY <1>2 DEF Snapshot, Tasks
<1> QED BY <1>1, <1>2

(* The next family is the one after, or the first of what follows. *)
LEMMA GoingOn ==
    ASSUME task \in [Callers -> Tasks], NEW c \in Callers, NEW at, NEW then, NextFamily(c, at, then)
    PROVE  \/ /\ task[c].fam < NumFamilies /\ task[c].fam + 1 \in 1 .. NumFamilies
              /\ GoTo(c, at, task[c].fam + 1)
           \/ task[c].fam = NumFamilies /\ GoTo(c, then, 1)
<1>1. task[c].fam \in 1 .. NumFamilies /\ NumFamilies \in Nat
  BY FamiliesAreListed DEF Tasks
<1> QED BY <1>1 DEF NextFamily

--------------------------------------------------------------------------------
(* What a step of a call does to the calls and to the locks. *)

Call(c) == SetClientRouting(c) \/ EditGroups(c) \/ SaveConfig(c) \/ Reload(c)

(* It changes nobody else's place or lock, and has in hand and holds what its *)
(* new place asks for.                                                       *)
Moves(c) ==
    /\ task' \in [Callers -> Tasks]
    /\ clientMu' \in Callers \cup {None} /\ cfgMu' \in Callers \cup {None}
    /\ \A d \in Callers \ {c} : task'[d] = task[d]
    /\ \A d \in Callers \ {c} : clientMu' = d <=> clientMu = d
    /\ \A d \in Callers \ {c} : cfgMu' = d <=> cfgMu = d
    /\ TaskOK(task'[c])
    /\ clientMu' = c <=> NeedsClientMu(task'[c])
    /\ cfgMu' = c <=> NeedsCfgMu(task'[c])

LEMMA CallMoves ==
    ASSUME ConfigIInv, NEW c \in Callers, Call(c)
    PROVE  Moves(c)
<1>1. PICK op \in Ops \ {"none", "undo"}, nets \in AllNetworks \cup {None},
           at \in {"client", "cfg", "snapshot", "read"} :
         /\ Begin(c, op, nets, at)
         /\ op = "set" => nets \in AllNetworks /\ at = "client"
         /\ op = "edit" => at = "cfg"
         /\ op = "save" => at = "snapshot"
         /\ op = "reload" => at = "read"
  BY DEF Call, SetClientRouting, EditGroups, SaveConfig, Reload, Ops, AllNetworks
<1> DEFINE new == [Idle EXCEPT !.op = op, !.nets = nets, !.at = at]
<1>2. /\ new \in Tasks /\ new.op = op /\ new.nets = nets /\ new.at = at /\ new.fam = 1
      /\ TaskOK(new) /\ ~NeedsClientMu(new) /\ ~NeedsCfgMu(new)
  BY <1>1, IdleTask
     DEF Idle, Tasks, Ops, Places, Updating, Saving, TaskOK, PlaceOK, NeedsClientMu, NeedsCfgMu
<1>3. /\ task[c] = Idle /\ task' = [task EXCEPT ![c] = new]
      /\ clientMu' = clientMu /\ cfgMu' = cfgMu
  BY <1>1 DEF Begin, locks
<1>4. task \in [Callers -> Tasks] /\ clientMu # c /\ cfgMu # c
      /\ clientMu \in Callers \cup {None} /\ cfgMu \in Callers \cup {None}
  BY <1>3, IdleTask DEF ConfigIInv, ConfigTypes, LocksOK
<1> HIDE DEF new
<1> QED BY <1>2, <1>3, <1>4 DEF Moves

(* Who gives back what he holds disturbs nobody else. *)
LEMMA Releasing ==
    ASSUME clientMu \in Callers \cup {None}, cfgMu \in Callers \cup {None},
           NEW c \in Callers, Release(c)
    PROVE  /\ clientMu' \in (Callers \cup {None}) \ {c} /\ cfgMu' \in (Callers \cup {None}) \ {c}
           /\ \A d \in Callers \ {c} : clientMu' = d <=> clientMu = d
           /\ \A d \in Callers \ {c} : cfgMu' = d <=> cfgMu = d
BY NetworkAssumption DEF Release

(* The update goes from place to place under both locks. *)
LEMMA UpdateMoves ==
    ASSUME ConfigIInv, NEW c \in Callers, task[c].at \in Updating,
           NEW at \in Updating \cup {"import", "fail"}, NEW i \in 1 .. NumFamilies, GoTo(c, at, i), UNCHANGED locks,
           at \in {"drop", "clear", "import", "fail"} => i = 1,
           at = "import" => task[c].op = "reload"
    PROVE  Moves(c)
<1>1. /\ task \in [Callers -> Tasks] /\ TaskOK(task[c]) /\ clientMu' = clientMu /\ cfgMu' = cfgMu
      /\ clientMu \in Callers \cup {None} /\ cfgMu \in Callers \cup {None}
      /\ clientMu = c <=> NeedsClientMu(task[c])
      /\ cfgMu = c <=> NeedsCfgMu(task[c])
  BY DEF ConfigIInv, ConfigTypes, LocksOK, TasksOK, locks
<1>2. /\ at \in Places /\ task[c].op \in {"set", "undo", "reload"}
  BY <1>1 DEF Places, Updating, TaskOK, PlaceOK, Tasks, Ops, Saving, Idle
<1>3. /\ task' \in [Callers -> Tasks]
      /\ \A d \in Callers \ {c} : task'[d] = task[d]
      /\ task'[c].op = task[c].op /\ task'[c].at = at /\ task'[c].fam = i
      /\ task'[c].nets = task[c].nets /\ task'[c].old = task[c].old /\ task'[c].snap = task[c].snap
  BY <1>1, <1>2, GoingTo
<1>4. TaskOK(task'[c])
  BY <1>1, <1>2, <1>3 DEF Updating, TaskOK, PlaceOK, Saving, Idle
<1>5. NeedsClientMu(task'[c]) /\ NeedsClientMu(task[c]) /\ NeedsCfgMu(task'[c]) /\ NeedsCfgMu(task[c])
  BY <1>2, <1>3 DEF NeedsClientMu, NeedsCfgMu, Updating
<1> QED BY <1>1, <1>3, <1>4, <1>5 DEF Moves

LEMMA StepMoves ==
    ASSUME ConfigIInv, NEW c \in Callers, Step(c)
    PROVE  Moves(c)
<1>1. /\ task \in [Callers -> Tasks] /\ TaskOK(task[c]) /\ task[c] \in Tasks
      /\ clientMu \in Callers \cup {None} /\ cfgMu \in Callers \cup {None}
      /\ clientMu = c <=> NeedsClientMu(task[c])
      /\ cfgMu = c <=> NeedsCfgMu(task[c])
      /\ c # None /\ 1 \in 1 .. NumFamilies
  BY NetworkAssumption, FamiliesAreListed DEF ConfigIInv, ConfigTypes, LocksOK, TasksOK
<1>2. CASE ReadFile(c)
  <2>1. CASE Returns(c)
    BY <1>1, <1>2, <2>1, Returning, IdleTask
       DEF Moves, ReadFile, At, locks, NeedsClientMu, NeedsCfgMu, Updating
  <2>2. CASE task' = [task EXCEPT ![c] = [@ EXCEPT !.at = "client", !.snap = file, !.nets = file.nets]]
             /\ file \notin Unreadable
    <3>1. file \in Configs /\ task[c].at = "read" /\ clientMu' = clientMu /\ cfgMu' = cfgMu
      BY <1>2, <2>2 DEF ReadFile, At, locks, ConfigIInv, ConfigTypes
    <3> DEFINE new == [task[c] EXCEPT !.at = "client", !.snap = file, !.nets = file.nets]
    <3>2. /\ new \in Tasks /\ new.at = "client" /\ new.snap = file /\ new.nets \in AllNetworks
          /\ new.op = task[c].op /\ new.fam = task[c].fam
      BY <1>1, <3>1 DEF Tasks, Configs, Places
    <3>3. task' = [task EXCEPT ![c] = new]
      BY <2>2
    <3> HIDE DEF new
    <3>4. TaskOK(new) /\ ~NeedsClientMu(new) /\ ~NeedsCfgMu(new)
      BY <1>1, <3>1, <3>2 DEF TaskOK, PlaceOK, Updating, Saving, NeedsClientMu, NeedsCfgMu, Tasks, Ops, Idle
    <3>5. clientMu # c /\ cfgMu # c
      BY <1>1, <3>1 DEF NeedsClientMu, NeedsCfgMu, Updating
    <3> QED BY <1>1, <3>1, <3>2, <3>3, <3>4, <3>5 DEF Moves
  <2> QED BY <1>2, <2>1, <2>2 DEF ReadFile
<1>3. CASE TakeClientMu(c)
  <2>1. /\ task[c].at = "client" /\ clientMu = None /\ clientMu' = c /\ cfgMu' = cfgMu /\ GoTo(c, "cfg", 1)
    BY <1>3 DEF TakeClientMu, At
  <2>2. /\ task' \in [Callers -> Tasks] /\ \A d \in Callers \ {c} : task'[d] = task[d]
        /\ task'[c].op = task[c].op /\ task'[c].at = "cfg" /\ task'[c].fam = 1
        /\ task'[c].nets = task[c].nets /\ task'[c].old = task[c].old /\ task'[c].snap = task[c].snap
    BY <1>1, <2>1, GoingTo DEF Places
  <2>3. TaskOK(task'[c]) /\ NeedsClientMu(task'[c]) /\ ~NeedsCfgMu(task'[c]) /\ ~NeedsCfgMu(task[c])
    BY <1>1, <2>1, <2>2 DEF TaskOK, PlaceOK, Updating, Saving, NeedsClientMu, NeedsCfgMu, Tasks, Ops, Idle
  <2>4. \A d \in Callers : d # None
    BY NetworkAssumption
  <2> QED BY <1>1, <2>1, <2>2, <2>3, <2>4 DEF Moves
<1>4. CASE TakeCfgMu(c)
  <2> DEFINE at == IF task[c].op = "edit" THEN "edit" ELSE IF ready THEN "fill" ELSE "fail"
             old == IF task[c].op = "set" THEN memory.nets ELSE task[c].old
             new == [[task[c] EXCEPT !.at = at] EXCEPT !.old = old]
  <2>1. /\ task[c].at = "cfg" /\ cfgMu = None /\ cfgMu' = c /\ clientMu' = clientMu
        /\ task' = [task EXCEPT ![c] = new]
    BY <1>1, <1>4 DEF TakeCfgMu, At
  <2>2. at \in {"edit", "fill", "fail"} /\ (at = "edit" <=> task[c].op = "edit")
        /\ old \in AllNetworks \cup {None} /\ (task[c].op = "set" => old \in AllNetworks)
    BY <1>1 DEF ConfigIInv, ConfigTypes, Configs, Tasks
  <2> HIDE DEF at, old
  <2>3. /\ new \in Tasks /\ new.at = at /\ new.old = old
        /\ new.op = task[c].op /\ new.fam = task[c].fam /\ new.nets = task[c].nets /\ new.snap = task[c].snap
    BY <1>1, <2>2 DEF Tasks, Places, Updating
  <2> HIDE DEF new
  <2>4. TaskOK(new) /\ NeedsCfgMu(new) /\ (NeedsClientMu(new) <=> NeedsClientMu(task[c]))
    BY <1>1, <2>1, <2>2, <2>3 DEF TaskOK, PlaceOK, Updating, Saving, NeedsClientMu, NeedsCfgMu, Tasks, Ops,
       Idle
  <2>5. \A d \in Callers : d # None
    BY NetworkAssumption
  <2> QED BY <1>1, <2>1, <2>3, <2>4, <2>5 DEF Moves
<1>5. CASE Edit(c)
  <2>1. /\ task[c].at = "edit" /\ Release(c) /\ GoTo(c, "snapshot", 1)
    BY <1>5 DEF Edit, At
  <2>2. /\ task' \in [Callers -> Tasks] /\ \A d \in Callers \ {c} : task'[d] = task[d]
        /\ task'[c].op = task[c].op /\ task'[c].at = "snapshot" /\ task'[c].fam = 1
        /\ task'[c].nets = task[c].nets /\ task'[c].old = task[c].old /\ task'[c].snap = task[c].snap
    BY <1>1, <2>1, GoingTo DEF Places, Saving
  <2>3. TaskOK(task'[c]) /\ ~NeedsClientMu(task'[c]) /\ ~NeedsCfgMu(task'[c])
    BY <1>1, <2>1, <2>2 DEF TaskOK, PlaceOK, Updating, Saving, NeedsClientMu, NeedsCfgMu, Tasks, Ops, Idle
  <2> QED BY <1>1, <2>1, <2>2, <2>3, Releasing DEF Moves
<1>6. CASE Fill(c)
  <2>1. PICK at \in Updating \cup {"fail"}, i \in 1 .. NumFamilies :
         GoTo(c, at, i) /\ (at \in {"drop", "clear", "fail"} => i = 1)
    BY <1>1, <1>6, GoingOn DEF Fill, Updating
  <2> QED BY <1>6, <2>1, UpdateMoves DEF Fill, At, Updating
<1>7. CASE Swap(c)
  <2>1. PICK at \in Updating \cup {"fail"}, i \in 1 .. NumFamilies :
         GoTo(c, at, i) /\ (at \in {"drop", "clear", "fail"} => i = 1)
    <3>1. task[c].fam \in 1 .. NumFamilies /\ NumFamilies \in Nat
      BY <1>1, FamiliesAreListed DEF Tasks
    <3>2. task[c].fam > 1 => task[c].fam - 1 \in 1 .. NumFamilies
      BY <3>1
    <3> QED BY <1>1, <1>7, <3>2, GoingOn DEF Swap, Updating
  <2> QED BY <1>7, <2>1, UpdateMoves DEF Swap, At, Updating
<1>8. CASE Unswap(c)
  <2>1. PICK at \in Updating \cup {"fail"}, i \in 1 .. NumFamilies :
         GoTo(c, at, i) /\ (at \in {"drop", "clear", "fail"} => i = 1)
    <3>1. task[c].fam \in 1 .. NumFamilies /\ NumFamilies \in Nat
      BY <1>1, FamiliesAreListed DEF Tasks
    <3>2. task[c].fam > 1 => task[c].fam - 1 \in 1 .. NumFamilies
      BY <3>1
    <3> QED BY <1>1, <1>8, <3>2 DEF Unswap, Updating
  <2> QED BY <1>8, <2>1, UpdateMoves DEF Unswap, At, Updating
<1>9. CASE DropShadows(c)
  BY <1>1, <1>9, UpdateMoves DEF DropShadows, At, Updating
<1>10. CASE Updated(c)
  <2>1. task[c].at = "clear" /\ task[c].op \in {"set", "undo", "reload"}
    BY <1>1, <1>10 DEF Updated, At, TaskOK, PlaceOK, Updating, Saving, Tasks, Ops, Idle
  <2>2. CASE task[c].op = "set"
    <3>1. cfgMu' = None /\ clientMu' = clientMu /\ GoTo(c, "snapshot", 1)
      BY <1>10, <2>2 DEF Updated
    <3>2. /\ task' \in [Callers -> Tasks] /\ \A d \in Callers \ {c} : task'[d] = task[d]
          /\ task'[c].op = task[c].op /\ task'[c].at = "snapshot" /\ task'[c].fam = 1
          /\ task'[c].nets = task[c].nets /\ task'[c].old = task[c].old /\ task'[c].snap = task[c].snap
      BY <1>1, <3>1, GoingTo DEF Places, Saving
    <3>3. TaskOK(task'[c]) /\ NeedsClientMu(task'[c]) /\ NeedsClientMu(task[c])
          /\ ~NeedsCfgMu(task'[c]) /\ NeedsCfgMu(task[c])
      BY <1>1, <2>1, <2>2, <3>2 DEF TaskOK, PlaceOK, Updating, Saving, NeedsClientMu, NeedsCfgMu, Idle
    <3>4. \A d \in Callers : d # None
      BY NetworkAssumption
    <3> QED BY <1>1, <3>1, <3>2, <3>3, <3>4 DEF Moves
  <2>3. CASE task[c].op = "reload"
    <3>1. UNCHANGED locks /\ GoTo(c, "import", 1)
      BY <1>10, <2>3 DEF Updated
    <3> QED BY <1>1, <2>1, <2>3, <3>1, UpdateMoves DEF Updating
  <2>4. CASE task[c].op = "undo"
    <3>1. Release(c) /\ Returns(c)
      BY <1>10, <2>4 DEF Updated
    <3> QED BY <1>1, <3>1, Returning, Releasing, IdleTask DEF Moves
  <2> QED BY <2>1, <2>2, <2>3, <2>4
<1>11. CASE Import(c) \/ UpdateFails(c)
  BY <1>1, <1>11, Returning, Releasing, IdleTask DEF Import, UpdateFails, Moves
<1>12. CASE Snapshot(c)
  <2> DEFINE new == [[task[c] EXCEPT !.at = "open"] EXCEPT !.snap = memory]
  <2>1. /\ task[c].at = "snapshot" /\ cfgMu' = cfgMu /\ clientMu' = clientMu
        /\ task' = [task EXCEPT ![c] = new] /\ memory \in Configs
    BY <1>1, <1>12 DEF Snapshot, At, locks, ConfigIInv, ConfigTypes
  <2>2. /\ new \in Tasks /\ new.at = "open" /\ new.snap = memory
        /\ new.op = task[c].op /\ new.fam = task[c].fam /\ new.nets = task[c].nets /\ new.old = task[c].old
    BY <1>1, <2>1 DEF Tasks, Places, Saving
  <2> HIDE DEF new
  <2>3. /\ TaskOK(new) /\ (NeedsCfgMu(new) <=> NeedsCfgMu(task[c]))
        /\ (NeedsClientMu(new) <=> NeedsClientMu(task[c]))
    BY <1>1, <2>1, <2>2 DEF TaskOK, PlaceOK, Updating, Saving, NeedsClientMu, NeedsCfgMu, Tasks, Ops, Idle
  <2> QED BY <1>1, <2>1, <2>2, <2>3 DEF Moves
<1>13. ASSUME task[c].at \in {"open", "write"}, SaveFails(c) PROVE Moves(c)
  <2>1. CASE task[c].op = "set"
    <3> DEFINE new == [task[c] EXCEPT !.op = "undo", !.at = "cfg", !.nets = task[c].old]
    <3>1. /\ cfgMu' = cfgMu /\ clientMu' = clientMu /\ task' = [task EXCEPT ![c] = new]
      BY <1>1, <1>13, <2>1 DEF SaveFails, locks
    <3>2. /\ new \in Tasks /\ new.op = "undo" /\ new.at = "cfg" /\ new.fam = task[c].fam
          /\ new.nets = task[c].old /\ task[c].old \in AllNetworks
      BY <1>1, <1>13, <2>1 DEF Tasks, Places, Ops, TaskOK
    <3> HIDE DEF new
    <3>3. /\ TaskOK(new) /\ NeedsClientMu(new) /\ NeedsClientMu(task[c])
          /\ ~NeedsCfgMu(new) /\ ~NeedsCfgMu(task[c])
      BY <1>1, <1>13, <2>1, <3>2 DEF TaskOK, PlaceOK, Updating, Saving, NeedsClientMu, NeedsCfgMu
    <3> QED BY <1>1, <3>1, <3>2, <3>3 DEF Moves
  <2>2. CASE task[c].op # "set"
    <3>1. cfgMu' = cfgMu /\ clientMu' = clientMu /\ Returns(c)
      BY <1>13, <2>2 DEF SaveFails, locks
    <3>2. ~NeedsClientMu(task[c]) /\ ~NeedsCfgMu(task[c])
      BY <1>1, <1>13, <2>2 DEF TaskOK, PlaceOK, Updating, Saving, NeedsClientMu, NeedsCfgMu
    <3> QED BY <1>1, <3>1, <3>2, Returning, IdleTask DEF Moves
  <2> QED BY <2>1, <2>2
<1>14. CASE Open(c)
  <2>1. CASE GoTo(c, "write", 1) /\ UNCHANGED <<locks, accepted>>
    <3>1. task[c].at = "open" /\ clientMu' = clientMu /\ cfgMu' = cfgMu
      BY <1>14, <2>1 DEF Open, At, locks
    <3>2. /\ task' \in [Callers -> Tasks] /\ \A d \in Callers \ {c} : task'[d] = task[d]
          /\ task'[c].op = task[c].op /\ task'[c].at = "write" /\ task'[c].fam = 1
          /\ task'[c].nets = task[c].nets /\ task'[c].old = task[c].old /\ task'[c].snap = task[c].snap
      BY <1>1, <2>1, GoingTo DEF Places, Saving
    <3>3. TaskOK(task'[c]) /\ (NeedsClientMu(task'[c]) <=> NeedsClientMu(task[c]))
          /\ ~NeedsCfgMu(task'[c]) /\ ~NeedsCfgMu(task[c])
      BY <1>1, <3>1, <3>2 DEF TaskOK, PlaceOK, Updating, Saving, NeedsClientMu, NeedsCfgMu, Tasks, Ops, Idle
    <3> QED BY <1>1, <3>1, <3>2, <3>3 DEF Moves
  <2> QED BY <1>13, <1>14, <2>1 DEF Open, At
<1>15. CASE Write(c)
  <2>1. CASE Release(c) /\ Returns(c)
    BY <1>1, <2>1, Returning, Releasing, IdleTask DEF Moves
  <2> QED BY <1>13, <1>15, <2>1 DEF Write, At
<1> QED BY <1>2, <1>3, <1>4, <1>5, <1>6, <1>7, <1>8, <1>9, <1>10, <1>11, <1>12, <1>14, <1>15 DEF Step

LEMMA Spending ==
    ASSUME budget \in Budgets, budget["faults"] <= MaxFaults,
           NEW what \in {"calls", "faults", "crashes", "stops"}, Spend(what)
    PROVE  /\ budget' \in Budgets /\ budget'["faults"] <= MaxFaults
           /\ budget[what] > 0 /\ budget'[what] = budget[what] - 1
           /\ \A other \in {"calls", "faults", "crashes", "stops"} \ {what} : budget'[other] = budget[other]
BY BoundAssumption DEF Spend, Budgets

LEMMA BudgetInit ==
    ASSUME budget = [calls |-> MaxCalls, faults |-> MaxFaults, crashes |-> MaxCrashes, stops |-> MaxStops]
    PROVE  /\ budget \in Budgets /\ budget["faults"] = MaxFaults /\ budget["calls"] = MaxCalls
           /\ budget.faults = budget["faults"]
BY BoundAssumption DEF Budgets

--------------------------------------------------------------------------------
(* What a step does to the sets. *)

SetTypes == sets \in [FamilySet -> [active : SetValues, shadow : SetValues]]

LEMMA Exchanging ==
    ASSUME SetTypes, NEW f \in FamilySet, Exchange(f)
    PROVE  /\ SetTypes'
           /\ sets'[f].active = sets[f].shadow /\ sets'[f].shadow = sets[f].active
           /\ \A g \in FamilySet \ {f} : sets'[g] = sets[g]
<1>1. sets[f] \in [active : SetValues, shadow : SetValues]
  BY DEF SetTypes
<1>2. [active |-> sets[f].shadow, shadow |-> sets[f].active] \in [active : SetValues, shadow : SetValues]
  BY <1>1
<1> QED BY <1>1, <1>2 DEF SetTypes, Exchange

LEMMA Dropping ==
    ASSUME SetTypes, sets' = NoShadows
    PROVE  /\ SetTypes'
           /\ \A f \in FamilySet : sets'[f].active = sets[f].active
<1>1. \A f \in FamilySet : /\ [sets[f] EXCEPT !.shadow = None] \in [active : SetValues, shadow : SetValues]
                           /\ [sets[f] EXCEPT !.shadow = None].active = sets[f].active
  BY DEF SetTypes, SetValues
<1> QED BY <1>1 DEF SetTypes, NoShadows

LEMMA Filling ==
    ASSUME SetTypes, NEW f \in FamilySet, NEW nets \in AllNetworks,
           sets' = [sets EXCEPT ![f].shadow = Filled(nets)]
    PROVE  /\ SetTypes'
           /\ sets'[f].active = sets[f].active /\ sets'[f].shadow = Filled(nets)
           /\ \A g \in FamilySet \ {f} : sets'[g] = sets[g]
<1>1. Filled(nets) \in SetValues
  BY DEF SetValues, FullSets
<1> HIDE DEF SetValues
<1>2. /\ [sets[f] EXCEPT !.shadow = Filled(nets)] \in [active : SetValues, shadow : SetValues]
      /\ [sets[f] EXCEPT !.shadow = Filled(nets)].active = sets[f].active
      /\ [sets[f] EXCEPT !.shadow = Filled(nets)].shadow = Filled(nets)
  BY <1>1 DEF SetTypes
<1> QED BY <1>1, <1>2 DEF SetTypes

(* The family a call is at. *)
LEMMA FamilyOfCall ==
    ASSUME task \in [Callers -> Tasks], NEW c \in Callers
    PROVE  /\ task[c].fam \in 1 .. NumFamilies /\ Fam(c) = Families[task[c].fam] /\ Fam(c) \in FamilySet
           /\ NumFamilies \in Nat
BY FamiliesAreListed DEF Fam, Tasks

(* Whoever updates has what to fill the sets with. *)
LEMMA Updaters ==
    ASSUME ConfigIInv, NEW c \in Callers, task[c].at \in Updating
    PROVE  /\ task[c].op \in {"set", "undo", "reload"} /\ task[c].nets \in AllNetworks
           /\ clientMu = c /\ cfgMu = c /\ phase = "run"
           /\ task[c].op = "reload" => task[c].snap \in Configs
           /\ task[c].op = "set" => task[c].old \in AllNetworks
BY DEF ConfigIInv, TasksOK, LocksOK, PhaseOK, TaskOK, PlaceOK, NeedsClientMu, NeedsCfgMu, Updating, Saving,
       ConfigTypes, Tasks, Ops, Idle

--------------------------------------------------------------------------------
(* Types *)

DataTypes ==
    /\ memory \in Configs
    /\ file \in Configs \cup Unreadable
    /\ SetTypes
    /\ accepted \in AllNetworks
    /\ budget \in Budgets /\ budget["faults"] <= MaxFaults

LEMMA CallKeepsTypes ==
    ASSUME ConfigIInv, NEW c \in Callers, Call(c)
    PROVE  /\ DataTypes' /\ UNCHANGED <<memory, file, sets, ready, phase, clientMu, cfgMu, accepted>>
           /\ budget'["calls"] = budget["calls"] - 1 /\ budget["calls"] > 0
           /\ budget'["faults"] = budget["faults"]
<1>1. /\ UNCHANGED <<memory, file, sets, ready, phase, clientMu, cfgMu, accepted>>
      /\ Spend("calls")
  BY DEF Call, SetClientRouting, EditGroups, SaveConfig, Reload, Begin, locks
<1> QED BY <1>1, Spending DEF ConfigIInv, ConfigTypes, DataTypes, SetTypes

LEMMA BudgetOfStep ==
    ASSUME budget \in Budgets, budget["faults"] <= MaxFaults, NoFault \/ Fault
    PROVE  /\ budget' \in Budgets /\ budget'["faults"] <= budget["faults"] /\ budget'["faults"] <= MaxFaults
           /\ budget'["calls"] = budget["calls"]
BY Spending, BoundAssumption DEF NoFault, Fault, Budgets

LEMMA StepKeepsTypes ==
    ASSUME ConfigIInv, NEW c \in Callers, Step(c)
    PROVE  /\ DataTypes' /\ UNCHANGED <<ready, phase>>
           /\ budget'["calls"] = budget["calls"] /\ budget'["faults"] <= budget["faults"]
<1>1. DataTypes /\ task \in [Callers -> Tasks] /\ task[c] \in Tasks /\ budget["faults"] <= budget["faults"]
  BY DEF ConfigIInv, ConfigTypes, DataTypes, SetTypes, Budgets
<1>2. UNCHANGED <<ready, phase>> /\ (NoFault \/ Fault)
  BY DEF Step, ReadFile, TakeClientMu, TakeCfgMu, Edit, Fill, Swap, Unswap, DropShadows, Updated, Import, UpdateFails,
         Snapshot, Open, Write, ShadowsGo, NoFault
<1>3. /\ budget' \in Budgets /\ budget'["faults"] <= budget["faults"] /\ budget'["faults"] <= MaxFaults
      /\ budget'["calls"] = budget["calls"]
  BY <1>1, <1>2, BudgetOfStep DEF DataTypes
<1>4. CASE ReadFile(c) \/ TakeClientMu(c) \/ TakeCfgMu(c) \/ Snapshot(c)
  BY <1>1, <1>2, <1>3, <1>4 DEF ReadFile, TakeClientMu, TakeCfgMu, Snapshot, DataTypes, SetTypes
<1>5. CASE Edit(c)
  BY <1>1, <1>2, <1>3, <1>5 DEF Edit, DataTypes, SetTypes, Configs
<1>6. CASE Fill(c)
  <2>1. task[c].nets \in AllNetworks
    BY <1>6, Updaters DEF Fill, At, Updating
  <2>2. SetTypes'
    <3>1. CASE sets' = [sets EXCEPT ![Fam(c)].shadow = Filled(task[c].nets)]
      BY <1>1, <2>1, <3>1, Filling, FamilyOfCall DEF DataTypes
    <3>2. CASE sets' = NoShadows
      BY <1>1, <3>2, Dropping DEF DataTypes
    <3>3. CASE UNCHANGED sets
      BY <1>1, <3>3 DEF DataTypes, SetTypes
    <3> QED BY <1>6, <3>1, <3>2, <3>3 DEF Fill
  <2> QED BY <1>1, <1>2, <1>3, <1>6, <2>2 DEF Fill, DataTypes
<1>7. ASSUME Exchange(Fam(c)) \/ sets' = NoShadows \/ UNCHANGED sets PROVE SetTypes'
  <2>1. CASE Exchange(Fam(c))
    BY <1>1, <2>1, Exchanging, FamilyOfCall DEF DataTypes
  <2>2. CASE sets' = NoShadows
    BY <1>1, <2>2, Dropping DEF DataTypes
  <2>3. CASE UNCHANGED sets
    BY <1>1, <2>3 DEF DataTypes, SetTypes
  <2> QED BY <1>7, <2>1, <2>2, <2>3
<1>8. CASE Swap(c) \/ Unswap(c) \/ DropShadows(c)
  <2>1. SetTypes'
    BY <1>7, <1>8 DEF Swap, Unswap, DropShadows, ShadowsGo
  <2> QED BY <1>1, <1>2, <1>3, <1>8, <2>1 DEF Swap, Unswap, DropShadows, DataTypes
<1>9. CASE Updated(c)
  <2>1. SetTypes'
    BY <1>7, <1>9 DEF Updated, ShadowsGo
  <2>2. task[c].nets \in AllNetworks /\ (task[c].op = "reload" => task[c].snap \in Configs)
    BY <1>9, Updaters DEF Updated, At, Updating
  <2>3. memory' \in Configs /\ accepted' \in AllNetworks
    BY <1>1, <1>9, <2>2 DEF Updated, Configs, DataTypes
  <2> QED BY <1>1, <1>2, <1>3, <1>9, <2>1, <2>3 DEF Updated, DataTypes
<1>10. CASE UpdateFails(c)
  <2>1. task[c].op = "undo" => task[c].nets \in AllNetworks
    BY DEF ConfigIInv, TasksOK, TaskOK
  <2>2. memory' \in Configs
    BY <1>1, <1>10, <2>1 DEF UpdateFails, Configs, DataTypes
  <2> QED BY <1>1, <1>2, <1>3, <1>10, <2>2 DEF UpdateFails, DataTypes, SetTypes
<1>11. CASE Open(c)
  BY <1>1, <1>2, <1>3, <1>11 DEF Open, SaveFails, DataTypes, SetTypes, Unreadable
<1>12. CASE Write(c)
  <2>1. /\ task[c].snap \in Configs
        /\ task[c].op = "set" => task[c].nets \in AllNetworks
    BY <1>12 DEF Write, At, ConfigIInv, TasksOK, TaskOK
  <2> QED BY <1>1, <1>2, <1>3, <1>12, <2>1 DEF Write, SaveFails, DataTypes, SetTypes, Unreadable
<1>13. CASE Import(c)
  <2>1. task[c].op = "reload" /\ task[c].snap \in Configs
    BY <1>1, <1>13 DEF Import, At, ConfigIInv, TasksOK, TaskOK, PlaceOK, Tasks, Ops, Updating, Saving, Idle
  <2>2. memory' \in Configs
    BY <1>1, <1>13, <2>1 DEF Import, Configs, DataTypes
  <2> QED BY <1>1, <1>2, <1>3, <1>13, <2>2 DEF Import, DataTypes, SetTypes
<1> QED BY <1>4, <1>5, <1>6, <1>8, <1>9, <1>10, <1>11, <1>12, <1>13 DEF Step

--------------------------------------------------------------------------------
(* The places, the locks and the edits *)

LEMMA PlacesAndLocks ==
    ASSUME ConfigIInv, NEW c \in Callers, Moves(c)
    PROVE  TasksOK' /\ LocksOK'
<1>1. \A d \in Callers : TaskOK(task'[d])
  BY DEF ConfigIInv, TasksOK, Moves
<1>2. \A d \in Callers : /\ clientMu' = d <=> NeedsClientMu(task'[d])
                         /\ cfgMu' = d <=> NeedsCfgMu(task'[d])
  BY DEF ConfigIInv, LocksOK, Moves
<1> QED BY <1>1, <1>2 DEF TasksOK, LocksOK

LEMMA DownIsIdle ==
    ASSUME ConfigIInv, NEW c \in Callers, Step(c)
    PROVE  phase # "down" /\ task[c].at # "idle"
<1>1. task[c].at # "idle"
  BY DEF Step, ReadFile, TakeClientMu, TakeCfgMu, Edit, Fill, Swap, Unswap, DropShadows, Updated, Import, UpdateFails,
         Snapshot, Open, Write, At
<1>2. phase = "down" => task[c].at = "idle"
  BY DEF ConfigIInv, PhaseOK, Nobody, Idle
<1> QED BY <1>1, <1>2

(* Only an update goes on updating, unless the sets are there to begin one. *)
LEMMA StepKeepsPhase ==
    ASSUME ConfigIInv, NEW c \in Callers, Step(c)
    PROVE  PhaseOK'
<1>1. Moves(c) /\ phase' = phase /\ ready = (phase = "run") /\ phase # "down"
  BY StepMoves, StepKeepsTypes, DownIsIdle DEF ConfigIInv, ConfigTypes
<1>2. task'[c].at \in Updating => phase = "run"
  <2>1. CASE task[c].at \in Updating
    BY <2>1 DEF ConfigIInv, PhaseOK
  <2>2. CASE TakeCfgMu(c)
    <3>1. task[c] \in Tasks /\ task \in [Callers -> Tasks]
      BY DEF ConfigIInv, ConfigTypes
    <3>2. task'[c].at = IF task[c].op = "edit" THEN "edit" ELSE IF ready THEN "fill" ELSE "fail"
      BY <2>2, <3>1 DEF TakeCfgMu, Tasks
    <3> QED BY <1>1, <3>2 DEF Updating
  <2>3. CASE task[c].at \notin Updating /\ ~TakeCfgMu(c)
    <3>1. task[c] \in Tasks /\ task \in [Callers -> Tasks] /\ 1 \in 1 .. NumFamilies
      BY FamiliesAreListed DEF ConfigIInv, ConfigTypes
    <3>2. CASE Returns(c)
      BY <3>1, <3>2, Returning DEF Idle, Updating
    <3>3. CASE SaveFails(c)
      BY <3>1, <3>3, SaveFailing DEF Idle, Updating
    <3>4. CASE ReadFile(c) \/ Snapshot(c)
      <4>1. Returns(c) \/ task'[c].at \in {"client", "open"}
        BY <3>1, <3>4, TakesSnapshot
      <4> QED BY <3>2, <4>1 DEF Updating
    <3>5. CASE \E at \in {"cfg", "snapshot", "write"} : GoTo(c, at, 1)
      BY <3>1, <3>5, GoingTo DEF Places, Saving, Updating
    <3>6. \/ ReadFile(c) \/ TakeClientMu(c) \/ Edit(c) \/ Import(c) \/ UpdateFails(c) \/ Snapshot(c) \/ Open(c) \/ Write(c)
      BY <2>3 DEF Step, Fill, Swap, Unswap, DropShadows, Updated, Import, At, Updating
    <3> QED BY <3>2, <3>3, <3>4, <3>5, <3>6 DEF TakeClientMu, Edit, Import, UpdateFails, Open, Write
  <2> QED BY <2>1, <2>2, <2>3
<1> QED BY <1>1, <1>2 DEF ConfigIInv, PhaseOK, Moves

LEMMA PendingMoves ==
    ASSUME ConfigIInv, NEW c \in Callers, Moves(c)
    PROVE  /\ Pending \subseteq Callers /\ Pending' \subseteq Callers
           /\ \A d \in Callers \ {c} : d \in Pending' <=> d \in Pending
BY DEF Moves, Pending

LEMMA CallBegins ==
    ASSUME ConfigIInv, NEW c \in Callers, Call(c)
    PROVE  /\ task[c] = Idle
           /\ task'[c].at \in {"client", "cfg", "snapshot", "read"}
           /\ task'[c].op = "reload" => task'[c].at = "read"
<1>1. PICK op \in Ops, nets \in AllNetworks \cup {None}, at \in {"client", "cfg", "snapshot", "read"} :
         /\ Begin(c, op, nets, at)
         /\ op = "reload" => at = "read"
  BY DEF Call, SetClientRouting, EditGroups, SaveConfig, Reload, Ops, AllNetworks
<1> DEFINE new == [Idle EXCEPT !.op = op, !.nets = nets, !.at = at]
<1>2. new.op = op /\ new.at = at
  BY DEF Idle
<1>3. task[c] = Idle /\ task' = [task EXCEPT ![c] = new] /\ task \in [Callers -> Tasks]
  BY <1>1 DEF Begin, ConfigIInv, ConfigTypes
<1> HIDE DEF new
<1> QED BY <1>1, <1>2, <1>3

LEMMA CallIsAfforded ==
    ASSUME ConfigIInv, NEW c \in Callers, Call(c)
    PROVE  EditsAreCounted'
<1>1. Moves(c)
  BY CallMoves
<1>2. /\ UNCHANGED <<memory, file>> /\ budget'["calls"] = budget["calls"] - 1
      /\ budget["calls"] \in Nat /\ budget["calls"] > 0 /\ MaxCalls \in Nat
  BY CallKeepsTypes, BoundAssumption DEF ConfigIInv, ConfigTypes, Budgets
<1>3. /\ c \notin Pending /\ ~HasSnap(task'[c])
  BY CallBegins DEF Pending, Idle, HasSnap
<1>4. IsFiniteSet(Pending)
  BY DEF ConfigIInv, EditsAreCounted
<1>5. Pending' = Pending \/ Pending' = Pending \cup {c}
  BY <1>1, <1>3, PendingMoves
<1>6. /\ IsFiniteSet(Pending') /\ Cardinality(Pending) \in Nat
      /\ Cardinality(Pending') = Cardinality(Pending) \/ Cardinality(Pending') = Cardinality(Pending) + 1
  BY <1>3, <1>4, <1>5, FS_AddElement, FS_CardinalityType
<1>7. \A config : config.edit \in Nat /\ Affords(config) =>
                      config.edit + Cardinality(Pending') + budget'["calls"] <= MaxCalls
  BY <1>2, <1>6 DEF Affords
<1>8. \A d \in Callers : HasSnap(task'[d]) => 
                             HasSnap(task[d]) /\ task'[d] = task[d] /\ task[d].snap.edit \in Nat
  BY <1>1, <1>3 DEF Moves, ConfigIInv, TasksOK, TaskOK, HasSnap, Configs
<1>9. memory.edit \in Nat /\ file.edit \in Nat
  BY DEF ConfigIInv, ConfigTypes, Configs, Unreadable, Empty, Torn
<1> QED BY <1>2, <1>6, <1>7, <1>8, <1>9 DEF ConfigIInv, EditsAreCounted, Affords

(* A step of a call takes its configuration from the file or from memory, and *)
(* writes no other edit than the one it took.                                *)
LEMMA StepEdits ==
    ASSUME ConfigIInv, NEW c \in Callers, Step(c), ~Edit(c)
    PROVE  /\ Pending' = Pending
           /\ HasSnap(task'[c]) => \/ (HasSnap(task[c]) /\ task'[c].snap = task[c].snap)
                                   \/ task'[c].snap \in {file, memory}
           /\ memory'.edit = memory.edit \/ (HasSnap(task[c]) /\ memory'.edit = task[c].snap.edit)
           /\ file' \in {file, Empty, Torn} \/ (HasSnap(task[c]) /\ file' = task[c].snap)
<1>1. /\ task[c] \in Tasks /\ task \in [Callers -> Tasks] /\ TaskOK(task[c])
      /\ 1 \in 1 .. NumFamilies /\ memory \in Configs
  BY FamiliesAreListed DEF ConfigIInv, ConfigTypes, TasksOK
<1> DEFINE Same == /\ c \in Pending' <=> c \in Pending
                   /\ HasSnap(task'[c]) => \/ (HasSnap(task[c]) /\ task'[c].snap = task[c].snap)
                                           \/ task'[c].snap \in {file, memory}
<1>2. ASSUME NEW at \in Places, NEW i \in 1 .. NumFamilies, GoTo(c, at, i), task[c].at # "read", at # "open",
             at = "write" => task[c].at = "open",
             task[c].op = "edit" => (at \in {"cfg", "edit"} <=> task[c].at \in {"cfg", "edit"})
      PROVE  Same
  BY <1>1, <1>2, GoingTo DEF HasSnap, Pending
<1>3. ASSUME Returns(c), task[c].op = "edit" => task[c].at \notin {"cfg", "edit"}
      PROVE  Same
  BY <1>1, <1>3, Returning DEF HasSnap, Pending, Idle
<1>4. ASSUME task[c].at \in Updating, NEW at \in Updating \cup {"import", "fail", "snapshot"},
             NEW i \in 1 .. NumFamilies, GoTo(c, at, i)
      PROVE  Same
  BY <1>1, <1>2, <1>4, Updaters DEF Updating, Places, Saving
<1>5. ASSUME ReadFile(c) PROVE Same
  <2>1. ASSUME Returns(c) PROVE Same
    BY <1>3, <1>5, <2>1 DEF ReadFile, At
  <2>2. ASSUME ~Returns(c) PROVE Same
    <3>1. task[c].at = "read" /\ task[c].op = "reload"
      BY <1>1, <1>5 DEF ReadFile, At, TaskOK, PlaceOK, Tasks, Ops, Updating, Saving, Idle
    <3>2. task' = [task EXCEPT ![c] = [@ EXCEPT !.at = "client", !.snap = file, !.nets = file.nets]]
      BY <1>5, <2>2 DEF ReadFile
    <3>3. task'[c].op = task[c].op /\ task'[c].at = "client" /\ task'[c].snap = file
      BY <1>1, <3>2 DEF Tasks
    <3> QED BY <3>1, <3>3 DEF Pending
  <2> QED BY <1>5, <2>1, <2>2 DEF ReadFile
<1>6. ASSUME TakeClientMu(c) PROVE Same
  BY <1>1, <1>2, <1>6 DEF TakeClientMu, At, Places, TaskOK, PlaceOK, Saving
<1>7. ASSUME TakeCfgMu(c) PROVE Same
  BY <1>1, <1>7 DEF TakeCfgMu, At, HasSnap, Pending, Tasks
<1>8. ASSUME Fill(c) PROVE Same
  BY <1>1, <1>4, <1>8, GoingOn DEF Fill, At, Updating
<1>9. task[c].fam > 1 => task[c].fam - 1 \in 1 .. NumFamilies
  BY <1>1, FamilyOfCall
<1>10. ASSUME Swap(c) PROVE Same
  BY <1>1, <1>4, <1>9, <1>10, GoingOn DEF Swap, At, Updating
<1>11. ASSUME Unswap(c) PROVE Same
  BY <1>1, <1>4, <1>9, <1>11 DEF Unswap, At, Updating
<1>12. ASSUME DropShadows(c) PROVE Same
  BY <1>1, <1>4, <1>12 DEF DropShadows, At, Updating
<1>13. ASSUME Updated(c) PROVE Same
  <2>1. task[c].at = "clear"
    BY <1>13 DEF Updated, At
  <2> QED BY <1>1, <1>3, <1>4, <1>13, <2>1 DEF Updated, Updating
<1>14. ASSUME Import(c) \/ UpdateFails(c) PROVE Same
  BY <1>3, <1>14 DEF Import, UpdateFails, At
<1>15. ASSUME Snapshot(c) PROVE Same
  BY <1>1, <1>15 DEF Snapshot, At, HasSnap, Pending, Tasks
<1>16. ASSUME SaveFails(c), task[c].at \in {"open", "write"} PROVE Same
  <2>1. ASSUME Returns(c) PROVE Same
    BY <1>3, <1>16, <2>1
  <2>2. ASSUME ~Returns(c) PROVE Same
    <3>1. /\ task[c].op = "set"
          /\ task' = [task EXCEPT ![c] = [@ EXCEPT !.op = "undo", !.at = "cfg", !.nets = task[c].old]]
      BY <1>16, <2>2 DEF SaveFails
    <3>2. task'[c].op = "undo" /\ task'[c].at = "cfg"
      BY <1>1, <3>1 DEF Tasks
    <3> QED BY <3>1, <3>2 DEF Pending, HasSnap
  <2> QED BY <2>1, <2>2
<1>17. ASSUME Open(c) PROVE Same
  BY <1>1, <1>2, <1>16, <1>17 DEF Open, At, Places, Saving
<1>18. ASSUME Write(c) PROVE Same
  BY <1>3, <1>16, <1>18 DEF Write, At
<1>19. Same
  BY <1>5, <1>6, <1>7, <1>8, <1>10, <1>11, <1>12, <1>13, <1>14, <1>15, <1>17, <1>18 DEF Step
<1>20. Pending' = Pending
  BY <1>19, StepMoves, PendingMoves
<1> HIDE DEF Same
<1>21. memory'.edit = memory.edit \/ (HasSnap(task[c]) /\ memory'.edit = task[c].snap.edit)
  <2>1. CASE Updated(c)
    BY <1>1, <2>1 DEF Updated, Configs
  <2>3. CASE Import(c)
    <3>1. HasSnap(task[c])
      BY <1>1, <2>3 DEF Import, At, HasSnap, TaskOK, PlaceOK, Tasks, Ops, Updating, Saving, Idle
    <3> QED BY <1>1, <2>3, <3>1 DEF Import, Configs
  <2>2. CASE UpdateFails(c)
    BY <1>1, <2>2 DEF UpdateFails, Configs
  <2> QED BY <2>1, <2>2, <2>3 DEF Step, ReadFile, TakeClientMu, TakeCfgMu, Fill, Swap, Unswap, DropShadows,
                           Snapshot, Open, Write
<1>22. file' \in {file, Empty, Torn} \/ (HasSnap(task[c]) /\ file' = task[c].snap)
  <2>1. CASE Write(c)
    BY <2>1 DEF Write, At, HasSnap
  <2> QED BY <2>1 DEF Step, ReadFile, TakeClientMu, TakeCfgMu, Fill, Swap, Unswap, DropShadows, Updated,
                      Import, UpdateFails, Snapshot, Open
<1> QED BY <1>19, <1>20, <1>21, <1>22 DEF Same

LEMMA StepIsAfforded ==
    ASSUME ConfigIInv, NEW c \in Callers, Step(c)
    PROVE  EditsAreCounted'
<1>1. Moves(c) /\ budget'["calls"] = budget["calls"] /\ budget["calls"] \in Nat /\ MaxCalls \in Nat
  BY StepMoves, StepKeepsTypes, BoundAssumption DEF ConfigIInv, ConfigTypes, Budgets
<1>2. /\ IsFiniteSet(Pending) /\ Cardinality(Pending) \in Nat
      /\ memory.edit \in Nat /\ file.edit \in Nat /\ Empty.edit = 0 /\ Torn.edit = 0
      /\ Affords(memory) /\ Affords(file)
      /\ \A d \in Callers : HasSnap(task[d]) => Affords(task[d].snap) /\ task[d].snap.edit \in Nat
  BY FS_CardinalityType
     DEF ConfigIInv, ConfigTypes, EditsAreCounted, Configs, Unreadable, Empty, Torn, TasksOK, TaskOK, HasSnap
<1>3. CASE ~Edit(c)
  <2>1. \A config : config.edit + Cardinality(Pending') + budget'["calls"] =
                     config.edit + Cardinality(Pending) + budget["calls"]
    BY <1>1, <1>3, StepEdits
  <2>2. /\ Empty.edit + Cardinality(Pending) + budget["calls"] <= MaxCalls
        /\ Torn.edit + Cardinality(Pending) + budget["calls"] <= MaxCalls
    BY <1>1, <1>2 DEF Affords
  <2>3. memory'.edit + Cardinality(Pending) + budget["calls"] <= MaxCalls
    BY <1>2, <1>3, StepEdits DEF Affords
  <2>4. file'.edit + Cardinality(Pending) + budget["calls"] <= MaxCalls
    BY <1>2, <1>3, <2>2, StepEdits DEF Affords
  <2>5. \A d \in Callers : HasSnap(task'[d]) =>
                             task'[d].snap.edit + Cardinality(Pending) + budget["calls"] <= MaxCalls
    BY <1>1, <1>2, <1>3, StepEdits DEF Affords, Moves
  <2> QED BY <1>2, <1>3, <2>1, <2>3, <2>4, <2>5, StepEdits DEF EditsAreCounted, Affords
<1>4. CASE Edit(c)
  <2>1. /\ memory'.edit = memory.edit + 1 /\ file' = file
        /\ task'[c].at = "snapshot" /\ task'[c].op = task[c].op /\ task[c].op = "edit" /\ task[c].at = "edit"
    <3>1. /\ task \in [Callers -> Tasks] /\ 1 \in 1 .. NumFamilies /\ memory \in Configs /\ TaskOK(task[c])
          /\ task[c] \in Tasks
      BY FamiliesAreListed DEF ConfigIInv, ConfigTypes, TasksOK
    <3> QED BY <1>4, <3>1, GoingTo DEF Edit, At, Places, Saving, Configs, TaskOK, PlaceOK, Updating,
                                           Tasks, Ops, Idle
  <2>2. c \in Pending /\ c \notin Pending' /\ ~HasSnap(task'[c])
    BY <2>1 DEF Pending, HasSnap
  <2>3. Pending' = Pending \ {c}
    BY <1>1, <2>2, PendingMoves
  <2>4. /\ IsFiniteSet(Pending') /\ Cardinality(Pending') = Cardinality(Pending) - 1
        /\ Cardinality(Pending') \in Nat
    BY <1>2, <2>2, <2>3, FS_RemoveElement, FS_CardinalityType
  <2>5. \A d \in Callers : HasSnap(task'[d]) => HasSnap(task[d]) /\ task'[d].snap = task[d].snap
    BY <1>1, <2>2 DEF Moves
  <2> HIDE DEF HasSnap
  <2>6. Affords(memory)' /\ Affords(file)'
    BY <1>1, <1>2, <2>1, <2>4 DEF Affords
  <2>7. \A d \in Callers : HasSnap(task'[d]) =>
                             task'[d].snap.edit + Cardinality(Pending') + budget'["calls"] <= MaxCalls
    BY <1>1, <1>2, <2>4, <2>5 DEF Affords
  <2> QED BY <2>4, <2>6, <2>7 DEF EditsAreCounted, Affords
<1> QED BY <1>3, <1>4

--------------------------------------------------------------------------------
(* The sets are whole *)

(* The family an update is at, by its place in the order. *)
LEMMA OneFamily ==
    ASSUME task \in [Callers -> Tasks], NEW c \in Callers
    PROVE  \A j \in 1 .. NumFamilies : /\ Families[j] \in FamilySet
                                       /\ j # task[c].fam => Families[j] \in FamilySet \ {Fam(c)}
                                       /\ j = task[c].fam => Families[j] = Fam(c)
BY FamilyOfCall, FamiliesAreListed

LEMMA OthersLeaveSets ==
    ASSUME NEW c \in Callers, Step(c), task[c].at \notin Updating
    PROVE  sets' = sets
BY DEF Step, ReadFile, TakeClientMu, TakeCfgMu, Edit, Fill, Swap, Unswap, DropShadows, Updated, Import, UpdateFails,
       Snapshot, Open, Write, At, Updating

(* Only who is about to update, or updates already, is found updating. *)
LEMMA BeginsToFill ==
    ASSUME ConfigIInv, NEW c \in Callers, Step(c), task[c].at \notin Updating
    PROVE  task'[c].at \notin Updating \/ (task'[c].at = "fill" /\ task'[c].fam = 1 /\ TakeCfgMu(c))
<1>1. task[c] \in Tasks /\ task \in [Callers -> Tasks] /\ 1 \in 1 .. NumFamilies /\ TaskOK(task[c])
  BY FamiliesAreListed DEF ConfigIInv, ConfigTypes, TasksOK
<1>2. CASE TakeCfgMu(c)
  <2>1. /\ task'[c].at \in {"edit", "fill", "fail"} /\ task'[c].fam = task[c].fam /\ task[c].at = "cfg"
    BY <1>1, <1>2 DEF TakeCfgMu, At, Tasks
  <2> QED BY <1>1, <1>2, <2>1 DEF TaskOK, Updating
<1>3. CASE ~TakeCfgMu(c)
  <2>2. CASE Returns(c)
    BY <1>1, <2>2, Returning DEF Idle, Updating
  <2>3. CASE SaveFails(c)
    BY <1>1, <2>3, SaveFailing DEF Idle, Updating
  <2>4. CASE ReadFile(c) \/ Snapshot(c)
    BY <1>1, <2>2, <2>4, TakesSnapshot DEF Updating
  <2>5. CASE \E at \in {"cfg", "snapshot", "write"} : GoTo(c, at, 1)
    BY <1>1, <2>5, GoingTo DEF Places, Saving, Updating
  <2>6. \/ ReadFile(c) \/ TakeClientMu(c) \/ Edit(c) \/ Import(c) \/ UpdateFails(c) \/ Snapshot(c) \/ Open(c) \/ Write(c)
    BY <1>3 DEF Step, Fill, Swap, Unswap, DropShadows, Updated, Import, At, Updating
  <2> QED BY <2>2, <2>3, <2>4, <2>5, <2>6 DEF TakeClientMu, Edit, Import, UpdateFails, Open, Write
<1> QED BY <1>2, <1>3

(* Every step of an update leaves each family with a whole set, and the sets *)
(* as the place it comes to expects them.                                    *)
LEMMA UpdateKeepsSets ==
    ASSUME ConfigIInv, NEW c \in Callers, Step(c), task[c].at \in Updating
    PROVE  (\A i \in 1 .. NumFamilies : sets'[Families[i]].active \in FullSets) /\ UpdateOK(c)'
<1> DEFINE t == task[c]
           Fams == 1 .. NumFamilies
           Act(i) == sets[Families[i]].active
           Sha(i) == sets[Families[i]].shadow
<1>1. /\ task \in [Callers -> Tasks] /\ task[c] \in Tasks /\ TaskOK(task[c]) /\ UpdateOK(c) /\ SetTypes
      /\ phase = "run" /\ \A i \in Fams : Act(i) \in FullSets
  BY Updaters, FamiliesAreListed
     DEF ConfigIInv, ConfigTypes, TasksOK, UpdatesOK, SetsAreWhole, SetTypes
<1>2. /\ NumFamilies \in Nat /\ t.fam \in Fams /\ 1 \in Fams
      /\ t.nets \in AllNetworks /\ Filled(t.nets) \in FullSets
      /\ Fam(c) \in FamilySet
      /\ \A j \in Fams : /\ Families[j] \in FamilySet
                         /\ j # t.fam => Families[j] \in FamilySet \ {Fam(c)}
                         /\ j = t.fam => Families[j] = Fam(c)
  BY <1>1, FamilyOfCall, OneFamily, Updaters, FamiliesAreListed DEF FullSets
<1>3. ASSUME NEW at \in Updating \cup {"import", "fail", "snapshot"}, NEW i \in Fams, GoTo(c, at, i)
      PROVE  task'[c].at = at /\ task'[c].fam = i /\ task'[c].nets = t.nets
  <2>1. at \in Places
    BY DEF Places, Saving
  <2> QED BY <1>1, <1>3, <2>1, GoingTo
<1>4. ASSUME Exchange(Fam(c))
      PROVE  \A j \in Fams : IF j = t.fam THEN Act(j)' = Sha(j) /\ Sha(j)' = Act(j)
                             ELSE Act(j)' = Act(j) /\ Sha(j)' = Sha(j)
  BY <1>1, <1>2, <1>4, Exchanging
<1>5. ASSUME sets' = NoShadows \/ UNCHANGED sets
      PROVE  \A j \in Fams : Act(j)' = Act(j)
  BY <1>1, <1>2, <1>5, Dropping
<1>6. ASSUME \A j \in Fams : Act(j)' = Act(j), task'[c].at \notin {"fill", "swap", "unswap", "clear"}
      PROVE  (\A i \in Fams : Act(i)' \in FullSets) /\ UpdateOK(c)'
  BY <1>1, <1>6 DEF UpdateOK
<1>7. CASE Fill(c)
  <2>1. t.at = "fill"
    BY <1>7 DEF Fill, At
  <2>2. CASE sets' = [sets EXCEPT ![Fam(c)].shadow = Filled(t.nets)] /\ NextFamily(c, "fill", "swap")
    <3>1. \A j \in Fams : /\ Act(j)' = Act(j)
                          /\ j = t.fam => Sha(j)' = Filled(t.nets)
                          /\ j # t.fam => Sha(j)' = Sha(j)
      <4>1. /\ sets'[Fam(c)].active = sets[Fam(c)].active /\ sets'[Fam(c)].shadow = Filled(t.nets)
            /\ \A g \in FamilySet \ {Fam(c)} : sets'[g] = sets[g]
        BY <1>1, <1>2, <2>2, Filling
      <4> QED BY <1>2, <4>1
    <3>2. \A j \in Fams : j < t.fam => Sha(j) = Filled(t.nets)
      BY <1>1, <2>1 DEF UpdateOK
    <3>3. \A i \in Fams : Act(i)' \in FullSets
      BY <1>1, <3>1
    <3>4. CASE t.fam < NumFamilies /\ t.fam + 1 \in Fams /\ GoTo(c, "fill", t.fam + 1)
      <4>1. task'[c].at = "fill" /\ task'[c].fam = t.fam + 1 /\ task'[c].nets = t.nets
        BY <1>3, <3>4 DEF Updating
      <4>2. \A i \in Fams : i < t.fam + 1 => Sha(i)' = Filled(t.nets)
        BY <1>2, <3>1, <3>2
      <4> QED BY <3>3, <4>1, <4>2 DEF UpdateOK
    <3>5. CASE t.fam = NumFamilies /\ GoTo(c, "swap", 1)
      <4>1. task'[c].at = "swap" /\ task'[c].fam = 1 /\ task'[c].nets = t.nets
        BY <1>2, <1>3, <3>5 DEF Updating
      <4>2. \A i \in Fams : ~(i < 1) /\ Sha(i)' = Filled(t.nets)
        BY <1>2, <3>1, <3>2, <3>5
      <4> QED BY <3>3, <4>1, <4>2 DEF UpdateOK
    <3> QED BY <1>1, <2>2, <3>4, <3>5, GoingOn
  <2>3. CASE (sets' = NoShadows \/ UNCHANGED sets) /\ GoTo(c, "fail", 1)
    BY <1>2, <1>3, <1>5, <1>6, <2>3
  <2> QED BY <1>7, <2>2, <2>3 DEF Fill
<1>8. CASE Swap(c)
  <2>1. /\ t.at = "swap"
        /\ \A i \in Fams : IF i < t.fam THEN Act(i) = Filled(t.nets) /\ Sha(i) \in FullSets
                           ELSE Sha(i) = Filled(t.nets)
    BY <1>1, <1>8 DEF Swap, At, UpdateOK
  <2>2. CASE Exchange(Fam(c)) /\ NextFamily(c, "swap", "clear")
    <3>1. \A i \in Fams : IF i <= t.fam THEN Act(i)' = Filled(t.nets) /\ Sha(i)' \in FullSets
                          ELSE Sha(i)' = Filled(t.nets) /\ Act(i)' = Act(i)
      BY <1>1, <1>2, <1>4, <2>1, <2>2
    <3>2. \A i \in Fams : Act(i)' \in FullSets
      BY <1>1, <1>2, <3>1
    <3>3. CASE t.fam < NumFamilies /\ t.fam + 1 \in Fams /\ GoTo(c, "swap", t.fam + 1)
      <4>1. task'[c].at = "swap" /\ task'[c].fam = t.fam + 1 /\ task'[c].nets = t.nets
        BY <1>3, <3>3 DEF Updating
      <4>2. \A i \in Fams : i < t.fam + 1 <=> i <= t.fam
        BY <1>2
      <4> QED BY <3>1, <3>2, <4>1, <4>2 DEF UpdateOK
    <3>4. CASE t.fam = NumFamilies /\ GoTo(c, "clear", 1)
      <4>1. task'[c].at = "clear" /\ task'[c].nets = t.nets
        BY <1>2, <1>3, <3>4 DEF Updating
      <4> QED BY <1>2, <3>1, <3>2, <3>4, <4>1 DEF UpdateOK
    <3> QED BY <1>1, <2>2, <3>3, <3>4, GoingOn
  <2>3. CASE UNCHANGED sets /\ t.fam > 1 /\ GoTo(c, "unswap", t.fam - 1)
    <3>1. t.fam - 1 \in Fams /\ \A i \in Fams : i <= t.fam - 1 => i < t.fam
      BY <1>2, <2>3
    <3>2. task'[c].at = "unswap" /\ task'[c].fam = t.fam - 1
      BY <1>3, <2>3, <3>1 DEF Updating
    <3> QED BY <1>1, <2>1, <2>3, <3>1, <3>2 DEF UpdateOK
  <2>4. CASE UNCHANGED sets /\ GoTo(c, "drop", 1)
    BY <1>2, <1>3, <1>5, <1>6, <2>4 DEF Updating
  <2> QED BY <1>8, <2>2, <2>3, <2>4 DEF Swap
<1>9. CASE Unswap(c)
  <2>1. t.at = "unswap" /\ \A i \in Fams : i <= t.fam => Sha(i) \in FullSets
    BY <1>1, <1>9 DEF Unswap, At, UpdateOK
  <2>2. \A i \in Fams : Act(i)' \in FullSets /\ (i <= t.fam => Sha(i)' \in FullSets)
    <3>1. CASE Exchange(Fam(c))
      BY <1>1, <1>2, <1>4, <2>1, <3>1
    <3>2. CASE UNCHANGED sets
      BY <1>1, <2>1, <3>2
    <3> QED BY <1>9, <3>1, <3>2 DEF Unswap
  <2>3. CASE t.fam > 1 /\ GoTo(c, "unswap", t.fam - 1)
    <3>1. t.fam - 1 \in Fams /\ \A i \in Fams : i <= t.fam - 1 => i <= t.fam
      BY <1>2, <2>3
    <3>2. task'[c].at = "unswap" /\ task'[c].fam = t.fam - 1
      BY <1>3, <2>3, <3>1 DEF Updating
    <3> QED BY <2>2, <3>1, <3>2 DEF UpdateOK
  <2>4. CASE GoTo(c, "drop", 1)
    <3>1. task'[c].at = "drop"
      BY <1>2, <1>3, <2>4 DEF Updating
    <3> QED BY <2>2, <3>1 DEF UpdateOK
  <2> QED BY <1>9, <2>3, <2>4 DEF Unswap
<1>10. CASE DropShadows(c)
  BY <1>2, <1>3, <1>5, <1>6, <1>10 DEF DropShadows, ShadowsGo
<1>11. CASE Updated(c)
  <2>1. task'[c].at \in {"snapshot", "import", "idle"}
    <3>1. CASE GoTo(c, "snapshot", 1) \/ GoTo(c, "import", 1)
      BY <1>2, <1>3, <3>1
    <3>2. CASE Returns(c)
      BY <1>1, <3>2, Returning DEF Idle
    <3> QED BY <1>11, <3>1, <3>2 DEF Updated
  <2> QED BY <1>5, <1>6, <1>11, <2>1 DEF Updated, ShadowsGo
<1> QED BY <1>7, <1>8, <1>9, <1>10, <1>11
       DEF Step, ReadFile, TakeClientMu, TakeCfgMu, Edit, Import, UpdateFails, Snapshot, Open, Write, At, Updating

LEMMA StepKeepsSets ==
    ASSUME ConfigIInv, NEW c \in Callers, Step(c)
    PROVE  SetsAreWhole' /\ UpdatesOK'
<1>1. Moves(c) /\ phase' = phase /\ SetsAreWhole /\ UpdatesOK
  BY StepMoves, StepKeepsTypes DEF ConfigIInv
<1>2. CASE task[c].at \in Updating
  <2>1. \A f \in FamilySet : sets'[f].active \in FullSets
    BY <1>2, UpdateKeepsSets, FamiliesAreListed
  <2>2. \A d \in Callers \ {c} : task'[d] = task[d] /\ task[d].at \notin Updating
    BY <1>1, <1>2, Updaters DEF Moves
  <2>3. \A d \in Callers \ {c} : UpdateOK(d)'
    BY <2>2 DEF UpdateOK, Updating
  <2>4. UpdateOK(c)'
    BY <1>2, UpdateKeepsSets
  <2> QED BY <2>1, <2>3, <2>4 DEF SetsAreWhole, UpdatesOK
<1>3. CASE task[c].at \notin Updating
  <2>1. sets' = sets
    BY <1>3, OthersLeaveSets
  <2>2. \A d \in Callers \ {c} : UpdateOK(d)'
    BY <1>1, <2>1 DEF UpdateOK, UpdatesOK, Moves
  <2>3. UpdateOK(c)'
    <3>1. \A i \in 1 .. NumFamilies : ~(i < 1)
      BY FamiliesAreListed
    <3> QED BY <1>3, <3>1, BeginsToFill DEF UpdateOK, Updating
  <2> QED BY <1>1, <2>1, <2>2, <2>3 DEF SetsAreWhole, UpdatesOK
<1> QED BY <1>2, <1>3

--------------------------------------------------------------------------------
(* What was accepted *)

(* Who does not hold clientRoutingMu changes no networks. *)
LEMMA OthersLeaveNetworks ==
    ASSUME ConfigIInv, NEW c \in Callers, Step(c), clientMu # c
    PROVE  memory'.nets = memory.nets /\ sets' = sets /\ accepted' = accepted
<1>1. task[c].at \notin Updating
  BY Updaters
<1>2. /\ TaskOK(task[c]) /\ ~NeedsClientMu(task[c]) /\ memory \in Configs
  BY DEF ConfigIInv, ConfigTypes, LocksOK, TasksOK
<1>3. CASE Edit(c)
  BY <1>2, <1>3 DEF Edit, Configs
<1>4. CASE Import(c) \/ UpdateFails(c)
  BY <1>2, <1>4 DEF Import, UpdateFails, At, NeedsClientMu, TaskOK, PlaceOK, Configs, Idle
<1>5. CASE Write(c)
  BY <1>2, <1>5 DEF Write, At, NeedsClientMu, SaveFails
<1>6. CASE ReadFile(c) \/ TakeClientMu(c) \/ TakeCfgMu(c) \/ Snapshot(c) \/ Open(c)
  BY <1>6 DEF ReadFile, TakeClientMu, TakeCfgMu, Snapshot, Open, SaveFails
<1> QED BY <1>1, <1>3, <1>4, <1>5, <1>6 DEF Step, Fill, Swap, Unswap, DropShadows, Updated, Import, At, Updating

(* A fault that is not the first leaves nothing to say. *)
LEMMA FaultsSoFar ==
    ASSUME ConfigIInv, NEW c \in Callers, Step(c), OneFault'
    PROVE  /\ OneFault /\ phase = "run"
           /\ HasFailed => HasFailed'
           /\ Fault => HasFailed' /\ ~HasFailed
<1>1. /\ budget \in Budgets /\ budget["faults"] <= MaxFaults /\ phase' = phase
      /\ budget'["faults"] <= budget["faults"] /\ MaxFaults \in Nat /\ budget' \in Budgets
  BY StepKeepsTypes, BoundAssumption DEF ConfigIInv, ConfigTypes, DataTypes
<1>2. Fault => budget'["faults"] = budget["faults"] - 1
  BY <1>1, Spending DEF Fault
<1> QED BY <1>1, <1>2 DEF OneFault, HasFailed, Budgets

LEMMA HolderSteps ==
    ASSUME ConfigIInv, NEW c \in Callers, Step(c), clientMu = c, OneFault'
    PROVE  /\ clientMu' = None => Settled'
           /\ clientMu' = c => HolderOK(task[c])'
<1> DEFINE t == task[c]
           Fams == 1 .. NumFamilies
           Act(i) == sets[Families[i]].active
           Sha(i) == sets[Families[i]].shadow
<1>1. /\ task \in [Callers -> Tasks] /\ t \in Tasks /\ TaskOK(t) /\ UpdateOK(c) /\ SetTypes
      /\ memory \in Configs
      /\ NeedsClientMu(t) /\ HolderOK(t) /\ c # None /\ ready
      /\ OneFault /\ phase = "run" /\ (HasFailed => HasFailed') /\ (Fault => HasFailed' /\ ~HasFailed)
  BY FaultsSoFar, NetworkAssumption
     DEF ConfigIInv, ConfigTypes, TasksOK, LocksOK, UpdatesOK, SetTypes, AcceptedOK
<1>2. /\ NumFamilies \in Nat /\ t.fam \in Fams /\ 1 \in Fams
      /\ Fam(c) \in FamilySet
      /\ \A j \in Fams : /\ Families[j] \in FamilySet
                         /\ j # t.fam => Families[j] \in FamilySet \ {Fam(c)}
                         /\ j = t.fam => Families[j] = Fam(c)
  BY <1>1, FamilyOfCall, OneFamily, FamiliesAreListed
<1>3. ASSUME NEW at \in Updating \cup {"import", "fail", "snapshot", "write"}, NEW i \in Fams, GoTo(c, at, i)
      PROVE  /\ task'[c].at = at /\ task'[c].fam = i /\ task'[c].op = t.op /\ task'[c].nets = t.nets
             /\ task'[c].old = t.old
  <2>1. at \in Places
    BY DEF Places, Saving
  <2> QED BY <1>1, <1>3, <2>1, GoingTo
<1>4. t.op \in {"set", "undo", "reload"} /\ t.at \notin {"read", "client"}
  BY <1>1 DEF NeedsClientMu
<1>5. ASSUME Exchange(Fam(c))
      PROVE  \A j \in Fams : IF j = t.fam THEN Act(j)' = Sha(j) /\ Sha(j)' = Act(j)
                             ELSE Act(j)' = Act(j) /\ Sha(j)' = Sha(j)
  BY <1>1, <1>2, <1>5, Exchanging
<1>6. ASSUME sets' = NoShadows \/ UNCHANGED sets
      PROVE  \A j \in Fams : Act(j)' = Act(j)
  BY <1>1, <1>2, <1>6, Dropping
<1>7. CASE TakeCfgMu(c)
  <2>1. /\ t.at = "cfg" /\ clientMu' = c /\ UNCHANGED <<memory, sets, accepted>>
        /\ task'[c].at = "fill" /\ task'[c].op = t.op /\ task'[c].nets = t.nets
        /\ task'[c].old = IF t.op = "set" THEN memory.nets ELSE t.old
    BY <1>1, <1>4, <1>7 DEF TakeCfgMu, At, Tasks
  <2> QED BY <1>1, <1>4, <2>1 DEF HolderOK, NotYet, AllActive, Saving
<1>8. CASE Fill(c)
  <2>1. /\ t.at = "fill" /\ UNCHANGED <<memory, accepted>> /\ clientMu' = c /\ t.at \notin Saving
    BY <1>8 DEF Fill, At, locks, Saving
  <2>2. /\ t.op # "undo" => memory.nets = accepted /\ AllActive(accepted)
        /\ t.op = "undo" => t.nets = accepted /\ HasFailed
        /\ t.op = "set" => t.old = accepted
    BY <1>1, <1>4, <2>1 DEF HolderOK, NotYet
  <2>3. CASE sets' = [sets EXCEPT ![Fam(c)].shadow = Filled(t.nets)] /\ NextFamily(c, "fill", "swap")
    <3>1. \A j \in Fams : Act(j)' = Act(j)
      <4>1. t.nets \in AllNetworks
        BY <2>1, Updaters DEF Updating
      <4>2. /\ sets'[Fam(c)].active = sets[Fam(c)].active
            /\ \A g \in FamilySet \ {Fam(c)} : sets'[g] = sets[g]
        BY <1>1, <1>2, <2>3, <4>1, Filling
      <4> QED BY <1>2, <4>2
    <3>2. PICK at \in {"fill", "swap"}, i \in Fams : GoTo(c, at, i) /\ (at = "swap" => i = 1)
      BY <1>1, <1>2, <2>3, GoingOn
    <3>3. /\ task'[c].at = at /\ task'[c].fam = i /\ task'[c].op = t.op /\ task'[c].nets = t.nets
          /\ task'[c].old = t.old
      BY <1>3, <3>2 DEF Updating
    <3>4. \A j \in Fams : ~(j < 1)
      BY <1>2
    <3>5. t.op # "undo" => \A j \in Fams : Act(j)' = Filled(accepted)
      BY <2>2, <3>1 DEF AllActive
    <3> QED BY <1>1, <1>4, <2>1, <2>2, <3>2, <3>3, <3>4, <3>5 DEF HolderOK, NotYet, AllActive, Saving
  <2>4. CASE Fault /\ (sets' = NoShadows \/ UNCHANGED sets) /\ GoTo(c, "fail", 1)
    <3>1. task'[c].at = "fail" /\ task'[c].op = t.op /\ task'[c].nets = t.nets /\ task'[c].old = t.old
      BY <1>2, <1>3, <2>4
    <3>2. t.op # "undo"
      BY <1>1, <2>2, <2>4
    <3>3. \A j \in Fams : Act(j)' = Act(j)
      BY <1>6, <2>4
    <3> QED BY <1>1, <1>4, <2>1, <2>2, <3>1, <3>2, <3>3 DEF HolderOK, NotYet, AllActive, Saving
  <2> QED BY <1>8, <2>3, <2>4 DEF Fill
<1>9. CASE Swap(c)
  <2>1. /\ t.at = "swap" /\ UNCHANGED <<memory, accepted>> /\ clientMu' = c /\ t.at \notin Saving
    BY <1>9 DEF Swap, At, locks, Saving
  <2>2. /\ t.op = "undo" => t.nets = accepted /\ HasFailed
        /\ t.op = "set" => t.old = accepted
        /\ t.op # "undo" => /\ memory.nets = accepted
                            /\ \A i \in Fams : IF i < t.fam THEN Sha(i) = Filled(accepted)
                                               ELSE Act(i) = Filled(accepted)
    BY <1>1, <1>4, <2>1 DEF HolderOK, NotYet
  <2>3. CASE Exchange(Fam(c)) /\ NextFamily(c, "swap", "clear")
    <3>1. t.op # "undo" => \A i \in Fams :
             IF i <= t.fam THEN Sha(i)' = Filled(accepted) ELSE Act(i)' = Filled(accepted)
      BY <1>2, <1>5, <2>2, <2>3
    <3>2. CASE t.fam + 1 \in Fams /\ GoTo(c, "swap", t.fam + 1)
      <4>1. /\ task'[c].at = "swap" /\ task'[c].fam = t.fam + 1 /\ task'[c].op = t.op /\ task'[c].nets = t.nets
            /\ task'[c].old = t.old
        BY <1>3, <3>2 DEF Updating
      <4>2. \A i \in Fams : i < t.fam + 1 <=> i <= t.fam
        BY <1>2
      <4> QED BY <1>1, <1>4, <2>1, <2>2, <3>1, <4>1, <4>2 DEF HolderOK, NotYet, Saving
    <3>3. CASE GoTo(c, "clear", 1)
      <4>1. task'[c].at = "clear" /\ task'[c].op = t.op /\ task'[c].nets = t.nets /\ task'[c].old = t.old
        BY <1>2, <1>3, <3>3 DEF Updating
      <4> QED BY <1>1, <1>4, <2>1, <2>2, <4>1 DEF HolderOK, NotYet, Saving
    <3> QED BY <1>1, <2>3, <3>2, <3>3, GoingOn
  <2>4. ASSUME Fault PROVE t.op # "undo" /\ HasFailed'
    BY <1>1, <2>2, <2>4
  <2>5. CASE Fault /\ UNCHANGED sets /\ t.fam > 1 /\ GoTo(c, "unswap", t.fam - 1)
    <3>1. t.fam - 1 \in Fams /\ \A i \in Fams : i <= t.fam - 1 <=> i < t.fam
      BY <1>2, <2>5
    <3>2. /\ task'[c].at = "unswap" /\ task'[c].fam = t.fam - 1 /\ task'[c].op = t.op /\ task'[c].nets = t.nets
          /\ task'[c].old = t.old
      BY <1>3, <2>5, <3>1 DEF Updating
    <3>3. \A i \in Fams : IF i <= t.fam - 1 THEN Sha(i)' = Filled(accepted) ELSE Act(i)' = Filled(accepted)
      BY <2>2, <2>4, <2>5, <3>1
    <3> QED BY <1>1, <1>4, <2>1, <2>2, <2>4, <2>5, <3>2, <3>3 DEF HolderOK, NotYet, Saving
  <2>6. CASE Fault /\ UNCHANGED sets /\ ~(t.fam > 1) /\ GoTo(c, "drop", 1)
    <3>1. /\ task'[c].at = "drop" /\ task'[c].op = t.op /\ task'[c].nets = t.nets /\ task'[c].old = t.old
      BY <1>2, <1>3, <2>6 DEF Updating
    <3>2. \A i \in Fams : ~(i < t.fam)
      BY <1>2, <2>6
    <3>3. AllActive(accepted)'
      BY <2>1, <2>2, <2>4, <2>6, <3>2 DEF AllActive
    <3> QED BY <1>1, <1>4, <2>1, <2>2, <2>4, <2>6, <3>1, <3>3 DEF HolderOK, NotYet, Saving
  <2> QED BY <1>9, <2>3, <2>5, <2>6 DEF Swap
<1>10. CASE Unswap(c)
  <2>1. /\ t.at = "unswap" /\ UNCHANGED <<memory, accepted>> /\ clientMu' = c /\ t.at \notin Saving
    BY <1>10 DEF Unswap, At, locks, Saving
  <2>2. /\ t.op # "undo" /\ memory.nets = accepted /\ HasFailed
        /\ t.op = "set" => t.old = accepted
        /\ \A i \in Fams : IF i <= t.fam THEN Sha(i) = Filled(accepted) ELSE Act(i) = Filled(accepted)
    BY <1>1, <1>4, <2>1 DEF HolderOK, NotYet
  <2>3. Exchange(Fam(c))
    BY <1>1, <1>10, <2>2 DEF Unswap
  <2>4. \A i \in Fams : IF i < t.fam THEN Sha(i)' = Filled(accepted) ELSE Act(i)' = Filled(accepted)
    BY <1>2, <1>5, <2>2, <2>3
  <2>5. CASE t.fam > 1 /\ GoTo(c, "unswap", t.fam - 1)
    <3>1. t.fam - 1 \in Fams /\ \A i \in Fams : i <= t.fam - 1 <=> i < t.fam
      BY <1>2, <2>5
    <3>2. /\ task'[c].at = "unswap" /\ task'[c].fam = t.fam - 1 /\ task'[c].op = t.op /\ task'[c].nets = t.nets
          /\ task'[c].old = t.old
      BY <1>3, <2>5, <3>1 DEF Updating
    <3> QED BY <1>1, <1>4, <2>1, <2>2, <2>4, <3>1, <3>2 DEF HolderOK, NotYet, Saving
  <2>6. CASE ~(t.fam > 1) /\ GoTo(c, "drop", 1)
    <3>1. /\ task'[c].at = "drop" /\ task'[c].op = t.op /\ task'[c].nets = t.nets /\ task'[c].old = t.old
      BY <1>2, <1>3, <2>6 DEF Updating
    <3>2. \A i \in Fams : ~(i < t.fam)
      BY <1>2, <2>6
    <3>3. AllActive(accepted)'
      BY <2>1, <2>4, <3>2 DEF AllActive
    <3> QED BY <1>1, <1>4, <2>1, <2>2, <3>1, <3>3 DEF HolderOK, NotYet, Saving
  <2> QED BY <1>10, <2>5, <2>6 DEF Unswap
<1>11. CASE DropShadows(c)
  <2>1. /\ t.at = "drop" /\ UNCHANGED <<memory, accepted>> /\ clientMu' = c /\ t.at \notin Saving
        /\ sets' = NoShadows \/ UNCHANGED sets
        /\ GoTo(c, "fail", 1)
    BY <1>11 DEF DropShadows, ShadowsGo, At, locks, Saving
  <2>2. /\ t.op # "undo" /\ memory.nets = accepted /\ AllActive(accepted)
        /\ t.op = "set" => t.old = accepted
    BY <1>1, <1>4, <2>1 DEF HolderOK, NotYet
  <2>3. /\ task'[c].at = "fail" /\ task'[c].op = t.op /\ task'[c].nets = t.nets /\ task'[c].old = t.old
    BY <1>2, <1>3, <2>1
  <2>4. AllActive(accepted)'
    BY <1>6, <2>1, <2>2 DEF AllActive
  <2> QED BY <1>1, <1>4, <2>1, <2>2, <2>3, <2>4 DEF HolderOK, NotYet, Saving
<1>12. CASE Updated(c)
  <2>1. /\ t.at = "clear" /\ memory'.nets = t.nets
        /\ accepted' = IF t.op = "reload" THEN t.nets ELSE accepted
        /\ sets' = NoShadows \/ UNCHANGED sets
    BY <1>12 DEF Updated, ShadowsGo, At
  <2>2. AllActive(t.nets) /\ \A j \in Fams : Act(j)' = Filled(t.nets)
    <3>1. \A j \in Fams : Act(j) = Filled(t.nets)
      BY <1>1, <2>1 DEF UpdateOK
    <3> QED BY <1>6, <2>1, <3>1 DEF AllActive
  <2>3. CASE t.op = "set"
    <3>1. t.old = accepted /\ accepted' = accepted /\ clientMu' = c /\ GoTo(c, "snapshot", 1)
      BY <1>1, <1>12, <2>1, <2>3 DEF HolderOK, Updated
    <3>2. /\ task'[c].at = "snapshot" /\ task'[c].op = t.op /\ task'[c].nets = t.nets /\ task'[c].old = t.old
      BY <1>2, <1>3, <3>1
    <3> QED BY <1>1, <2>1, <2>2, <2>3, <3>1, <3>2 DEF HolderOK, AllActive, Saving
  <2>4. CASE t.op \notin {"set", "reload"}
    <3>1. clientMu' = None
      BY <1>12, <2>4 DEF Updated, Release
    <3>2. accepted' = t.nets
      BY <1>1, <1>4, <2>1, <2>4 DEF HolderOK
    <3> QED BY <1>1, <2>1, <2>2, <3>1, <3>2 DEF Settled, AllActive
  <2>5. CASE t.op = "reload"
    <3>1. accepted' = t.nets /\ clientMu' = c /\ GoTo(c, "import", 1)
      BY <1>1, <1>12, <2>1, <2>5 DEF Updated, locks
    <3>2. /\ task'[c].at = "import" /\ task'[c].op = t.op
      BY <1>2, <1>3, <3>1
    <3> QED BY <1>1, <2>1, <2>2, <2>5, <3>1, <3>2 DEF HolderOK, NotYet, AllActive, Saving
  <2> QED BY <2>3, <2>4, <2>5
<1>13. CASE UpdateFails(c)
  <2>1. t.at = "fail" /\ clientMu' = None /\ UNCHANGED <<sets, accepted>>
    BY <1>13 DEF UpdateFails, At, Release
  <2>2. t.op # "undo" /\ Settled
    BY <1>1, <1>4, <2>1 DEF HolderOK, NotYet, Saving, Settled
  <2>3. memory' = memory
    BY <1>13, <2>2 DEF UpdateFails
  <2> QED BY <1>1, <2>1, <2>2, <2>3 DEF Settled, AllActive
<1>20. CASE Import(c)
  <2>1. t.at = "import" /\ clientMu' = None /\ UNCHANGED <<sets, accepted>> /\ memory'.nets = memory.nets
    BY <1>1, <1>20 DEF Import, At, Release, Configs
  <2>2. t.op = "reload"
    BY <1>1, <2>1 DEF TaskOK, PlaceOK, NeedsClientMu, Updating, Saving
  <2>3. Settled
    BY <1>1, <2>1, <2>2 DEF HolderOK, NotYet, Saving, Settled
  <2> QED BY <1>1, <2>1, <2>3 DEF Settled, AllActive
<1>14. ASSUME t.at \in Saving
       PROVE  t.op = "set" /\ t.old = accepted /\ memory.nets = t.nets /\ AllActive(t.nets)
  BY <1>1, <1>4, <1>14 DEF HolderOK, TaskOK, PlaceOK, Updating, Saving
<1>15. CASE Snapshot(c)
  <2>1. /\ t.at = "snapshot" /\ clientMu' = c /\ UNCHANGED <<memory, sets, accepted>>
        /\ task'[c].at = "open" /\ task'[c].op = t.op /\ task'[c].nets = t.nets /\ task'[c].old = t.old
    BY <1>1, <1>15 DEF Snapshot, At, locks, Tasks
  <2> QED BY <1>1, <1>14, <2>1 DEF HolderOK, AllActive, Saving
<1>16. ASSUME t.at \in Saving, SaveFails(c), Fault, UNCHANGED <<memory, sets>>
       PROVE  clientMu' = c /\ HolderOK(task[c])'
  <2> DEFINE new == [t EXCEPT !.op = "undo", !.at = "cfg", !.nets = t.old]
  <2>2. task' = [task EXCEPT ![c] = new] /\ clientMu' = clientMu /\ accepted' = accepted
    BY <1>14, <1>16 DEF SaveFails, locks
  <2>3. new.at = "cfg" /\ new.op = "undo" /\ new.nets = t.old
    BY <1>1 DEF Tasks
  <2> HIDE DEF new
  <2>1. /\ clientMu' = c /\ accepted' = accepted
        /\ task'[c].at = "cfg" /\ task'[c].op = "undo" /\ task'[c].nets = t.old
    BY <1>1, <2>2, <2>3
  <2> QED BY <1>1, <1>14, <1>16, <2>1 DEF HolderOK
<1>17. CASE Open(c)
  <2>1. t.at = "open" /\ t.at \in Saving /\ UNCHANGED <<memory, sets>>
    BY <1>17 DEF Open, At, Saving
  <2>2. CASE GoTo(c, "write", 1) /\ UNCHANGED <<locks, accepted>>
    <3>1. /\ task'[c].at = "write" /\ task'[c].op = t.op /\ task'[c].nets = t.nets /\ task'[c].old = t.old
          /\ clientMu' = c
      BY <1>2, <1>3, <2>2 DEF locks
    <3> QED BY <1>1, <1>14, <2>1, <2>2, <3>1 DEF HolderOK, AllActive, Saving
  <2>3. CASE Fault /\ SaveFails(c)
    BY <1>1, <1>16, <2>1, <2>3
  <2> QED BY <1>17, <2>2, <2>3 DEF Open
<1>18. CASE Write(c)
  <2>1. t.at = "write" /\ t.at \in Saving /\ UNCHANGED <<memory, sets>>
    BY <1>18 DEF Write, At, Saving
  <2>2. CASE Release(c) /\ accepted' = IF t.op = "set" THEN t.nets ELSE accepted
    BY <1>1, <1>14, <2>1, <2>2 DEF Release, Settled, AllActive
  <2>3. CASE Fault /\ SaveFails(c)
    BY <1>1, <1>16, <2>1, <2>3
  <2> QED BY <1>18, <2>2, <2>3 DEF Write
<1>19. CASE Edit(c)
  BY <1>1, <1>4, <1>19 DEF Edit, At, TaskOK, PlaceOK, Updating, Saving
<1> QED BY <1>4, <1>7, <1>8, <1>9, <1>10, <1>11, <1>12, <1>13, <1>15, <1>17, <1>18, <1>19, <1>20
       DEF Step, ReadFile, TakeClientMu, At

LEMMA StepKeepsAccepted ==
    ASSUME ConfigIInv, NEW c \in Callers, Step(c)
    PROVE  AcceptedOK'
<1> SUFFICES ASSUME OneFault'
             PROVE  /\ clientMu' = None => Settled'
                    /\ \A d \in Callers : clientMu' = d => HolderOK(task[d])'
  BY DEF AcceptedOK
<1>1. /\ OneFault /\ (HasFailed => HasFailed') /\ AcceptedOK /\ Moves(c)
  BY FaultsSoFar, StepMoves DEF ConfigIInv
<1>2. CASE clientMu = c
  <2>1. \A d \in Callers \ {c} : clientMu' # d
    BY <1>1, <1>2 DEF Moves
  <2> QED BY <1>2, <2>1, HolderSteps
<1>3. CASE clientMu # c
  <2>1. memory'.nets = memory.nets /\ sets' = sets /\ accepted' = accepted
    BY <1>3, OthersLeaveNetworks
  <2>2. clientMu' = None => clientMu = None
    BY <1>1, <1>3, NetworkAssumption DEF Moves, ConfigIInv, ConfigTypes
  <2>3. \A d \in Callers \ {c} : clientMu' = d => HolderOK(task[d])'
    BY <1>1, <2>1 DEF AcceptedOK, HolderOK, NotYet, AllActive, Moves
  <2>4. clientMu' = c => HolderOK(task[c])'
    <3> SUFFICES ASSUME clientMu' = c PROVE HolderOK(task[c])'
      OBVIOUS
    <3>1. NeedsClientMu(task'[c]) /\ ~NeedsClientMu(task[c])
      BY <1>1, <1>3 DEF Moves, ConfigIInv, LocksOK
    <3>2. task[c] \in Tasks /\ task \in [Callers -> Tasks] /\ 1 \in 1 .. NumFamilies /\ TaskOK(task[c])
      BY FamiliesAreListed DEF ConfigIInv, ConfigTypes, TasksOK
    <3>3. TakeClientMu(c)
      BY <1>3, NetworkAssumption
         DEF Step, ReadFile, TakeCfgMu, Edit, Fill, Swap, Unswap, DropShadows, Updated, Import, UpdateFails,
            Snapshot, Open,
             Write, SaveFails, Release, locks
    <3>4. task'[c].at = "cfg" /\ task'[c].op = task[c].op /\ task[c].at = "client" /\ clientMu = None
      BY <3>2, <3>3, GoingTo DEF TakeClientMu, At, Places
    <3>5. task[c].op # "undo"
      BY <3>2, <3>4 DEF TaskOK, PlaceOK, Updating
    <3>6. Settled
      BY <1>1, <3>4 DEF AcceptedOK
    <3> QED BY <2>1, <3>4, <3>5, <3>6 DEF HolderOK, NotYet, Settled, AllActive, Saving
  <2>5. clientMu' = None => Settled'
    BY <1>1, <2>1, <2>2 DEF AcceptedOK, Settled, AllActive
  <2> QED BY <2>3, <2>4, <2>5
<1> QED BY <1>2, <1>3

--------------------------------------------------------------------------------
(* The invariant *)

LEMMA CallKeepsInvariant ==
    ASSUME ConfigIInv, NEW c \in Callers, Call(c)
    PROVE  ConfigIInv'
<1>1. /\ Moves(c) /\ DataTypes' /\ UNCHANGED <<memory, file, sets, ready, phase, clientMu, cfgMu, accepted>>
      /\ budget'["faults"] = budget["faults"]
  BY CallMoves, CallKeepsTypes
<1>2. task[c] = Idle /\ task'[c].at \in {"client", "cfg", "snapshot", "read"} /\ phase = "run"
  <2>1. phase = "run"
    BY DEF Call, SetClientRouting, EditGroups, SaveConfig, Reload, Begin
  <2> QED BY <2>1, CallBegins
<1>3. ConfigTypes'
  BY <1>1 DEF ConfigIInv, ConfigTypes, DataTypes, SetTypes, Moves
<1>4. TasksOK' /\ LocksOK'
  BY <1>1, PlacesAndLocks
<1>5. PhaseOK'
  BY <1>1, <1>2 DEF ConfigIInv, PhaseOK, Moves, Updating
<1>6. EditsAreCounted'
  BY CallIsAfforded
<1>7. SetsAreWhole'
  BY <1>1 DEF ConfigIInv, SetsAreWhole
<1>8. UpdatesOK'
  <2>1. \A d \in Callers \ {c} : UpdateOK(d)'
    BY <1>1 DEF ConfigIInv, UpdatesOK, UpdateOK, Moves
  <2>2. UpdateOK(c)'
    BY <1>2 DEF UpdateOK
  <2> QED BY <2>1, <2>2 DEF UpdatesOK
<1>9. AcceptedOK'
  <2>1. clientMu # c
    BY <1>2, IdleTask DEF ConfigIInv, LocksOK
  <2>2. \A d \in Callers : clientMu = d => task'[d] = task[d]
    BY <1>1, <2>1 DEF Moves
  <2> QED BY <1>1, <2>2 DEF ConfigIInv, AcceptedOK, OneFault, HasFailed, Settled, HolderOK, NotYet, AllActive
<1> QED BY <1>3, <1>4, <1>5, <1>6, <1>7, <1>8, <1>9 DEF ConfigIInv

LEMMA StepKeepsInvariant ==
    ASSUME ConfigIInv, NEW c \in Callers, Step(c)
    PROVE  ConfigIInv'
<1>1. ConfigTypes'
  BY StepMoves, StepKeepsTypes DEF ConfigIInv, ConfigTypes, DataTypes, SetTypes, Moves
<1> QED BY <1>1, StepMoves, PlacesAndLocks, StepKeepsPhase, StepIsAfforded, StepKeepsSets, StepKeepsAccepted
        DEF ConfigIInv

(* When nobody is at anything no lock is held and no edit is pending. *)
LEMMA NobodyHolds ==
    ASSUME ConfigTypes, LocksOK, task = Nobody
    PROVE  clientMu = None /\ cfgMu = None
BY IdleTask DEF ConfigTypes, LocksOK, Nobody

LEMMA NobodyIsFine ==
    ASSUME task = Nobody, clientMu = None, cfgMu = None
    PROVE  /\ task \in [Callers -> Tasks] /\ TasksOK /\ LocksOK /\ UpdatesOK /\ Pending = {}
           /\ \A c \in Callers : task[c].at = "idle" /\ ~HasSnap(task[c])
<1>1. /\ Idle.at = "idle" /\ Idle.op = "none" /\ task \in [Callers -> Tasks]
      /\ \A c \in Callers : task[c] = Idle /\ c # None
  BY IdleTask, NetworkAssumption DEF Nobody, Idle
<1>2. TasksOK /\ LocksOK
  BY <1>1, IdleTask DEF TasksOK, LocksOK
<1>3. \A c \in Callers : UpdateOK(c)
  BY <1>1 DEF UpdateOK
<1> QED BY <1>1, <1>2, <1>3 DEF UpdatesOK, Pending, HasSnap

LEMMA ConfigInit ==
    Init => ConfigIInv
<1> SUFFICES ASSUME Init PROVE ConfigIInv
  OBVIOUS
<1>1. /\ budget \in Budgets /\ budget["faults"] = MaxFaults /\ budget["calls"] = MaxCalls
  BY BudgetInit DEF Init
<1>2. /\ memory \in Configs /\ memory.edit = 0 /\ file = memory
  BY DEF Init, Configs, AllNetworks
<1>3. /\ task \in [Callers -> Tasks] /\ TasksOK /\ LocksOK /\ UpdatesOK /\ Pending = {}
      /\ \A c \in Callers : task[c].at = "idle" /\ ~HasSnap(task[c])
  BY NobodyIsFine DEF Init
<1>4. ConfigTypes
  <2>1. sets \in [FamilySet -> [active : SetValues, shadow : SetValues]]
    <3>1. sets = NoSets
      BY DEF Init
    <3>2. None \in SetValues
      BY DEF SetValues
    <3> HIDE DEF SetValues
    <3>3. [active |-> None, shadow |-> None] \in [active : SetValues, shadow : SetValues]
      BY <3>2
    <3> QED BY <3>1, <3>3 DEF NoSets
  <2>2. ready = (phase = "run") /\ phase \in {"down", "run", "ending"}
    BY DEF Init
  <2>3. budget["faults"] <= MaxFaults
    BY <1>1, BoundAssumption
  <2>4. clientMu = None /\ cfgMu = None /\ accepted \in AllNetworks
    BY DEF Init, AllNetworks
  <2> QED BY <1>1, <1>2, <1>3, <2>1, <2>2, <2>3, <2>4 DEF ConfigTypes
<1>5. PhaseOK
  BY <1>3 DEF Init, PhaseOK, Updating
<1>6. EditsAreCounted
  <2>1. IsFiniteSet(Pending) /\ Cardinality(Pending) = 0
    BY <1>3, FS_EmptySet
  <2> QED BY <1>1, <1>2, <1>3, <2>1, BoundAssumption DEF EditsAreCounted, Affords
<1>7. SetsAreWhole /\ AcceptedOK
  BY DEF Init, SetsAreWhole, AcceptedOK, OneFault
<1> QED BY <1>3, <1>4, <1>5, <1>6, <1>7 DEF ConfigIInv

LEMMA FewerEdits ==
    ASSUME ConfigIInv, Pending' = {}, budget'["calls"] = budget["calls"], NEW config,
           config.edit \in Nat, Affords(config)
    PROVE  config.edit + Cardinality(Pending') + budget'["calls"] <= MaxCalls
<1>1. /\ IsFiniteSet(Pending) /\ Cardinality(Pending) \in Nat /\ Cardinality(Pending') = 0
      /\ budget["calls"] \in Nat /\ MaxCalls \in Nat
  BY FS_CardinalityType, FS_EmptySet, BoundAssumption DEF ConfigIInv, EditsAreCounted, ConfigTypes, Budgets
<1> QED BY <1>1 DEF Affords

LEMMA StartKeepsInvariant ==
    ASSUME ConfigIInv, Start
    PROVE  ConfigIInv'
<1>1. /\ task = Nobody /\ clientMu = None /\ cfgMu = None
      /\ task' = task /\ clientMu' = clientMu /\ cfgMu' = cfgMu /\ budget' = budget /\ file' = file
      /\ phase' = "run" /\ ready' = TRUE
  <2>1. task = Nobody
    BY DEF Start, ConfigIInv, PhaseOK
  <2> QED BY <2>1, NobodyHolds DEF Start, ConfigIInv, locks
<1>2. /\ task' \in [Callers -> Tasks] /\ TasksOK' /\ LocksOK' /\ Pending' = {} /\ Pending = {}
      /\ \A c \in Callers : task'[c].at = "idle" /\ ~HasSnap(task'[c])
  <2>1. /\ TasksOK /\ LocksOK
    BY DEF ConfigIInv
  <2>2. /\ task \in [Callers -> Tasks] /\ Pending = {}
        /\ \A c \in Callers : task[c].at = "idle" /\ ~HasSnap(task[c])
    BY <1>1, NobodyIsFine
  <2> QED BY <1>1, <2>1, <2>2 DEF TasksOK, LocksOK, Pending
<1>3. /\ memory' \in Configs /\ accepted' = memory'.nets /\ accepted' \in AllNetworks
      /\ memory'.edit = 0 \/ (memory' = file /\ file \in Configs)
  BY DEF Start, ConfigIInv, ConfigTypes, Configs, AllNetworks
<1>4. /\ sets' \in [FamilySet -> [active : SetValues, shadow : SetValues]]
      /\ \A f \in FamilySet : sets'[f].active = Filled(accepted') /\ Filled(accepted') \in FullSets
  <2>1. Filled(memory'.nets) \in FullSets
    BY <1>3 DEF FullSets
  <2> HIDE DEF FullSets
  <2>2. [active |-> Filled(memory'.nets), shadow |-> None] \in [active : SetValues, shadow : SetValues]
    BY <2>1 DEF SetValues
  <2>3. sets' = [f \in FamilySet |-> [active |-> Filled(memory'.nets), shadow |-> None]]
    BY DEF Start
  <2> QED BY <1>3, <2>1, <2>2, <2>3
<1>5. ConfigTypes'
  BY <1>1, <1>2, <1>3, <1>4 DEF ConfigIInv, ConfigTypes
<1>6. PhaseOK'
  BY <1>1, <1>2 DEF PhaseOK, Updating
<1>7. EditsAreCounted'
  <2>1. /\ IsFiniteSet(Pending') /\ Affords(memory) /\ Affords(file) /\ memory.edit \in Nat /\ file.edit \in Nat
    BY <1>2, FS_EmptySet DEF ConfigIInv, EditsAreCounted, ConfigTypes, Configs, Unreadable, Empty, Torn
  <2>2. file.edit + Cardinality(Pending') + budget'["calls"] <= MaxCalls
    BY <1>1, <1>2, <2>1, FewerEdits
  <2>3. Cardinality(Pending') = 0 /\ budget["calls"] \in Nat /\ MaxCalls \in Nat
    BY <1>2, FS_EmptySet, BoundAssumption DEF ConfigIInv, ConfigTypes, Budgets
  <2>4. memory'.edit + Cardinality(Pending') + budget'["calls"] <= MaxCalls
    BY <1>1, <1>3, <2>1, <2>2, <2>3
  <2> QED BY <1>1, <1>2, <2>1, <2>2, <2>4 DEF EditsAreCounted, Affords
<1>8. SetsAreWhole'
  BY <1>4 DEF SetsAreWhole
<1>9. UpdatesOK'
  BY <1>2 DEF UpdatesOK, UpdateOK
<1>10. AcceptedOK'
  <2>1. Settled'
    BY <1>3, <1>4, FamiliesAreListed DEF Settled, AllActive
  <2>2. \A c \in Callers : clientMu' # c
    BY <1>1, NetworkAssumption
  <2> QED BY <2>1, <2>2 DEF AcceptedOK
<1> QED BY <1>2, <1>5, <1>6, <1>7, <1>8, <1>9, <1>10 DEF ConfigIInv

LEMMA StopKeepsInvariant ==
    ASSUME ConfigIInv, Stop
    PROVE  ConfigIInv'
<1>1. /\ task' = task /\ clientMu' = clientMu /\ cfgMu' = cfgMu /\ UNCHANGED <<file, memory, accepted>>
      /\ phase' = "ending" /\ ready' = FALSE /\ sets' = NoSets
      /\ budget' \in Budgets /\ budget'["faults"] <= MaxFaults /\ budget'["calls"] = budget["calls"]
      /\ \A c \in Callers : task[c].at \notin Updating
  BY Spending DEF Stop, locks, InUpdate, Updating, ConfigIInv, ConfigTypes
<1>2. ConfigTypes'
  <2>1. sets' \in [FamilySet -> [active : SetValues, shadow : SetValues]]
    BY <1>1 DEF NoSets, SetValues
  <2> QED BY <1>1, <2>1 DEF ConfigIInv, ConfigTypes
<1>3. TasksOK' /\ LocksOK' /\ PhaseOK' /\ SetsAreWhole'
  BY <1>1 DEF ConfigIInv, TasksOK, LocksOK, PhaseOK, SetsAreWhole
<1>4. EditsAreCounted'
  BY <1>1 DEF ConfigIInv, EditsAreCounted, Affords, Pending
<1>5. UpdatesOK'
  BY <1>1 DEF UpdatesOK, UpdateOK, Updating
<1>6. AcceptedOK'
  BY <1>1 DEF AcceptedOK, OneFault
<1> QED BY <1>2, <1>3, <1>4, <1>5, <1>6 DEF ConfigIInv

LEMMA EndKeepsInvariant ==
    ASSUME ConfigIInv, Exit \/ Kill
    PROVE  ConfigIInv'
<1>1. /\ task' = Nobody /\ clientMu' = None /\ cfgMu' = None /\ phase' = "down" /\ ready' = FALSE
      /\ UNCHANGED <<memory, file, sets, accepted>>
      /\ budget' \in Budgets /\ budget'["faults"] <= MaxFaults /\ budget'["calls"] = budget["calls"]
  BY Spending DEF Exit, Kill, Ended, ConfigIInv, ConfigTypes
<1>2. /\ task' \in [Callers -> Tasks] /\ TasksOK' /\ LocksOK' /\ UpdatesOK' /\ Pending' = {}
      /\ \A c \in Callers : task'[c].at = "idle" /\ ~HasSnap(task'[c])
  <2>1. \A c \in Callers : task'[c] = Idle /\ Idle.at = "idle" /\ Idle.op = "none" /\ c # None
    BY <1>1, NetworkAssumption DEF Nobody, Idle
  <2>2. task' \in [Callers -> Tasks]
    BY <1>1, IdleTask DEF Nobody
  <2>3. TasksOK' /\ LocksOK'
    BY <1>1, <2>1, IdleTask DEF TasksOK, LocksOK
  <2>4. \A c \in Callers : UpdateOK(c)'
    BY <2>1 DEF UpdateOK
  <2> QED BY <2>1, <2>2, <2>3, <2>4 DEF UpdatesOK, Pending, HasSnap
<1>3. ConfigTypes' /\ PhaseOK' /\ SetsAreWhole' /\ AcceptedOK'
  BY <1>1, <1>2 DEF ConfigIInv, ConfigTypes, PhaseOK, SetsAreWhole, AcceptedOK, OneFault, Updating
<1>4. EditsAreCounted'
  <2>1. /\ IsFiniteSet(Pending') /\ Affords(memory) /\ Affords(file) /\ memory.edit \in Nat /\ file.edit \in Nat
    BY <1>2, FS_EmptySet DEF ConfigIInv, EditsAreCounted, ConfigTypes, Configs, Unreadable, Empty, Torn
  <2>2. /\ file.edit + Cardinality(Pending') + budget'["calls"] <= MaxCalls
        /\ memory.edit + Cardinality(Pending') + budget'["calls"] <= MaxCalls
    BY <1>1, <1>2, <2>1, FewerEdits
  <2> QED BY <1>1, <1>2, <2>1, <2>2 DEF EditsAreCounted, Affords
<1> QED BY <1>2, <1>3, <1>4 DEF ConfigIInv

LEMMA ConfigInductive ==
    ConfigIInv /\ [Next]_vars => ConfigIInv'
<1> SUFFICES ASSUME ConfigIInv, [Next]_vars PROVE ConfigIInv'
  OBVIOUS
<1>1. ASSUME NEW c \in Callers, SetClientRouting(c) \/ EditGroups(c) \/ SaveConfig(c) \/ Reload(c)
      PROVE  ConfigIInv'
  BY <1>1, CallKeepsInvariant DEF Call
<1>2. ASSUME NEW c \in Callers, Step(c) PROVE ConfigIInv'
  BY <1>2, StepKeepsInvariant
<1>3. CASE Start
  BY <1>3, StartKeepsInvariant
<1>4. CASE Stop
  BY <1>4, StopKeepsInvariant
<1>5. CASE Exit \/ Kill
  BY <1>5, EndKeepsInvariant
<1>6. CASE UNCHANGED vars
  BY <1>6 DEF vars, locks, ConfigIInv, ConfigTypes, TasksOK, LocksOK, PhaseOK, EditsAreCounted, Affords,
     Pending,
              SetsAreWhole, UpdatesOK, UpdateOK, AcceptedOK, OneFault, HasFailed, Settled, HolderOK, NotYet,
              AllActive
<1> QED BY <1>1, <1>2, <1>3, <1>4, <1>5, <1>6 DEF Next

LEMMA ConfigInvariant == Spec => []ConfigIInv
BY ConfigInit, ConfigInductive, PTL DEF Spec

--------------------------------------------------------------------------------
(* Theorems *)

(* The configuration and the sets hold networks that were asked for, no more   *)
(* edits than were made, and clientRoutingMu and cfgMu are held exactly        *)
(* between the places where SetClientRouting, LoadConfig and the handlers take *)
(* them and give them back, whatever fails and whoever is killed.             *)
THEOREM ConfigTypeCorrect == Spec => []TypeOK
<1>1. ConfigIInv => TypeOK
  <2> SUFFICES ASSUME ConfigIInv PROVE TypeOK
    OBVIOUS
  <2>1. memory.nets \in AllNetworks /\ memory.edit \in 0 .. MaxCalls
    <3>1. /\ memory.edit \in Nat /\ budget["calls"] \in Nat /\ Cardinality(Pending) \in Nat /\ MaxCalls \in Nat
          /\ memory.edit + Cardinality(Pending) + budget["calls"] <= MaxCalls
      BY FS_CardinalityType, BoundAssumption
         DEF ConfigIInv, EditsAreCounted, Affords, ConfigTypes, Configs, Budgets
    <3> QED BY <3>1 DEF ConfigIInv, ConfigTypes, Configs
  <2>2. \A f \in FamilySet, which \in {"active", "shadow"} :
          sets[f][which] = None \/ sets[f][which].nets \in AllNetworks
    <3>1. \A s \in FullSets : s.nets \in AllNetworks
      BY DEF FullSets, Filled
    <3>2. \A f \in FamilySet : /\ sets[f]["active"] \in FullSets \cup {None}
                               /\ sets[f]["shadow"] \in FullSets \cup {None}
      BY DEF ConfigIInv, ConfigTypes, SetValues
    <3> QED BY <3>1, <3>2
  <2>3. \A c \in Callers :
          /\ clientMu = c <=> /\ task[c].op \in {"set", "undo", "reload"}
                              /\ task[c].at \notin {"read", "client"}
          /\ cfgMu = c <=> (InUpdate(c) \/ task[c].at \in {"edit", "import", "fail"})
    BY DEF ConfigIInv, LocksOK, NeedsClientMu, NeedsCfgMu, InUpdate, Updating
  <2> QED BY <2>1, <2>2, <2>3 DEF TypeOK, ConfigIInv, ConfigTypes
<1> QED BY <1>1, ConfigInvariant, PTL

(* While rules refer to the sets, UpdateClientBypass leaves every family a set *)
(* that is there and whole, whichever netlink request fails and whatever the   *)
(* rollback does.                                                             *)
THEOREM BypassStaysWhole == Spec => []BypassIsWhole
<1>1. ConfigIInv => BypassIsWhole
  <2>1. \A s \in FullSets : s # None /\ s.whole
    BY SetAssumption DEF FullSets, Filled
  <2> QED BY <2>1 DEF ConfigIInv, SetsAreWhole, BypassIsWhole
<1> QED BY <1>1, ConfigInvariant, PTL

(* One failure anywhere in SetClientRouting or in a reload - a fill, the swap  *)
(* of one family, the file, the import of the groups - leaves the sets of all  *)
(* families and the configuration in agreement, with the networks of the last  *)
(* SetClientRouting that succeeded or the last reload that got as far as its   *)
(* import (config.go:214-240).                                                *)
THEOREM OneFailureIsUndone == Spec => []BypassIsAccepted
<1>1. ConfigIInv => BypassIsAccepted
  <2> SUFFICES ASSUME ConfigIInv, phase = "run", clientMu = None, budget.faults + 1 >= MaxFaults
               PROVE  memory.nets = accepted /\ \A f \in FamilySet : sets[f].active.nets = accepted
    BY DEF BypassIsAccepted
  <2>1. Settled
    BY DEF ConfigIInv, AcceptedOK, OneFault
  <2>2. \A f \in FamilySet : sets[f].active = Filled(accepted)
    BY <2>1, FamiliesAreListed DEF Settled, AllActive
  <2> QED BY <2>1, <2>2 DEF Settled, Filled
<1> QED BY <1>1, ConfigInvariant, PTL

=============================================================================
