----------------------- MODULE RoutingLifecycleProofs ------------------------
(***************************************************************************)
(* Theorems about the lifecycle composed with the editing API and the      *)
(* committer, for any set of groups, any number of families, of calls, of  *)
(* edits, of rewrites and of faults.                                       *)
(***************************************************************************)
EXTENDS RoutingLifecycle, NetfilterCommitterProofs

(* A handler works on a group, never on the DNS remap. *)
EditsAGroup == api.at # "done" => api.g \in Groups

LifecycleInvType == TypeInv /\ LifecycleTypeOK /\ EditsAGroup

(* The holder of lifecycleMu waits for setMode exactly while a call of it  *)
(* is under way, and never asks the worker to leave.                       *)
CallsInOrder ==
    /\ ctl.st # "idle" <=> pc = "ask"
    /\ "stopping" \notin {mode, ctl.mode, granted}

(* So the worker leaves only when it is cancelled. *)
LeavesCancelled == worker = "exited" => cancelled

Teardown == {"rules", "unlink", "sets", "undns"}
BringUp == {"dns", "groups", "commit"}

(* stop() comes before the shutdown, and a shutdown before no bring-up of  *)
(* Start or SetEnabled.                                                    *)
ShutdownOrder ==
    /\ shuttingDown => op = "shutdown" \/ started = "over"
    /\ op \in {"start", "enable"} => ~shuttingDown
    /\ op = "shutdown" => /\ shuttingDown /\ stopper = "stopped"
                          /\ pc \in {"down", "release", "exit"} \cup Teardown

(* The committer was last told to repair exactly when the routing is up. *)
Agree == granted = "ready" <=> routingActive

(* bringUpRouting marks the routing active first. *)
MarkedFirst == pc \in BringUp => routingActive

Between == op = "none" => pc = "begin" /\ (~shuttingDown => Agree)

(* Start and SetEnabled(true): a bring-up that begins at all begins with a *)
(* committer that is not ready, and is torn down only after a failure.     *)
GoingUp ==
    op \in {"start", "enable"} =>
        /\ pc \in BringUp \cup Teardown \cup {"begin", "up", "release", "ask", "save", "exit"}
        /\ pc \in {"begin", "up", "exit"} => Agree
        /\ pc \in {"begin", "up"} => ~failed
        /\ pc = "begin" => ~routingActive
        /\ pc \in BringUp \cup Teardown => granted # "ready"
        /\ pc \in Teardown => failed
        /\ pc = "release" => IF failed THEN granted # "ready" /\ ~routingActive
                             ELSE routingActive
        /\ pc = "ask" => \/ ctl.mode = "ready" /\ routingActive
                         \/ ctl.mode = "paused" /\ op = "start" /\ ~routingActive
        /\ pc = "save" => granted = "ready" /\ routingActive

(* SetEnabled(false). *)
GoingDown ==
    op = "disable" =>
        /\ pc \in Teardown \cup {"ask", "down", "release", "save", "exit"}
        /\ pc # "ask" => granted # "ready"
        /\ pc \in Teardown \cup {"release", "save", "exit"} => ~routingActive
        /\ pc = "ask" => ctl.mode = "paused"

(* SetDirectPriority pauses first and resumes last. *)
Switching ==
    op \in {"prio", "unprio"} =>
        /\ pc # "begin"
        /\ pc \notin {"ask", "exit"} => granted # "ready"
        /\ pc = "ask" => \/ ctl.mode = "ready" /\ routingActive
                         \/ ctl.mode = "paused" /\ op = "prio"
        /\ pc = "exit" => Agree

LifecycleIInv ==
    /\ CallsInOrder
    /\ LeavesCancelled
    /\ ShutdownOrder
    /\ MarkedFirst
    /\ Between
    /\ GoingUp
    /\ GoingDown
    /\ Switching

-----------------------------------------------------------------------------
(* What the steps have in common.                                          *)

(* The lifecycle and the handlers leave the worker alone but for a command *)
(* that is offered to it.                                                  *)
Untouched == UNCHANGED <<workerVars, granted, cancelled, stopper>>
Offered ==
    ctl.st = "idle" /\ \E m \in {"ready", "paused"} : ctl' = [st |-> "offered", mode |-> m]

LEMMA LifecycleFrame ==
  ASSUME Lifecycle \/ Calls
  PROVE  Answered \/ (Untouched /\ UNCHANGED apiVars /\ (ctl' = ctl \/ Offered))
<1> USE DEF Untouched, Offered, Ask, Called, routeFrame, workerVars, callerVars,
            committerVars, channelVars, runVars, passVars, hookVars, boundVars
<1>1. CASE StartBegin
  BY <1>1 DEF StartBegin
<1>2. CASE ShutdownBegin
  BY <1>2 DEF ShutdownBegin
<1>3. CASE Switch
  BY <1>3 DEF Switch
<1>4. CASE Up
  BY <1>4 DEF Up
<1>5. CASE DnsUp
  BY <1>5 DEF DnsUp
<1>6. CASE GroupsUp
  BY <1>6 DEF GroupsUp
<1>7. CASE BatchUp
  BY <1>7 DEF BatchUp
<1>8. CASE Down
  BY <1>8 DEF Down
<1>9. CASE RulesDown
  BY <1>9 DEF RulesDown
<1>10. CASE BatchDown
  BY <1>10 DEF BatchDown
<1>11. CASE SetsDown
  BY <1>11 DEF SetsDown
<1>12. CASE DnsDown
  BY <1>12 DEF DnsDown
<1>13. CASE Release
  BY <1>13 DEF Release, RollBackPriority
<1>14. CASE Save
  BY <1>14 DEF Save, SavePriority, SaveEnabled, RollBackPriority
<1>15. CASE Resume
  BY <1>15 DEF Resume
<1>16. CASE Exit
  BY <1>16 DEF Exit
<1>17. CASE Calls
  BY <1>17 DEF Calls, SetEnabledTrue, SetEnabledFalse, SetDirectPriority
<1> QED
  BY <1>1, <1>2, <1>3, <1>4, <1>5, <1>6, <1>7, <1>8, <1>9, <1>10, <1>11, <1>12, <1>13, <1>14, <1>15, <1>16,
     <1>17 DEF Lifecycle

LEMMA EditFrame ==
  ASSUME Editing \/ NewEdits
  PROVE  /\ Untouched /\ UNCHANGED lockVars /\ ctl' = ctl
         /\ UNCHANGED <<routingActive, configEnabled, priority, shuttingDown, started>>
<1> USE DEF Untouched, apiFrame, workerVars, callerVars, stateVars, BeginEdit
<1>1. CASE AddGroupCheck
  BY <1>1 DEF AddGroupCheck
<1>2. CASE AddGroupEnable
  BY <1>2 DEF AddGroupEnable
<1>3. CASE PutGroupDisable
  BY <1>3 DEF PutGroupDisable
<1>4. CASE PutGroupRefused
  BY <1>4 DEF PutGroupRefused
<1>5. CASE PutGroupEnable
  BY <1>5 DEF PutGroupEnable
<1>6. CASE DeleteGroupRemove
  BY <1>6 DEF DeleteGroupRemove
<1>7. CASE RebuildSubscriptionGroups
  BY <1>7 DEF RebuildSubscriptionGroups
<1>8. CASE SaveByHandler
  BY <1>8 DEF SaveByHandler
<1>9. CASE \E g \in Groups : AddGroup(g) \/ PutGroup(g) \/ DeleteGroup(g)
  BY <1>9 DEF AddGroup, PutGroup, DeleteGroup
<1> QED
  BY <1>1, <1>2, <1>3, <1>4, <1>5, <1>6, <1>7, <1>8, <1>9 DEF Editing, NewEdits

-----------------------------------------------------------------------------
(* Types.                                                                  *)

TablesType ==
    /\ want \in SUBSET Chains
    /\ kernel \in [Families -> SUBSET Chains]
    /\ faults \in Nat

GroupsType ==
    /\ groups \subseteq Groups /\ enabled \subseteq Groups /\ ipsets \subseteq Groups
    /\ placed \in [Groups -> Priorities]

HolderType ==
    /\ op \in Ops
    /\ Mutating \/ pc \in {"begin", "ask", "switch", "save", "resume", "exit"}
    /\ todo \subseteq Groups /\ failed \in BOOLEAN
    /\ goal \in Priorities /\ previous \in Priorities /\ calls \in 0..MaxCalls

FlagsType ==
    /\ routingActive \in BOOLEAN /\ configEnabled \in BOOLEAN
    /\ priority \in Priorities /\ saved \in Priorities
    /\ shuttingDown \in BOOLEAN /\ started \in {"no", "running", "over"}

HandlerType ==
    /\ api \in [op : {"none", "add", "put", "delete"}, g : Chains,
                at : {"done", "stored", "active", "read", "off", "built"}]
    /\ edits \in 0..MaxEdits

LifecycleTypes == GroupsType /\ HolderType /\ FlagsType /\ HandlerType

LEMMA TypeParts ==
  LifecycleTypeOK <=> TypeOK /\ GroupsType /\ HolderType /\ FlagsType /\ HandlerType
BY DEF LifecycleTypeOK, GroupsType, HolderType, FlagsType, HandlerType

LEMMA TypesTogether ==
  ASSUME TypeInv', LifecycleTypes', EditsAGroup'
  PROVE  LifecycleInvType'
BY DEF LifecycleInvType, TypeInv, LifecycleTypeOK, LifecycleTypes, GroupsType, HolderType, FlagsType,
       HandlerType, Mutating

LEMMA TypesHoldApart ==
  ASSUME LifecycleInvType
  PROVE  TablesType /\ GroupsType /\ HolderType /\ FlagsType /\ HandlerType
BY TypeParts DEF LifecycleInvType, TypeOK, TablesType

(* Commits and edits of the rules keep the types of the tables.            *)
LEMMA CommitType ==
  ASSUME TablesType, NEW w \in SUBSET Chains, CommitTo(w) \/ CommitFails(w)
  PROVE  kernel' \in [Families -> SUBSET Chains] /\ faults' \in Nat
<1>1. CASE CommitTo(w)
  BY <1>1 DEF CommitTo, TablesType
<1>2. CASE CommitFails(w)
  <2>1. PICK part \in SUBSET Chains :
          kernel' = [f \in Families |-> (kernel[f] \ part) \cup (w \cap part)]
    BY <1>2 DEF CommitFails
  <2>2. \A f \in Families : (kernel[f] \ part) \cup (w \cap part) \in SUBSET Chains
    BY DEF TablesType
  <2> QED
    BY <1>2, <2>1, <2>2 DEF CommitFails, TablesType
<1> QED
  BY <1>1, <1>2

LEMMA EnableGroupsType ==
  ASSUME TablesType, GroupsType, FlagsType, NEW G \in SUBSET Groups, EnableGroups(G)
  PROVE  /\ want' \in SUBSET Chains
         /\ enabled' \subseteq Groups /\ ipsets' \subseteq Groups
         /\ placed' \in [Groups -> Priorities]
<1>1. want' \in SUBSET Chains /\ enabled' \subseteq Groups /\ ipsets' \subseteq Groups
  BY DEF EnableGroups, TablesType, GroupsType, Groups
<1>2. placed' \in [Groups -> Priorities]
  BY DEF EnableGroups, GroupsType, FlagsType
<1> QED
  BY <1>1, <1>2

LEMMA DisableGroupType ==
  ASSUME TablesType, GroupsType, NEW g \in Groups, DisableGroup(g)
  PROVE  TablesType' /\ enabled' \subseteq Groups /\ ipsets' \subseteq Groups
<1>1. CASE g \notin enabled
  BY <1>1 DEF DisableGroup, TablesType, GroupsType
<1>2. CASE g \in enabled
  <2>1. want' \in SUBSET Chains
    BY <1>2 DEF DisableGroup, TablesType
  <2>2. NoCommit \/ CommitTo(want') \/ CommitFails(want')
    BY <1>2 DEF DisableGroup
  <2>3. kernel' \in [Families -> SUBSET Chains] /\ faults' \in Nat
    BY <2>1, <2>2, CommitType DEF NoCommit, TablesType
  <2> QED
    BY <1>2, <2>1, <2>3 DEF DisableGroup, TablesType, GroupsType
<1> QED
  BY <1>1, <1>2

LEMMA EnableGroupType ==
  ASSUME TablesType, GroupsType, FlagsType, NEW g \in Groups, EnableGroup(g)
  PROVE  /\ TablesType'
         /\ enabled' \subseteq Groups /\ ipsets' \subseteq Groups
         /\ placed' \in [Groups -> Priorities]
<1>1. CASE g \in enabled
  BY <1>1 DEF EnableGroup, TablesType, GroupsType
<1>2. CASE g \notin enabled /\ EnableGroups({g}) /\ CommitTo(want')
  <2>1. want' \in SUBSET Chains
    BY <1>2, EnableGroupsType
  <2> QED
    BY <1>2, <2>1, EnableGroupsType, CommitType DEF TablesType
<1>3. CASE g \notin enabled /\ Fault /\ kernel' \in {kernel, [f \in Families |-> want']}
           /\ UNCHANGED <<want, enabled, ipsets, placed>>
  BY <1>3 DEF Fault, TablesType, GroupsType
<1> QED
  BY <1>1, <1>2, <1>3 DEF EnableGroup

LEMMA SameTypes ==
  ASSUME GroupsType, HolderType, FlagsType, HandlerType
  PROVE  /\ UNCHANGED groupVars => GroupsType'
         /\ UNCHANGED stateVars => FlagsType'
         /\ UNCHANGED apiVars => HandlerType'
BY DEF groupVars, stateVars, apiVars, GroupsType, FlagsType, HandlerType

(* The steps of bringing the routing up. *)
LEMMA BringUpTypes ==
  ASSUME LifecycleInvType, Up \/ DnsUp \/ GroupsUp \/ BatchUp
  PROVE  TablesType' /\ LifecycleTypes'
<1> USE TypesHoldApart, LifecycleAssumption DEF LifecycleTypes, routeFrame, apiVars
<1>1. CASE Up
  <2>1. TablesType'
    BY <1>1 DEF Up, tableVars, TablesType
  <2>2. GroupsType' /\ HandlerType'
    BY <1>1, SameTypes DEF Up, groupVars
  <2>3. HolderType'
    BY <1>1 DEF Up, HolderType, Mutating
  <2>4. FlagsType'
    BY <1>1 DEF Up, FlagsType
  <2> QED
    BY <2>1, <2>2, <2>3, <2>4
<1>2. CASE DnsUp
  <2>1. TablesType'
    <3>1. want' \in SUBSET Chains
      BY <1>2 DEF DnsUp, TablesType
    <3>2. CASE CommitTo(want')
      BY <3>1, <3>2, CommitType DEF TablesType
    <3>3. CASE Fault /\ kernel' \in {kernel, [f \in Families |-> want']}
      BY <3>1, <3>3 DEF Fault, TablesType
    <3> QED
      BY <1>2, <3>1, <3>2, <3>3 DEF DnsUp
  <2>2. GroupsType' /\ FlagsType' /\ HandlerType'
    BY <1>2, SameTypes DEF DnsUp, groupVars, stateVars
  <2>3. todo' \subseteq Groups /\ failed' \in BOOLEAN /\ pc' \in {"groups", "rules"}
    BY <1>2 DEF DnsUp, Rollback, GroupsType, HolderType
  <2>4. HolderType'
    BY <1>2, <2>3 DEF DnsUp, HolderType, Mutating
  <2> QED
    BY <2>1, <2>2, <2>4
<1>3. CASE GroupsUp
  <2>1. PICK G \in SUBSET Groups : EnableGroups(G)
    BY <1>3 DEF GroupsUp, HolderType
  <2>2. /\ want' \in SUBSET Chains
        /\ enabled' \subseteq Groups /\ ipsets' \subseteq Groups
        /\ placed' \in [Groups -> Priorities]
    BY <2>1, EnableGroupsType
  <2>3. kernel' = kernel /\ pc' = "commit" /\ todo' = todo
    BY <1>3 DEF GroupsUp
  <2>5. failed' \in {failed, TRUE} /\ (faults' = faults \/ Fault)
    BY <1>3 DEF GroupsUp
  <2>6. faults' \in Nat
    BY <2>5 DEF Fault, TablesType
  <2>7. failed' \in BOOLEAN
    BY <2>5 DEF HolderType
  <2>4. UNCHANGED <<routeFrame, routingActive>>
    BY <1>3 DEF GroupsUp
  <2> QED
    BY <2>2, <2>3, <2>4, <2>6, <2>7 DEF TablesType, GroupsType, HolderType, FlagsType, HandlerType, Mutating
<1>4. CASE BatchUp
  <2>1. TablesType'
    BY <1>4, CommitType DEF BatchUp, TablesType
  <2>2. GroupsType' /\ FlagsType' /\ HandlerType'
    BY <1>4, SameTypes DEF BatchUp, groupVars, stateVars
  <2>3. todo' = todo /\ failed' \in BOOLEAN /\ pc' \in {"release", "rules"}
    BY <1>4 DEF BatchUp, Rollback, HolderType
  <2>4. HolderType'
    BY <1>4, <2>3 DEF BatchUp, HolderType, Mutating
  <2> QED
    BY <2>1, <2>2, <2>4
<1> QED
  BY <1>1, <1>2, <1>3, <1>4

(* The steps of taking it down. *)
LEMMA TeardownTypes ==
  ASSUME LifecycleInvType, Down \/ RulesDown \/ BatchDown \/ SetsDown \/ DnsDown
  PROVE  TablesType' /\ LifecycleTypes'
<1> USE TypesHoldApart, LifecycleAssumption DEF LifecycleTypes, routeFrame, apiVars
<1>1. CASE Down
  <2>1. TablesType'
    BY <1>1 DEF Down, tableVars, TablesType
  <2>2. GroupsType' /\ HandlerType'
    BY <1>1, SameTypes DEF Down, groupVars
  <2>3. HolderType'
    BY <1>1 DEF Down, HolderType, Mutating
  <2>4. FlagsType'
    BY <1>1 DEF Down, FlagsType
  <2> QED
    BY <2>1, <2>2, <2>3, <2>4
<1>2. CASE RulesDown
  <2>1. TablesType'
    BY <1>2 DEF RulesDown, TablesType
  <2>3. GroupsType' /\ FlagsType' /\ HandlerType'
    BY <1>2, SameTypes DEF RulesDown, groupVars, stateVars
  <2>2. HolderType'
    BY <1>2 DEF RulesDown, GroupsType, HolderType, Mutating
  <2> QED
    BY <2>1, <2>2, <2>3
<1>3. CASE BatchDown
  <2>1. TablesType'
    BY <1>3, CommitType DEF BatchDown, TablesType
  <2>2. GroupsType' /\ FlagsType' /\ HandlerType'
    BY <1>3, SameTypes DEF BatchDown, groupVars, stateVars
  <2>3. failed' \in BOOLEAN
    BY <1>3 DEF BatchDown, HolderType
  <2>4. HolderType'
    BY <1>3, <2>3 DEF BatchDown, HolderType, Mutating
  <2> QED
    BY <2>1, <2>2, <2>4
<1>4. CASE SetsDown
  <2>1. TablesType' /\ FlagsType' /\ HandlerType'
    BY <1>4, SameTypes DEF SetsDown, TablesType, stateVars
  <2>2. GroupsType'
    BY <1>4 DEF SetsDown, GroupsType
  <2>3. HolderType'
    BY <1>4 DEF SetsDown, HolderType, Mutating
  <2> QED
    BY <2>1, <2>2, <2>3
<1>5. CASE DnsDown
  <2>1. want' \in SUBSET Chains /\ (NoCommit \/ CommitTo(want') \/ CommitFails(want'))
    BY <1>5 DEF DnsDown, TablesType
  <2>2. TablesType'
    BY <2>1, CommitType DEF NoCommit, TablesType
  <2>3. failed' \in BOOLEAN /\ pc' \in {"up", "release"} /\ routingActive' \in BOOLEAN
    BY <1>5 DEF DnsDown, HolderType
  <2>4. GroupsType' /\ HandlerType'
    BY <1>5, SameTypes DEF DnsDown, groupVars
  <2>5. HolderType' /\ FlagsType'
    BY <1>5, <2>3 DEF DnsDown, HolderType, FlagsType, Mutating
  <2> QED
    BY <2>2, <2>4, <2>5
<1> QED
  BY <1>1, <1>2, <1>3, <1>4, <1>5

(* The steps before and after, which leave the tables alone. *)
LEMMA HolderTypes ==
  ASSUME LifecycleInvType,
         StartBegin \/ ShutdownBegin \/ Switch \/ Release \/ Save \/ Resume \/ Exit \/ Answered \/ Calls
  PROVE  LifecycleTypes'
<1> USE TypesHoldApart, LifecycleAssumption DEF Ask, Ops, Mutating
<1>1. GroupsType' /\ HandlerType'
  <2>1. UNCHANGED <<groupVars, apiVars>>
    BY DEF StartBegin, ShutdownBegin, Switch, Release, Save, Resume, Exit, Answered, Calls, SetEnabledTrue,
           SetEnabledFalse, SetDirectPriority, Called
  <2> QED
    BY <2>1, SameTypes
<1>2. FlagsType'
  BY DEF StartBegin, ShutdownBegin, Switch, Release, Save, SavePriority, SaveEnabled, Resume, Exit, Answered,
         Calls, SetEnabledTrue, SetEnabledFalse, SetDirectPriority, Called, stateVars, HolderType, FlagsType
<1>3. HolderType'
  <2>1. CASE StartBegin
    BY <2>1 DEF StartBegin, HolderType
  <2>2. CASE ShutdownBegin
    BY <2>2 DEF ShutdownBegin, HolderType
  <2>3. CASE Switch
    BY <2>3 DEF Switch, HolderType
  <2>4. CASE Release
    BY <2>4 DEF Release, RollBackPriority, HolderType
  <2>5. CASE Save
    BY <2>5 DEF Save, SavePriority, SaveEnabled, RollBackPriority, HolderType
  <2>6. CASE Resume
    BY <2>6 DEF Resume, HolderType
  <2>7. CASE Exit
    BY <2>7 DEF Exit, HolderType
  <2>8. CASE Answered
    BY <2>8 DEF Answered, HolderType
  <2>9. CASE Calls
    <3>1. calls < MaxCalls /\ calls' = calls + 1 /\ todo' = {} /\ failed' = FALSE
      BY <2>9 DEF Calls, SetEnabledTrue, SetEnabledFalse, SetDirectPriority, Called
    <3>2. calls' \in 0..MaxCalls
      BY <3>1 DEF HolderType
    <3>3. op' \in {"enable", "disable", "prio"} /\ pc' \in {"up", "ask"}
      BY <2>9 DEF Calls, SetEnabledTrue, SetEnabledFalse, SetDirectPriority, Called
    <3>4. goal' \in Priorities /\ previous' \in Priorities
      BY <2>9 DEF Calls, SetEnabledTrue, SetEnabledFalse, SetDirectPriority, HolderType, FlagsType
    <3> QED
      BY <3>1, <3>2, <3>3, <3>4 DEF HolderType
  <2> QED
    BY <2>1, <2>2, <2>3, <2>4, <2>5, <2>6, <2>7, <2>8, <2>9
<1> QED
  BY <1>1, <1>2, <1>3 DEF LifecycleTypes

LEMMA HolderTables ==
  ASSUME LifecycleInvType,
         StartBegin \/ ShutdownBegin \/ Switch \/ Release \/ Save \/ Resume \/ Exit \/ Answered \/ Calls
  PROVE  TablesType'
<1>1. UNCHANGED <<want, kernel>> /\ (faults' = faults \/ Fault)
  BY DEF StartBegin, ShutdownBegin, Switch, Release, RollBackPriority, Save, SavePriority, SaveEnabled,
         Resume, Exit, Answered, SetModeReturn, Calls, SetEnabledTrue, SetEnabledFalse, SetDirectPriority,
         Called, committerVars, tableVars, boundVars
<1> QED
  BY <1>1, TypesHoldApart DEF TablesType, Fault

(* The handlers. *)
LEMMA EditTypes ==
  ASSUME LifecycleInvType, Editing \/ NewEdits
  PROVE  TablesType' /\ LifecycleTypes'
<1> USE TypesHoldApart, LifecycleAssumption DEF LifecycleTypes
<1>1. UNCHANGED <<lockVars, routingActive, configEnabled, priority, shuttingDown, started>>
  BY EditFrame
<1>2. HolderType'
  BY <1>1 DEF lockVars, HolderType, Mutating
<1>3. FlagsType' /\ edits' \in 0..MaxEdits
  BY <1>1 DEF FlagsType, HandlerType, Editing, NewEdits, AddGroupCheck, AddGroupEnable, PutGroupDisable,
     PutGroupRefused, PutGroupEnable, DeleteGroupRemove, AddGroup, PutGroup, DeleteGroup,
     RebuildSubscriptionGroups, SaveByHandler, BeginEdit, apiFrame, stateVars, apiVars
<1>4. ASSUME NEW g \in Groups PROVE g \in Chains
  BY DEF Groups
<1>5. api' \in [op : {"none", "add", "put", "delete"}, g : Chains,
                at : {"done", "stored", "active", "read", "off", "built"}]
  BY <1>4 DEF HandlerType, NoEdit, Editing, NewEdits, AddGroupCheck, AddGroupEnable, PutGroupDisable,
     PutGroupRefused, PutGroupEnable, DeleteGroupRemove, AddGroup, PutGroup, DeleteGroup,
     RebuildSubscriptionGroups, SaveByHandler
<1>6. ASSUME Editing PROVE TablesType' /\ GroupsType'
  <2>1. CASE AddGroupCheck \/ PutGroupRefused \/ DeleteGroupRemove
    BY <2>1 DEF AddGroupCheck, PutGroupRefused, DeleteGroupRemove, Fault, groupVars, tableVars,
                TablesType, GroupsType
  <2>2. ASSUME api.at # "done", EnableGroup(api.g), groups' = groups PROVE TablesType' /\ GroupsType'
    BY <2>2, EnableGroupType DEF GroupsType, LifecycleInvType, EditsAGroup
  <2>3. CASE AddGroupEnable \/ PutGroupEnable
    BY <2>2, <2>3 DEF AddGroupEnable, PutGroupEnable
  <2>4. CASE PutGroupDisable
    <3>1. api.g \in Groups /\ DisableGroup(api.g) /\ UNCHANGED <<groups, placed>>
      BY <2>4 DEF PutGroupDisable, LifecycleInvType, EditsAGroup
    <3> QED
      BY <3>1, DisableGroupType DEF GroupsType
  <2> QED
    BY <1>6, <2>1, <2>3, <2>4 DEF Editing
<1>7. ASSUME NEW g \in Groups, AddGroup(g) \/ PutGroup(g) \/ DeleteGroup(g)
      PROVE  TablesType' /\ GroupsType'
  <2>1. CASE AddGroup(g) \/ PutGroup(g)
    BY <2>1 DEF AddGroup, PutGroup, groupVars, tableVars, TablesType, GroupsType
  <2>2. CASE DeleteGroup(g)
    BY <2>2, DisableGroupType DEF DeleteGroup, GroupsType
  <2> QED
    BY <1>7, <2>1, <2>2
<1>8. ASSUME RebuildSubscriptionGroups PROVE TablesType' /\ GroupsType'
  <2>1. CASE ~routingActive
    BY <1>8, <2>1 DEF RebuildSubscriptionGroups, TablesType, GroupsType
  <2>2. CASE routingActive
    <3>1. PICK back \in SUBSET SubGroups :
            /\ faults' = faults \/ Fault
            /\ enabled' = (enabled \ SubGroups) \cup back
            /\ ipsets' = (ipsets \ SubGroups) \cup back
            /\ want' = (want \ SubGroups) \cup back
            /\ kernel' = [f \in Families |-> want']
            /\ placed' = [g \in Groups |-> IF g \in back THEN priority ELSE placed[g]]
            /\ groups' = groups
      BY <1>8, <2>2 DEF RebuildSubscriptionGroups
    <3>2. back \subseteq Groups /\ back \subseteq Chains
      BY DEF Groups
    <3>3. want' \in SUBSET Chains
      BY <3>1, <3>2 DEF TablesType
    <3>4. TablesType'
      BY <3>1, <3>3 DEF TablesType, Fault
    <3>5. GroupsType'
      BY <3>1, <3>2 DEF GroupsType, FlagsType
    <3> QED
      BY <3>4, <3>5
  <2> QED
    BY <2>1, <2>2
<1>9. ASSUME SaveByHandler PROVE TablesType' /\ GroupsType'
  BY <1>9 DEF SaveByHandler, groupVars, tableVars, TablesType, GroupsType
<1> QED
  BY <1>2, <1>3, <1>5, <1>6, <1>7, <1>8, <1>9 DEF HandlerType, NewEdits

LEMMA EditsAGroupStep ==
  ASSUME HandlerType, EditsAGroup, Lifecycle \/ Calls \/ Editing \/ NewEdits
  PROVE  EditsAGroup'
<1>1. CASE Lifecycle \/ Calls
  BY <1>1, LifecycleFrame DEF EditsAGroup, apiVars, Answered
<1>2. CASE Editing \/ NewEdits
  <2>1. api' \in {api, NoEdit} \/ (api'.g = api.g /\ api.at # "done") \/ api'.g \in Groups
    BY <1>2 DEF HandlerType, Editing, NewEdits, AddGroupCheck, AddGroupEnable, PutGroupDisable,
       PutGroupRefused,
       PutGroupEnable, DeleteGroupRemove, AddGroup, PutGroup, DeleteGroup, RebuildSubscriptionGroups,
       SaveByHandler
  <2> QED
    BY <2>1 DEF EditsAGroup, NoEdit
<1> QED
  BY <1>1, <1>2

(* The worker's variables, in a step that leaves them alone. *)
LEMMA UntouchedType ==
  ASSUME TypeInv, Untouched, TablesType', ctl' = ctl \/ Offered
  PROVE  TypeInv'
<1> USE DEF Untouched, workerVars, channelVars, runVars, passVars, hookVars
<1>1. BudgetLeft'
  BY DEF TypeInv, BudgetLeft
<1>2. ctl' \in [st : {"idle", "offered", "acked"}, mode : Modes]
  BY DEF TypeInv, TypeOK, Offered, Modes
<1>3. TypeOK'
  BY <1>2 DEF TypeInv, TypeOK, TablesType
<1> QED
  BY <1>1, <1>3 DEF TypeInv

LEMMA UntouchedIInv ==
  ASSUME IInv, Untouched, ctl' = ctl \/ Offered
  PROVE  IInv'
BY DEF IInv, PassNeedsReady, ModeLocals, AnswersMatch, AskedSincePause, Stopped, InPass, Offered,
       Untouched, workerVars, channelVars, runVars, passVars

(* The committer's own steps, and those of its environment. *)
LEMMA RewriteInv ==
  ASSUME TypeInv, IInv, NEW f \in Families, NEW T, FirmwareRewrite(f, T)
  PROVE  TypeInv' /\ IInv'
<1> USE DEF FirmwareRewrite, channelVars, runVars, passVars, callerVars
<1>1. kernel[f] \ T \in SUBSET Chains
  BY DEF TypeInv, TypeOK
<1>2. TypeInv'
  BY <1>1 DEF TypeInv, TypeOK, BudgetLeft
<1>3. IInv'
  BY DEF IInv, PassNeedsReady, ModeLocals, AnswersMatch, AskedSincePause, Stopped, InPass
<1> QED
  BY <1>2, <1>3

LEMMA CommitterInvStep ==
  ASSUME TypeInv, IInv, Committer
  PROVE  TypeInv' /\ IInv'
<1>1. CASE Run
  BY <1>1, RunType, RunIInv
<1>2. CASE (\E h \in Hooks : Handler(h)) \/ Stopping
  BY <1>2, OthersType, OthersIInv
<1>3. CASE \E f \in Families : \E T \in Wipes : FirmwareRewrite(f, T)
  BY <1>3, RewriteInv
<1> QED
  BY <1>1, <1>2, <1>3 DEF Committer, Stopping

LEMMA StutterInv ==
  ASSUME LifecycleInvType, IInv, UNCHANGED lifecycleVars
  PROVE  LifecycleInvType' /\ IInv'
<1>1. TypeInv' /\ IInv'
  BY StutterType, StutterIInv DEF LifecycleInvType, lifecycleVars
<1>2. LifecycleTypes' /\ EditsAGroup'
  BY TypesHoldApart DEF LifecycleInvType, EditsAGroup, LifecycleTypes, GroupsType, HolderType, FlagsType,
     HandlerType, Mutating, lifecycleVars, lockVars, stateVars, groupVars, apiVars
<1> QED
  BY <1>1, <1>2, TypesTogether

LEMMA LifecycleInvStep ==
  ASSUME LifecycleInvType, IInv, LifecycleNext
  PROVE  LifecycleInvType' /\ IInv'
<1>0. TypeInv /\ HandlerType /\ EditsAGroup
  BY TypesHoldApart DEF LifecycleInvType
<1>1. CASE Answered
  <2>1. Caller
    BY <1>1 DEF Answered, Caller
  <2>2. TypeInv' /\ IInv'
    BY <1>0, <2>1, OthersType, OthersIInv
  <2>3. LifecycleTypes' /\ EditsAGroup'
    BY <1>0, <1>1, HolderTypes, EditsAGroupStep DEF Lifecycle
  <2> QED
    BY <2>2, <2>3, TypesTogether
<1>2. CASE (Lifecycle \/ Calls \/ Editing \/ NewEdits) /\ ~Answered
  <2>1. Untouched /\ (ctl' = ctl \/ Offered)
    BY <1>2, LifecycleFrame, EditFrame
  <2>2. TablesType' /\ LifecycleTypes'
    BY <1>2, BringUpTypes, TeardownTypes, HolderTypes, HolderTables, EditTypes DEF Lifecycle
  <2>3. TypeInv' /\ IInv'
    BY <1>0, <2>1, <2>2, UntouchedType, UntouchedIInv
  <2>4. EditsAGroup'
    BY <1>0, <1>2, EditsAGroupStep
  <2> QED
    BY <2>2, <2>3, <2>4, TypesTogether
<1>3. CASE Committer
  <2>1. TypeInv' /\ IInv'
    BY <1>0, <1>3, CommitterInvStep
  <2>2. LifecycleTypes' /\ EditsAGroup'
    BY <1>0, <1>3, TypesHoldApart DEF Committer, EditsAGroup, LifecycleTypes, GroupsType, HolderType,
       FlagsType, HandlerType, Mutating, lockVars, stateVars, groupVars, apiVars
  <2> QED
    BY <2>1, <2>2, TypesTogether
<1> QED
  BY <1>1, <1>2, <1>3 DEF LifecycleNext

LEMMA LifecycleStart == LifecycleInit => LifecycleInvType /\ IInv
<1> SUFFICES ASSUME LifecycleInit PROVE LifecycleInvType /\ IInv
  OBVIOUS
<1>1. 1 \in Families /\ 1 \in 1..Attempts
  BY CommitterAssumption DEF Families
<1>2. TypeInv
  BY <1>1, NoPlanType, CommitterAssumption
  DEF LifecycleInit, CommitterInit, TypeInv, TypeOK, BudgetLeft, Modes
<1>3. IInv
  BY DEF LifecycleInit, CommitterInit, IInv, PassNeedsReady, ModeLocals, AnswersMatch, AskedSincePause,
         Stopped, InPass
<1>4. GroupsType /\ FlagsType /\ EditsAGroup
  BY LifecycleAssumption DEF LifecycleInit, NoEdit, EditsAGroup, GroupsType, FlagsType, Priorities
<1>7. calls \in 0..MaxCalls
  BY LifecycleAssumption DEF LifecycleInit
<1>5. HolderType
  BY <1>7 DEF LifecycleInit, HolderType, Priorities, Ops
<1>6. HandlerType
  BY LifecycleAssumption DEF LifecycleInit, NoEdit, HandlerType
<1> QED
  BY <1>2, <1>3, <1>4, <1>5, <1>6, TypeParts DEF LifecycleInvType, TypeInv, LifecycleTypes

(* What was proved of the committer alone holds when its caller is the     *)
(* lifecycle and its rules change.                                         *)
LEMMA LifecycleTyped == LifecycleSpec => [](LifecycleInvType /\ IInv)
<1>1. LifecycleInvType /\ IInv /\ [LifecycleNext]_lifecycleVars => (LifecycleInvType /\ IInv)'
  BY LifecycleInvStep, StutterInv
<1> QED
  BY <1>1, LifecycleStart, PTL DEF LifecycleSpec

(* Every variable of the lifecycle, of the handlers and of the committer   *)
(* they share keeps its type.                                              *)
THEOREM LifecycleTypeCorrect == LifecycleSpec => []LifecycleTypeOK
<1>1. LifecycleInvType => LifecycleTypeOK
  BY DEF LifecycleInvType
<1> QED
  BY <1>1, LifecycleTyped, PTL

-----------------------------------------------------------------------------
(* The lifecycle's steps keep LifecycleIInv.                               *)

(* The steps of bringing the routing up or down leave the committer alone. *)
LEMMA RoutingIInv ==
  ASSUME LifecycleInvType, LifecycleIInv,
         Up \/ DnsUp \/ GroupsUp \/ BatchUp \/ Down \/ RulesDown \/ BatchDown \/ SetsDown \/ DnsDown
  PROVE  LifecycleIInv'
<1> USE DEF LifecycleIInv, CallsInOrder, LeavesCancelled, ShutdownOrder, MarkedFirst, Between, Agree,
GoingUp, GoingDown,
            Switching, Teardown, BringUp
<1>1. UNCHANGED <<op, shuttingDown, started, workerVars, callerVars>>
  BY DEF Up, DnsUp, GroupsUp, BatchUp, Down, RulesDown, BatchDown, SetsDown, DnsDown, routeFrame
<1>2. UNCHANGED <<op, shuttingDown, started, mode, worker, ctl, granted, cancelled, stopper>>
  BY <1>1 DEF workerVars, callerVars, runVars, passVars
<1>3. op \in Ops /\ failed \in BOOLEAN /\ routingActive \in BOOLEAN
  BY TypesHoldApart DEF HolderType, FlagsType
<1>4. CASE Up
  BY <1>2, <1>3, <1>4 DEF Up, Ops
<1>5. CASE DnsUp
  BY <1>2, <1>3, <1>5 DEF DnsUp, Rollback, Ops
<1>6. CASE GroupsUp
  BY <1>2, <1>3, <1>6 DEF GroupsUp, Ops
<1>7. CASE BatchUp
  BY <1>2, <1>3, <1>7 DEF BatchUp, Rollback, Ops
<1>8. CASE Down
  BY <1>2, <1>3, <1>8 DEF Down, Ops
<1>9. CASE RulesDown
  BY <1>2, <1>3, <1>9 DEF RulesDown, Ops
<1>10. CASE BatchDown
  BY <1>2, <1>3, <1>10 DEF BatchDown, Ops
<1>11. CASE SetsDown
  BY <1>2, <1>3, <1>11 DEF SetsDown, Ops
<1>12. CASE DnsDown
  BY <1>2, <1>3, <1>12 DEF DnsDown, Ops
<1> QED
  BY <1>4, <1>5, <1>6, <1>7, <1>8, <1>9, <1>10, <1>11, <1>12

(* The steps before and after take the lock, ask the committer, or let go. *)
LEMMA HolderIInv ==
  ASSUME LifecycleInvType, LifecycleIInv, IInv,
         StartBegin \/ ShutdownBegin \/ Switch \/ Release \/ Save \/ Resume \/ Exit \/ Calls
  PROVE  LifecycleIInv'
<1> USE DEF LifecycleIInv, CallsInOrder, LeavesCancelled, ShutdownOrder, MarkedFirst, Between, Agree,
GoingUp, GoingDown,
            Switching, Teardown, BringUp
<1>1. UNCHANGED <<mode, worker, granted, cancelled, stopper>> /\ (ctl' = ctl \/ Offered)
  BY LifecycleFrame DEF Lifecycle, Untouched, workerVars, runVars, passVars, Answered, StartBegin,
     ShutdownBegin,
     Switch, Release, RollBackPriority, Save, SavePriority, SaveEnabled, Resume, Exit, Calls, SetEnabledTrue,
     SetEnabledFalse, SetDirectPriority, Called, Ask, callerVars, committerVars, SetModeReturn
<1>2. op \in Ops /\ failed \in BOOLEAN /\ routingActive \in BOOLEAN
  BY TypesHoldApart DEF HolderType, FlagsType
<1>3. CASE StartBegin
  BY <1>1, <1>2, <1>3 DEF StartBegin, Ask, stateVars, Ops
<1>4. CASE ShutdownBegin
  BY <1>1, <1>2, <1>4 DEF ShutdownBegin, callerVars
<1>5. CASE Switch
  BY <1>1, <1>2, <1>5 DEF Switch, committerVars, callerVars
<1>6. CASE Release
  BY <1>1, <1>2, <1>6 DEF Release, Ask, RollBackPriority, stateVars
<1>7. CASE Save
  BY <1>1, <1>2, <1>7 DEF Save, SavePriority, SaveEnabled, RollBackPriority
<1>8. CASE Resume
  BY <1>1, <1>2, <1>8 DEF Resume, Ask, stateVars
<1>9. CASE Exit
  BY <1>1, <1>2, <1>9 DEF Exit, committerVars, callerVars, Ops
<1>10. CASE Calls
  BY <1>1, <1>2, <1>10 DEF Calls, SetEnabledTrue, SetEnabledFalse, SetDirectPriority, Called, Ask, stateVars
<1> QED
  BY <1>3, <1>4, <1>5, <1>6, <1>7, <1>8, <1>9, <1>10

(* setMode returns. *)
LEMMA AnsweredIInv ==
  ASSUME LifecycleInvType, LifecycleIInv, Answered
  PROVE  LifecycleIInv'
<1>1. UNCHANGED <<op, failed, routingActive, shuttingDown, started, mode, worker, cancelled, stopper>>
  BY DEF Answered, SetModeReturn, runVars, passVars, stateVars
<1>2. pc = "ask" /\ granted' = ctl.mode /\ ctl'.st = "idle" /\ ctl'.mode = ctl.mode
  BY DEF Answered, SetModeReturn, LifecycleInvType, TypeInv, TypeOK
<1>3. pc' = CASE ctl.mode = "paused" /\ op = "disable" -> "down"
              [] ctl.mode = "paused" /\ op = "prio" -> "switch"
              [] ctl.mode = "ready" /\ op = "enable" -> "save"
              [] OTHER -> "exit"
  BY DEF Answered
<1>4. op \in Ops
  BY TypesHoldApart DEF HolderType
<1> QED
  BY <1>1, <1>2, <1>3, <1>4 DEF LifecycleIInv, CallsInOrder, LeavesCancelled, ShutdownOrder, MarkedFirst,
     Between, Agree,
     GoingUp, GoingDown, Switching, Teardown, BringUp, Ops

(* An edit changes neither the holder's state nor the committer's. *)
LEMMA EditIInv ==
  ASSUME LifecycleIInv, Editing \/ NewEdits
  PROVE  LifecycleIInv'
BY EditFrame DEF Untouched, lockVars, workerVars, runVars, passVars, LifecycleIInv, CallsInOrder,
   LeavesCancelled,
   ShutdownOrder, MarkedFirst, Between, Agree, GoingUp, GoingDown, Switching

(* The worker exits only when cancelled, takes only modes the lifecycle    *)
(* asks for, and only reads its command.                                   *)
LEMMA WorkerStep ==
  ASSUME TypeInv, CallsInOrder, LeavesCancelled, Run
  PROVE  /\ UNCHANGED <<granted, cancelled, stopper>>
         /\ LeavesCancelled'
         /\ mode' \in {mode, ctl.mode}
         /\ ctl'.mode = ctl.mode /\ (ctl'.st = "idle" <=> ctl.st = "idle")
<1> USE DEF callerVars, runVars, LeavesCancelled, CallsInOrder
<1>1. CASE SelectDone
  BY <1>1 DEF SelectDone
<1>2. CASE SelectCmd
  BY <1>2 DEF SelectCmd, passVars, TypeInv, TypeOK
<1>3. CASE SelectReq \/ SelectReconcile
  BY <1>3 DEF SelectReq, SelectReconcile, Leave, Latch, Drop, BeginPass, passVars
<1>4. CASE Snapshot \/ Restore \/ Pause \/ Panic
  <2>1. UNCHANGED <<mode, callerVars>> /\ worker # "exited"
    BY <1>4 DEF Snapshot, Restore, Pause, Panic
  <2>2. ASSUME NEW err, PassReturns(err) PROVE worker' = "exited" => cancelled
    BY <2>2 DEF PassReturns
  <2>3. ASSUME NEW ok, FamilyReturns(ok) PROVE worker' = "exited" => cancelled
    BY <2>2, <2>3 DEF FamilyReturns, NextFamily, LastFamily
  <2>4. worker' = "exited" => cancelled
    BY <1>4, <2>2, <2>3 DEF Snapshot, FirstAttemptCancelled, SaveFails, SaveFindsNothing, SaveFindsDelta,
       Restore, RestoreApplied, RestoreRefused, AttemptFailed, Pause, PauseCancelled, PauseWoken, PauseTimer,
       Panic
  <2> QED
    BY <2>1, <2>4
<1> QED
  BY <1>1, <1>2, <1>3, <1>4 DEF Run

LEMMA CommitterIInv ==
  ASSUME LifecycleInvType, LifecycleIInv, Committer
  PROVE  LifecycleIInv'
<1>1. UNCHANGED <<op, pc, failed, routingActive, shuttingDown, started>>
  BY DEF Committer, lockVars, stateVars
<1>2. /\ granted' = granted /\ LeavesCancelled'
      /\ stopper = "stopped" => stopper' = "stopped"
      /\ mode' \in {mode, ctl.mode}
      /\ ctl'.mode = ctl.mode /\ (ctl'.st = "idle" <=> ctl.st = "idle")
  <2>1. CASE Run
    BY <2>1, WorkerStep DEF LifecycleInvType, LifecycleIInv
  <2>2. CASE ~Run
    BY <2>2 DEF Committer, Handler, HookStart, RequestReq, RequestWake, FirmwareRewrite, CancelContext,
       StopCall,
       StopReturn, callerVars, runVars, passVars, LifecycleIInv, LeavesCancelled
  <2> QED
    BY <2>1, <2>2
<1> QED
  BY <1>1, <1>2 DEF LifecycleIInv, CallsInOrder, ShutdownOrder, MarkedFirst, Between, Agree, GoingUp,
     GoingDown, Switching

(* LifecycleIInv holds in every state. *)
LEMMA LifecycleInductive == LifecycleSpec => [](LifecycleInvType /\ IInv /\ LifecycleIInv)
<1>1. LifecycleInit => LifecycleIInv
  BY DEF LifecycleInit, CommitterInit, LifecycleIInv, CallsInOrder, LeavesCancelled, ShutdownOrder,
     MarkedFirst, Between, Agree,
     GoingUp, GoingDown, Switching, Teardown, BringUp
<1>2. LifecycleInvType /\ IInv /\ LifecycleIInv /\ [LifecycleNext]_lifecycleVars => LifecycleIInv'
  <2>1. ASSUME LifecycleInvType, IInv, LifecycleIInv, LifecycleNext
        PROVE  LifecycleIInv'
    BY <2>1, RoutingIInv, HolderIInv, AnsweredIInv, EditIInv, CommitterIInv DEF LifecycleNext, Lifecycle
  <2>2. ASSUME LifecycleIInv, UNCHANGED lifecycleVars
        PROVE  LifecycleIInv'
    BY <2>2 DEF lifecycleVars, committerVars, lockVars, stateVars, runVars, passVars, callerVars,
       LifecycleIInv,
       CallsInOrder, LeavesCancelled, ShutdownOrder, MarkedFirst, Between, Agree, GoingUp, GoingDown,
       Switching
  <2> QED
    BY <2>1, <2>2
<1> QED
  BY <1>1, <1>2, LifecycleTyped, PTL DEF LifecycleSpec

(* Between lifecycle calls the committer repairs exactly while the routing *)
(* is up, and no pass runs while anybody takes the rules down: setMode     *)
(* comes first in SetEnabled(false) and SetDirectPriority, a failed        *)
(* bring-up has never made it ready, and stop() is over before the         *)
(* shutdown begins (app.go:740).                                           *)
THEOREM CommitterIsInStep == LifecycleSpec => []CommitterFollowsRouting
<1>1. LifecycleInvType /\ IInv /\ LifecycleIInv => CommitterFollowsRouting
  <2> SUFFICES ASSUME LifecycleInvType, IInv, LifecycleIInv PROVE CommitterFollowsRouting
    OBVIOUS
  <2>1. ASSUME op = "none", started = "running", ~cancelled
        PROVE  mode = "ready" <=> routingActive
    <3>1. ~shuttingDown /\ pc = "begin" /\ (granted = "ready" <=> routingActive)
      BY <2>1 DEF LifecycleIInv, ShutdownOrder, Between, Agree
    <3>2. ctl.st = "idle" /\ worker # "exited"
      BY <2>1, <3>1 DEF LifecycleIInv, CallsInOrder, LeavesCancelled
    <3> QED
      BY <3>1, <3>2 DEF IInv, AnswersMatch
  <2>2. ASSUME pc \in Teardown
        PROVE  ~InPass
    <3>1. ctl.st = "idle"
      BY <2>2 DEF LifecycleIInv, CallsInOrder, Teardown
    <3>2. op \in Ops \ {"none"}
      BY <2>2, TypesHoldApart DEF HolderType, LifecycleIInv, Between, Teardown
    <3>3. CASE op = "shutdown"
      BY <3>3 DEF LifecycleIInv, ShutdownOrder, IInv, Stopped, InPass
    <3>4. CASE op # "shutdown"
      <4>1. granted # "ready"
        BY <2>2, <3>2, <3>4 DEF LifecycleIInv, GoingUp, GoingDown, Switching, Teardown, Ops
      <4>2. worker = "exited" \/ mode # "ready"
        BY <3>1, <4>1 DEF IInv, AnswersMatch
      <4> QED
        BY <4>2 DEF IInv, PassNeedsReady, InPass
    <3> QED
      BY <3>3, <3>4
  <2> QED
    BY <2>1, <2>2 DEF CommitterFollowsRouting, Teardown
<1> QED
  BY <1>1, LifecycleInductive, PTL

(* A handler that is already running when the daemon stops never brings    *)
(* the routing up again: SetEnabled(true) looks at shuttingDown under      *)
(* lifecycleMu.                                                            *)
THEOREM EnableIsRefused == LifecycleSpec => EnableRespectsShutdown
<1>1. LifecycleIInv => [shuttingDown /\ routingActive' => routingActive \/ op # "enable"]_lifecycleVars
  BY DEF LifecycleIInv, ShutdownOrder
<1> QED
  BY <1>1, LifecycleInductive, PTL DEF EnableRespectsShutdown

-----------------------------------------------------------------------------
(* The contract of setMode() and stop(), with the lifecycle as the caller. *)

LEMMA AskKeepsContract ==
  ASSUME TypeInv, Untouched, ctl' = ctl \/ Offered
  PROVE  Contract!ContractNext \/ UNCHANGED <<Told, InPass>>
<1>1. UNCHANGED <<InPass, stopper, granted>>
  BY DEF Untouched, workerVars, passVars, InPass
<1>2. CASE ctl' = ctl \/ stopper = "stopped"
  BY <1>1, <1>2 DEF Told
<1>3. CASE Offered /\ stopper # "stopped"
  <2>1. Told' = "asking" /\ Told = granted
    BY <1>1, <1>3 DEF Offered, Told
  <2>2. Told # "over"
    BY <2>1 DEF TypeInv, TypeOK, Modes
  <2> QED
    BY <1>1, <2>1, <2>2 DEF Contract!ContractNext, Contract!Ask
<1> QED
  BY <1>2, <1>3

(* What the lifecycle relies on when it takes rules down is kept by the    *)
(* committer however the lifecycle, the handlers, the firmware and the end *)
(* of the daemon drive it.                                                 *)
THEOREM LifecycleKeepsContract == LifecycleSpec => ImplementsContract
<1>1. LifecycleInit => Contract!ContractInit
  BY DEF LifecycleInit, CommitterInit, Contract!ContractInit, Told, InPass
<1>2. ASSUME LifecycleInvType, IInv, IInv', [LifecycleNext]_lifecycleVars
      PROVE  Contract!ContractNext \/ UNCHANGED <<Told, InPass>>
  <2> USE <1>2 DEF LifecycleInvType
  <2>1. CASE Answered
    BY <2>1, ContractOthers DEF Answered, Caller
  <2>2. CASE Editing \/ NewEdits \/ ((Lifecycle \/ Calls) /\ ~Answered)
    BY <2>2, LifecycleFrame, EditFrame, AskKeepsContract
  <2>3. CASE Committer
    <3>1. CASE Run
      BY <3>1, ContractRun
    <3>2. CASE (\E h \in Hooks : Handler(h)) \/ Stopping
      BY <3>2, ContractOthers
    <3>3. CASE \E f \in Families : \E T \in Wipes : FirmwareRewrite(f, T)
      BY <3>3 DEF FirmwareRewrite, passVars, callerVars, Told, InPass
    <3> QED
      BY <2>3, <3>1, <3>2, <3>3 DEF Committer, Stopping
  <2>4. CASE UNCHANGED lifecycleVars
    BY <2>4 DEF lifecycleVars, committerVars, passVars, callerVars, Told, InPass
  <2> QED
    BY <2>1, <2>2, <2>3, <2>4 DEF LifecycleNext
<1>3. LifecycleInvType /\ IInv /\ IInv' /\ [LifecycleNext]_lifecycleVars
        => [Contract!ContractNext]_(Contract!contractVars)
  BY <1>2 DEF Contract!contractVars
<1> QED
  BY <1>1, <1>3, LifecycleTyped, PTL DEF LifecycleSpec, ImplementsContract, Contract!ContractSpec

-----------------------------------------------------------------------------
(* No group is missed.                                                     *)

(* A handler that holds cfgMu is working on g. *)
Pending(g) == api.op # "none" /\ api.g = g

(* A group whose flag is set has its ipset, and its chain in the rules,    *)
(* but for those that phase 1 of a teardown has just unlinked.             *)
EnabledIsWhole ==
    /\ enabled \subseteq ipsets
    /\ (IF pc \in {"unlink", "sets"} THEN enabled \ todo ELSE enabled) \subseteq want

(* Every group of the list is in G or in the hands of its handler. *)
Covered(G) ==
    /\ DNSOR \in want
    /\ \A g \in groups : g \in G \/ Pending(g)

(* bringUpRouting marks the routing active before it reads the list, and   *)
(* AddGroup appends to the list before it asks whether the routing is      *)
(* active: from either side nobody is missed.                              *)
NobodyMissed ==
    faults = 0 =>
        /\ pc = "groups" => Covered(todo)
        /\ pc = "commit" /\ ~failed => Covered(enabled)
        /\ routingActive /\ pc \notin BringUp \cup Teardown => Covered(enabled)

(* Of the handlers only DeleteGroup takes a group down while a batch runs. *)
DeletesNothing ==
    /\ api.op # "delete"
    /\ api.at # "done" => api.op # "none"

MissedInv == EnabledIsWhole /\ NobodyMissed /\ DeletesNothing

(* The steps before and after the routing is brought up or down. *)
LEMMA HolderFrame ==
  ASSUME LifecycleInvType, LifecycleIInv,
         StartBegin \/ ShutdownBegin \/ Switch \/ Release \/ Save \/ Resume \/ Exit \/ Answered \/ Calls
  PROVE  /\ UNCHANGED <<want, groupVars, apiVars, routingActive>>
         /\ kernel' = kernel /\ (faults' = faults \/ Fault)
         /\ pc \notin BringUp \cup Teardown /\ pc' \notin BringUp \cup Teardown
<1> USE DEF Teardown, BringUp, LifecycleIInv, Between
<1>1. CASE Calls
  BY <1>1 DEF Calls, SetEnabledTrue, SetEnabledFalse, SetDirectPriority, Called, Ask, stateVars, tableVars
<1>2. CASE StartBegin \/ ShutdownBegin \/ Switch \/ Release \/ Save \/ Resume \/ Exit
  BY <1>2 DEF StartBegin, ShutdownBegin, Switch, Release, RollBackPriority, Save, SavePriority, SaveEnabled,
     Resume, Exit, Ask, stateVars, committerVars, tableVars, boundVars
<1>3. CASE Answered
  BY <1>3 DEF Answered, SetModeReturn, stateVars, tableVars, boundVars
<1> QED
  BY <1>1, <1>2, <1>3

LEMMA MissedByHolder ==
  ASSUME LifecycleInvType, LifecycleIInv, MissedInv,
         StartBegin \/ ShutdownBegin \/ Switch \/ Release \/ Save \/ Resume \/ Exit \/ Answered \/ Calls
  PROVE  MissedInv'
<1>1. faults' = 0 => faults = 0
  BY HolderFrame, TypesHoldApart DEF Fault, TablesType
<1> QED
  BY <1>1, HolderFrame DEF MissedInv, EnabledIsWhole, NobodyMissed, DeletesNothing, Covered, Pending,
     groupVars,
     apiVars, BringUp, Teardown

(* The committer touches neither the rules in memory nor the groups. *)
LEMMA CommitterFrame ==
  ASSUME LifecycleInvType, Committer \/ UNCHANGED lifecycleVars
  PROVE  /\ want' = want /\ (faults' = 0 => faults = 0)
         /\ UNCHANGED <<lockVars, stateVars, groupVars, apiVars>>
<1>1. want' = want
  <2>1. CASE Run
    BY <2>1 DEF Run, SelectDone, SelectCmd, SelectReq, SelectReconcile, Snapshot, Restore, Pause, Panic,
       tableVars
  <2>2. CASE ~Run
    BY <2>2 DEF Committer, Handler, HookStart, RequestReq, RequestWake, FirmwareRewrite, CancelContext,
       StopCall,
       StopReturn, tableVars, lifecycleVars, committerVars
  <2> QED
    BY <2>1, <2>2
<1>2. faults' = 0 => faults = 0
  <2>1. CASE Run
    <3>1. CASE SelectDone \/ SelectCmd \/ SelectReq \/ SelectReconcile \/ Pause
      BY <3>1 DEF SelectDone, SelectCmd, SelectReq, SelectReconcile, Pause, boundVars
    <3>2. CASE Snapshot \/ Restore \/ Panic
      <4>1. faults' = faults \/ Fault
        BY <3>2 DEF Snapshot, FirstAttemptCancelled, SaveFails, SaveFindsNothing, SaveFindsDelta, Restore,
           RestoreApplied, RestoreRefused, Panic, Fault
      <4> QED
        BY <4>1, TypesHoldApart DEF Fault, TablesType
    <3> QED
      BY <2>1, <3>1, <3>2 DEF Run
  <2>2. CASE ~Run
    BY <2>2 DEF Committer, Handler, HookStart, RequestReq, RequestWake, FirmwareRewrite, CancelContext,
       StopCall,
       StopReturn, boundVars, lifecycleVars, committerVars
  <2> QED
    BY <2>1, <2>2
<1> QED
  BY <1>1, <1>2 DEF Committer, lifecycleVars

LEMMA MissedByCommitter ==
  ASSUME LifecycleInvType, MissedInv, Committer \/ UNCHANGED lifecycleVars
  PROVE  MissedInv'
BY CommitterFrame DEF MissedInv, EnabledIsWhole, NobodyMissed, DeletesNothing, Covered, Pending, lockVars,
   stateVars, groupVars, apiVars

(* Bringing up: the batch enables every group it found, or has failed. *)
LEMMA MissedByBringUp ==
  ASSUME LifecycleInvType, LifecycleIInv, MissedInv, Up \/ DnsUp \/ GroupsUp \/ BatchUp
  PROVE  MissedInv'
<1> USE DEF MissedInv
<1>1. faults \in Nat /\ enabled \subseteq Groups /\ groups \subseteq Groups /\ failed \in BOOLEAN
  BY TypesHoldApart DEF TablesType, GroupsType, HolderType
<1>2. api' = api /\ DeletesNothing'
  BY DEF Up, DnsUp, GroupsUp, BatchUp, routeFrame, apiVars, DeletesNothing
<1>3. groups' = groups
  BY DEF Up, DnsUp, GroupsUp, BatchUp, routeFrame
<1>4. CASE Up
  BY <1>1, <1>2, <1>3, <1>4 DEF Up, tableVars, EnabledIsWhole, NobodyMissed, Covered, Pending, BringUp,
     Teardown
<1>5. CASE DnsUp
  <2>1. EnabledIsWhole'
    BY <1>1, <1>5, LifecycleAssumption DEF DnsUp, Rollback, EnabledIsWhole, Groups
  <2>2. pc' = "groups" => DNSOR \in want' /\ todo' = groups
    BY <1>5 DEF DnsUp, Rollback
  <2>3. pc' \in {"groups", "rules"}
    BY <1>5 DEF DnsUp, Rollback
  <2> QED
    BY <1>2, <1>3, <2>1, <2>2, <2>3 DEF NobodyMissed, Covered, BringUp, Teardown
<1>6. CASE GroupsUp
  <2>1. PICK G \in SUBSET Groups : EnableGroups(G)
    BY <1>6, TypesHoldApart DEF GroupsUp, HolderType
  <2>2. pc = "groups" /\ pc' = "commit"
    BY <1>6 DEF GroupsUp
  <2>3. EnabledIsWhole'
    BY <2>1, <2>2 DEF EnableGroups, EnabledIsWhole
  <2>4. ASSUME ~failed' PROVE EnableGroups(todo \ enabled) /\ faults' = faults
    BY <1>6, <2>4 DEF GroupsUp
  <2>5. faults' = faults \/ Fault
    BY <1>6 DEF GroupsUp
  <2>6. ASSUME faults' = 0, ~failed' PROVE Covered(enabled)'
    <3>1. Covered(todo)
      BY <2>2, <2>4, <2>6 DEF NobodyMissed
    <3> QED
      BY <1>2, <1>3, <2>4, <2>6, <3>1 DEF EnableGroups, Covered, Pending
  <2> QED
    BY <1>2, <2>2, <2>3, <2>6 DEF NobodyMissed, BringUp
<1>7. CASE BatchUp
  <2>1. pc = "commit" /\ pc' \in {"release", "rules"} /\ UNCHANGED <<enabled, ipsets, want>>
    BY <1>7 DEF BatchUp, Rollback
  <2>2. pc' = "release" => ~failed /\ faults' = faults
    BY <1>7 DEF BatchUp, CommitTo, Rollback
  <2> QED
    BY <1>2, <1>3, <2>1, <2>2 DEF EnabledIsWhole, NobodyMissed, Covered, Pending, Teardown
<1> QED
  BY <1>4, <1>5, <1>6, <1>7

(* Taking down: phase 1 unlinks groups of the list only, phase 2 clears    *)
(* the flags of exactly those.                                             *)
LEMMA MissedByTeardown ==
  ASSUME LifecycleInvType, LifecycleIInv, MissedInv, Down \/ RulesDown \/ BatchDown \/ SetsDown \/ DnsDown
  PROVE  MissedInv'
<1> USE DEF MissedInv
<1>1. enabled \subseteq Groups
  BY TypesHoldApart DEF GroupsType
<1>2. DeletesNothing'
  BY DEF Down, RulesDown, BatchDown, SetsDown, DnsDown, routeFrame, apiVars, DeletesNothing
<1>3. EnabledIsWhole'
  BY <1>1, LifecycleAssumption DEF Down, RulesDown, BatchDown, SetsDown, DnsDown, tableVars, EnabledIsWhole,
     Groups
<1>4. NobodyMissed'
  BY DEF Down, RulesDown, BatchDown, SetsDown, DnsDown, NobodyMissed, BringUp, Teardown
<1> QED
  BY <1>2, <1>3, <1>4

(* Group.Enable puts the group up, and without a fault it does not fail. *)
LEMMA EnableGroupDoes ==
  ASSUME LifecycleInvType, EnabledIsWhole, NEW g \in Groups, EnableGroup(g), pc' = pc, todo' = todo
  PROVE  /\ EnabledIsWhole'
         /\ ~Mutating
         /\ enabled \subseteq enabled' /\ want \subseteq want'
         /\ (faults' = faults /\ g \in enabled') \/ Fault
<1>1. CASE g \in enabled
  BY <1>1 DEF EnableGroup, EnabledIsWhole
<1>2. CASE EnableGroups({g}) /\ CommitTo(want')
  BY <1>2 DEF EnableGroup, EnableGroups, CommitTo, EnabledIsWhole
<1>3. CASE Fault /\ UNCHANGED <<want, enabled, ipsets, placed>>
  BY <1>3 DEF EnableGroup, EnabledIsWhole
<1> QED
  BY <1>1, <1>2, <1>3 DEF EnableGroup

(* Group.Disable outside a batch takes down that group only, and without a *)
(* fault its ipset goes too: no rule of the kernel refers to it any more.  *)
LEMMA DisableGroupDoes ==
  ASSUME LifecycleInvType, EnabledIsWhole, NEW g \in Groups, DisableGroup(g), ~Mutating, pc' = pc, todo' = todo
  PROVE  /\ EnabledIsWhole'
         /\ enabled \ {g} \subseteq enabled' /\ want \ {g} \subseteq want'
         /\ (faults' = faults /\ ~DisableFailed(g)) \/ Fault
<1>1. CASE g \notin enabled
  BY <1>1 DEF DisableGroup, DisableFailed, EnabledIsWhole
<1>2. CASE g \in enabled
  <2>1. /\ want' = want \ {g} /\ enabled' = enabled \ {g}
        /\ CommitTo(want') \/ CommitFails(want')
        /\ ipsets' = ipsets \ ({g} \ Busy({g}))
    BY <1>2 DEF DisableGroup, Mutating, Deferred
  <2>2. EnabledIsWhole'
    BY <2>1 DEF EnabledIsWhole
  <2>3. CASE CommitTo(want')
    <3>1. Busy({g}) = {}
      BY <2>1, <2>3 DEF CommitTo, Busy
    <3> QED
      BY <2>1, <2>2, <2>3, <3>1 DEF CommitTo, DisableFailed
  <2>4. CASE CommitFails(want')
    BY <2>1, <2>2, <2>4 DEF CommitFails, Fault
  <2> QED
    BY <2>1, <2>3, <2>4
<1> QED
  BY <1>1, <1>2

LEMMA MissedByEdit ==
  ASSUME "delete" \notin Edits, LifecycleInvType, LifecycleIInv, MissedInv, Editing \/ NewEdits
  PROVE  MissedInv'
<1> USE DEF MissedInv
<1>1. UNCHANGED <<pc, todo, failed, routingActive>>
  BY EditFrame DEF lockVars
<1>13. faults \in Nat
  BY TypesHoldApart DEF TablesType
<1>2. /\ DNSOR \notin Groups /\ (pc \in BringUp => routingActive)
      /\ api.at # "done" => api.g \in Groups
      /\ pc \in BringUp \cup Teardown => Mutating
  BY DEF Groups, LifecycleInvType, EditsAGroup, LifecycleIInv, MarkedFirst, BringUp, Teardown, Mutating
<1>3. api \in [op : {"none", "add", "put", "delete"}, g : Chains,
               at : {"done", "stored", "active", "read", "off", "built"}]
  BY TypesHoldApart DEF HandlerType
<1>4. Fault => ~(faults' = 0)
  BY <1>13 DEF Fault
<1>5. CASE \E g \in Groups : AddGroup(g) \/ PutGroup(g)
  <2>1. PICK g \in Groups : AddGroup(g) \/ PutGroup(g)
    BY <1>5
  <2>2. /\ UNCHANGED <<enabled, ipsets, want, faults>>
        /\ api.op = "none" /\ api'.op \in {"add", "put"} /\ api'.g = g /\ groups' \subseteq groups \cup {g}
    BY <2>1 DEF AddGroup, PutGroup, BeginEdit, groupVars, tableVars
  <2> QED
    BY <1>1, <2>2 DEF EnabledIsWhole, NobodyMissed, DeletesNothing, Covered, Pending
<1>6. CASE AddGroupCheck
  <2>1. UNCHANGED <<groups, enabled, ipsets, want, faults>> /\ api.at = "stored"
    BY <1>6 DEF AddGroupCheck, groupVars, tableVars
  <2>2. CASE routingActive
    <3>1. api'.op = api.op /\ api'.g = api.g
      BY <1>3, <1>6, <2>2 DEF AddGroupCheck
    <3> QED
      BY <1>1, <2>1, <3>1 DEF EnabledIsWhole, NobodyMissed, DeletesNothing, Covered, Pending
  <2>3. CASE ~routingActive
    <3>1. DeletesNothing'
      BY <1>6, <2>3 DEF AddGroupCheck, NoEdit, DeletesNothing
    <3>2. pc' \notin {"groups", "commit"} /\ ~routingActive'
      BY <1>1, <1>2, <2>3 DEF BringUp
    <3>3. EnabledIsWhole' /\ NobodyMissed'
      BY <1>1, <2>1, <3>2 DEF EnabledIsWhole, NobodyMissed
    <3> QED
      BY <3>1, <3>3
  <2> QED
    BY <2>2, <2>3
<1>7. CASE AddGroupEnable \/ PutGroupEnable
  <2>1. /\ api.at # "done" /\ EnableGroup(api.g) /\ api' = NoEdit /\ groups' = groups
    BY <1>7 DEF AddGroupEnable, PutGroupEnable
  <2>2. /\ EnabledIsWhole' /\ ~Mutating
        /\ enabled \subseteq enabled' /\ want \subseteq want'
        /\ (faults' = faults /\ api.g \in enabled') \/ Fault
    BY <1>1, <1>2, <2>1, EnableGroupDoes
  <2>3. pc \notin BringUp \cup Teardown
    BY <1>2, <2>2
  <2>4. NobodyMissed'
    BY <1>1, <1>4, <2>1, <2>2, <2>3 DEF NobodyMissed, Covered, Pending, BringUp
  <2> QED
    BY <2>1, <2>2, <2>4 DEF DeletesNothing, NoEdit
<1>8. CASE PutGroupDisable
  <2>1. api.at = "read" /\ ~Mutating /\ DisableGroup(api.g) /\ groups' = groups
    BY <1>8 DEF PutGroupDisable
  <2>2. /\ EnabledIsWhole'
        /\ enabled \ {api.g} \subseteq enabled' /\ want \ {api.g} \subseteq want'
        /\ (faults' = faults /\ ~DisableFailed(api.g)) \/ Fault
    BY <1>1, <1>2, <2>1, DisableGroupDoes
  <2>3. pc \notin BringUp \cup Teardown
    BY <1>2, <2>1
  <2>4. faults' = 0 => api'.op = api.op /\ api'.g = api.g
    BY <1>3, <1>4, <1>8, <2>2 DEF PutGroupDisable
  <2>5. DeletesNothing'
    BY <1>3, <1>8 DEF PutGroupDisable, DeletesNothing, NoEdit
  <2>6. NobodyMissed'
    <3>1. pc' \notin {"groups", "commit"}
      BY <1>1, <2>3 DEF BringUp
    <3>2. ASSUME faults' = 0, routingActive' PROVE Covered(enabled)'
      <4>1. faults' = faults /\ Covered(enabled)
        BY <1>1, <1>4, <2>2, <2>3, <3>2 DEF NobodyMissed
      <4>2. DNSOR \in want'
        BY <1>2, <2>1, <2>2, <4>1 DEF Covered
      <4>3. api'.op # "none" /\ api'.g = api.g
        BY <2>1, <2>4, <3>2 DEF DeletesNothing
      <4> QED
        BY <2>1, <2>2, <4>1, <4>2, <4>3 DEF Covered, Pending
    <3> QED
      BY <3>1, <3>2 DEF NobodyMissed
  <2> QED
    BY <2>2, <2>5, <2>6
<1>9. CASE PutGroupRefused
  BY <1>1, <1>4, <1>9 DEF PutGroupRefused, groupVars, tableVars, EnabledIsWhole, NobodyMissed,
     DeletesNothing, NoEdit
<1>10. CASE RebuildSubscriptionGroups
  <2>1. api' = api /\ groups' = groups /\ ~Mutating
    BY <1>10 DEF RebuildSubscriptionGroups
  <2>2. pc \notin BringUp \cup Teardown
    BY <1>2, <2>1
  <2>3. CASE ~routingActive
    <3>1. enabled' = enabled \ SubGroups /\ UNCHANGED <<ipsets, want, faults>>
      BY <1>10, <2>3 DEF RebuildSubscriptionGroups
    <3> QED
      BY <1>1, <2>1, <2>2, <2>3, <3>1 DEF EnabledIsWhole, NobodyMissed, DeletesNothing, BringUp
  <2>4. CASE routingActive
    <3>1. PICK back \in SUBSET SubGroups :
            /\ (back = SubGroups /\ faults' = faults) \/ Fault
            /\ enabled' = (enabled \ SubGroups) \cup back
            /\ ipsets' = (ipsets \ SubGroups) \cup back
            /\ want' = (want \ SubGroups) \cup back
      BY <1>10, <2>4 DEF RebuildSubscriptionGroups
    <3>2. EnabledIsWhole'
      BY <1>1, <3>1 DEF EnabledIsWhole
    <3>3. NobodyMissed'
      BY <1>1, <1>4, <2>1, <2>2, <3>1 DEF NobodyMissed, Covered, Pending, BringUp
    <3> QED
      BY <2>1, <3>2, <3>3 DEF DeletesNothing
  <2> QED
    BY <2>3, <2>4
<1>11. CASE SaveByHandler
  BY <1>1, <1>11 DEF SaveByHandler, groupVars, tableVars, EnabledIsWhole, NobodyMissed, DeletesNothing,
     Covered,
     Pending
<1>12. ~DeleteGroupRemove /\ ~(\E g \in Groups : DeleteGroup(g))
  BY DEF DeleteGroupRemove, DeleteGroup, BeginEdit, DeletesNothing
<1> QED
  BY <1>5, <1>6, <1>7, <1>8, <1>9, <1>10, <1>11, <1>12 DEF Editing, NewEdits

(* Once no call is in progress, an active routing has every group of the   *)
(* list up, in whatever order groups were added, replaced or rebuilt and   *)
(* the routing brought up, down or into the other mode (app.go:736): every *)
(* run without a fault in which no group is deleted.  DeleteGroup alone    *)
(* goes without routingMutationMu: in the middle of a bring-up its Disable *)
(* can fail half way, and the group stays in the list and off.             *)
THEOREM EveryGroupIsUp ==
  ASSUME "delete" \notin Edits
  PROVE  LifecycleSpec => []NoGroupMissed
<1>1. LifecycleInit => MissedInv
  BY DEF LifecycleInit, NoEdit, MissedInv, EnabledIsWhole, NobodyMissed, DeletesNothing
<1>2. LifecycleInvType /\ LifecycleIInv /\ MissedInv /\ [LifecycleNext]_lifecycleVars => MissedInv'
  BY MissedByHolder, MissedByCommitter, MissedByBringUp, MissedByTeardown, MissedByEdit
  DEF LifecycleNext, Lifecycle
<1>3. LifecycleIInv /\ MissedInv => NoGroupMissed
  BY DEF LifecycleIInv, Between, MissedInv, EnabledIsWhole, NobodyMissed, Covered, Pending, NoGroupMissed,
     Quiet,
     BringUp, Teardown
<1> QED
  BY <1>1, <1>2, <1>3, LifecycleInductive, PTL DEF LifecycleSpec

-----------------------------------------------------------------------------
(* What a routing that is down leaves, and the mode of one that is up.     *)
(* Group edits are left out: a handler that has seen the routing active    *)
(* enables its group after a disable too.                                  *)

OnlyRebuilds == Edits \subseteq {"rebuild", "save"}

(* No handler is under way, and the list is the configured one. *)
ListIsFixed == api = NoEdit /\ groups = FirstGroups

(* Every group is up: from the batch of a bring-up to that of a teardown. *)
AllUp ==
    \/ pc \in {"commit", "rules", "unlink", "sets"}
    \/ routingActive /\ pc \notin BringUp \cup Teardown

Expected ==
    IF AllUp /\ pc \notin {"unlink", "sets"} THEN groups \cup {DNSOR}
    ELSE IF pc \in {"groups", "unlink", "sets", "undns"} THEN {DNSOR} ELSE {}

(* Groups, ipsets and rules step by step; the firmware and the committer   *)
(* add nothing to the kernel that is not wanted.                           *)
StepByStep ==
    faults = 0 =>
        /\ ~failed
        /\ ipsets = enabled
        /\ enabled = IF AllUp THEN groups ELSE {}
        /\ pc \in {"groups", "unlink", "sets"} => todo = groups
        /\ want = Expected
        /\ pc # "unlink" => \A f \in Families : kernel[f] \subseteq want
        /\ worker = "restore" => plan.add \subseteq want

(* A routing that is active is meant to be, once SetEnabled has said so. *)
Intended ==
    /\ routingActive => configEnabled \/ (op = "enable" /\ pc # "exit")
    /\ op \in {"start", "prio", "unprio"} /\ pc \in {"up", "down"} \cup BringUp \cup Teardown
         => configEnabled

(* A switch replaces every chain made under the other mode. *)
PlacedRight ==
    faults = 0 =>
        \/ op \in {"prio", "unprio"} /\ pc \in {"down", "rules", "unlink", "sets"}
        \/ \A g \in enabled : placed[g] = priority

CleanInv == ListIsFixed /\ StepByStep /\ Intended /\ PlacedRight

(* The file holds the mode in force, or the one SetDirectPriority would    *)
(* roll back to.                                                           *)
SavedInv ==
    /\ op \notin {"prio", "unprio"} => saved = priority
    /\ op = "prio" => saved = IF pc \in {"resume", "exit"} \/ (pc = "ask" /\ ctl.mode = "ready")
                              THEN priority ELSE previous
    /\ op = "unprio" => saved = previous /\ goal = previous /\ (pc # "switch" => priority = previous)

LEMMA SavedStep ==
  ASSUME "save" \notin Edits, LifecycleInvType, LifecycleIInv, SavedInv, LifecycleNext
  PROVE  SavedInv'
<1> USE DEF SavedInv
<1>1. CASE Up \/ DnsUp \/ GroupsUp \/ BatchUp
  <2>1. UNCHANGED <<op, goal, previous, priority, saved>> /\ pc \in BringUp \cup {"up"}
    BY <1>1 DEF Up, DnsUp, GroupsUp, BatchUp, routeFrame, BringUp
  <2>2. pc' \in BringUp \cup {"rules", "release"}
    BY <1>1 DEF Up, DnsUp, GroupsUp, BatchUp, Rollback, BringUp
  <2> QED
    BY <2>1, <2>2 DEF BringUp
<1>2. CASE Down \/ RulesDown \/ BatchDown \/ SetsDown \/ DnsDown
  <2>1. UNCHANGED <<op, goal, previous, priority, saved>> /\ pc \in Teardown \cup {"down"}
    BY <1>2 DEF Down, RulesDown, BatchDown, SetsDown, DnsDown, routeFrame, Teardown
  <2>2. pc' \in Teardown \cup {"up", "release"}
    BY <1>2 DEF Down, RulesDown, BatchDown, SetsDown, DnsDown, Teardown
  <2> QED
    BY <2>1, <2>2 DEF Teardown
<1>3. CASE StartBegin
  BY <1>3 DEF StartBegin, stateVars
<1>4. CASE ShutdownBegin
  BY <1>4 DEF ShutdownBegin
<1>5. CASE Switch
  <2>1. op \in {"prio", "unprio"}
    BY <1>5, TypesHoldApart DEF Switch, HolderType, Ops, LifecycleIInv, Between, GoingUp, GoingDown,
       ShutdownOrder,
       BringUp, Teardown
  <2> QED
    BY <1>5, <2>1 DEF Switch
<1>6. CASE Release
  BY <1>6 DEF Release, Ask, RollBackPriority, stateVars
<1>7. CASE Save
  BY <1>7 DEF Save, SavePriority, SaveEnabled, RollBackPriority
<1>8. CASE Resume
  BY <1>8 DEF Resume, Ask, stateVars
<1>9. CASE Exit
  BY <1>9 DEF Exit
<1>10. CASE Calls
  BY <1>10 DEF Calls, SetEnabledTrue, SetEnabledFalse, SetDirectPriority, Called, Ask, stateVars
<1>11. CASE Answered
  <2>1. UNCHANGED <<op, goal, previous, priority, saved>> /\ pc = "ask"
    BY <1>11 DEF Answered, stateVars
  <2>2. op = "prio" => IF ctl.mode = "ready" THEN pc' = "exit" ELSE pc' = "switch"
    BY <1>11, <2>1 DEF Answered, LifecycleIInv, Switching
  <2>3. op = "unprio" => pc' = "exit"
    BY <1>11 DEF Answered
  <2> QED
    BY <2>1, <2>2, <2>3
<1>12. CASE Editing \/ NewEdits
  <2>1. saved' = saved
    BY <1>12 DEF Editing, NewEdits, AddGroupCheck, AddGroupEnable, PutGroupDisable, PutGroupRefused,
       PutGroupEnable, DeleteGroupRemove, AddGroup, PutGroup, DeleteGroup, RebuildSubscriptionGroups,
       SaveByHandler, BeginEdit, apiFrame, stateVars
  <2> QED
    BY <1>12, <2>1, EditFrame DEF lockVars
<1>13. CASE Committer
  <2>1. UNCHANGED <<lockVars, stateVars>> /\ ctl'.mode = ctl.mode
    <3>1. CASE Run
      BY <1>13, <3>1, WorkerStep DEF Committer, LifecycleInvType, LifecycleIInv
    <3>2. CASE ~Run
      BY <1>13, <3>2 DEF Committer, Handler, HookStart, RequestReq, RequestWake, FirmwareRewrite,
         CancelContext,
         StopCall, StopReturn, callerVars
    <3> QED
      BY <3>1, <3>2
  <2> QED
    BY <2>1 DEF lockVars, stateVars
<1> QED
  BY <1>1, <1>2, <1>3, <1>4, <1>5, <1>6, <1>7, <1>8, <1>9, <1>10, <1>11, <1>12, <1>13 DEF LifecycleNext,
     Lifecycle

(* Between calls the mode on disk is the mode in force, whatever call or   *)
(* file write failed: SetDirectPriority rolls back both or neither.  A     *)
(* handler's SaveConfig in the middle of a switch is what can part them.   *)
THEOREM PriorityOnDisk ==
  ASSUME "save" \notin Edits
  PROVE  LifecycleSpec => []PriorityIsSaved
<1>1. LifecycleInit => SavedInv
  BY DEF LifecycleInit, SavedInv
<1>2. LifecycleInvType /\ LifecycleIInv /\ SavedInv /\ [LifecycleNext]_lifecycleVars => SavedInv'
  <2>1. ASSUME SavedInv, UNCHANGED lifecycleVars PROVE SavedInv'
    BY <2>1 DEF SavedInv, lifecycleVars, committerVars, lockVars, stateVars, callerVars
  <2> QED
    BY <2>1, SavedStep
<1>3. SavedInv => PriorityIsSaved
  BY DEF SavedInv, PriorityIsSaved
<1> QED
  BY <1>1, <1>2, <1>3, LifecycleInductive, PTL DEF LifecycleSpec

(* The steps before and after. *)
LEMMA CleanByHolder ==
  ASSUME LifecycleInvType, LifecycleIInv, CleanInv,
         StartBegin \/ ShutdownBegin \/ Switch \/ Release \/ Save \/ Resume \/ Exit \/ Answered \/ Calls
  PROVE  CleanInv'
<1> USE DEF CleanInv
<1>1. /\ UNCHANGED <<want, groups, enabled, ipsets, placed, api, routingActive, kernel, worker, plan>>
      /\ pc \notin BringUp \cup Teardown /\ pc' \notin BringUp \cup Teardown
  <2>1. UNCHANGED <<worker, plan>>
    BY LifecycleFrame DEF Lifecycle, Untouched, workerVars, passVars, Answered, SetModeReturn
  <2> QED
    BY <2>1, HolderFrame DEF groupVars, apiVars
<1>2. faults' = 0 => faults = 0
  BY HolderFrame, TypesHoldApart DEF Fault, TablesType
<1>3. ~failed => ~failed'
  BY DEF StartBegin, ShutdownBegin, Switch, Release, RollBackPriority, Save, SavePriority, SaveEnabled,
     Resume, Exit,
     Answered, Calls, SetEnabledTrue, SetEnabledFalse, SetDirectPriority, Called
<1>4. ListIsFixed'
  BY <1>1 DEF ListIsFixed
<1>5. StepByStep'
  <2>1. AllUp' <=> AllUp
    BY <1>1 DEF AllUp, BringUp, Teardown
  <2>2. Expected' = Expected
    BY <1>1, <2>1 DEF Expected, BringUp, Teardown
  <2>3. pc \notin {"groups", "unlink", "sets"} /\ pc' \notin {"groups", "unlink", "sets"}
    BY <1>1 DEF BringUp, Teardown
  <2>4. ASSUME faults' = 0 PROVE ~failed' /\ enabled' = IF AllUp' THEN groups' ELSE {}
    BY <1>1, <1>2, <1>3, <2>1, <2>4 DEF StepByStep
  <2> QED
    BY <1>1, <1>2, <2>2, <2>3, <2>4 DEF StepByStep
<1>6. Intended' /\ PlacedRight'
  <2> USE DEF Intended, PlacedRight
  <2>1. CASE StartBegin
    BY <1>1, <1>2, <2>1 DEF StartBegin, Ask, stateVars, LifecycleIInv, GoingUp
  <2>2. CASE ShutdownBegin
    BY <1>1, <1>2, <2>2 DEF ShutdownBegin, LifecycleIInv, Between
  <2>3. CASE Switch
    <3>1. op' = op /\ configEnabled' = configEnabled /\ op \in {"prio", "unprio"} /\ pc = "switch"
      BY <2>3, TypesHoldApart DEF Switch, HolderType, Ops, LifecycleIInv, Between, GoingUp, GoingDown,
         ShutdownOrder, BringUp, Teardown
    <3>2. pc' = IF configEnabled THEN IF routingActive THEN "down" ELSE "up"
                ELSE IF op = "prio" THEN "save" ELSE "resume"
      BY <2>3 DEF Switch
    <3>3. Intended'
      BY <1>1, <3>1, <3>2 DEF BringUp, Teardown
    <3>4. ~routingActive /\ faults = 0 => enabled = {}
      BY <3>1 DEF StepByStep, AllUp
    <3> QED
      BY <1>1, <1>2, <3>1, <3>2, <3>3, <3>4
  <2>4. CASE Release
    BY <1>1, <1>2, <2>4 DEF Release, Ask, RollBackPriority, stateVars, LifecycleIInv, GoingUp
  <2>5. CASE Save
    <3>1. CASE op = "prio"
      BY <1>1, <1>2, <2>5, <3>1 DEF Save, SavePriority, RollBackPriority
    <3>2. CASE op \in {"enable", "disable"}
      <4>1. op' = op /\ pc = "save" /\ pc' = "exit" /\ priority' = priority
        BY <2>5, <3>2 DEF Save, SaveEnabled
      <4>2. (op = "enable" => configEnabled') /\ (op = "disable" => ~routingActive)
        BY <2>5, <3>2, <4>1 DEF Save, LifecycleIInv, GoingDown
      <4> QED
        BY <1>1, <1>2, <3>2, <4>1, <4>2
    <3> QED
      BY <2>5, <3>1, <3>2 DEF Save
  <2>6. CASE Resume
    BY <1>1, <1>2, <2>6 DEF Resume, Ask, stateVars
  <2>7. CASE Exit
    BY <1>1, <1>2, <2>7 DEF Exit
  <2>8. CASE Answered
    BY <1>1, <1>2, <2>8 DEF Answered, stateVars, LifecycleIInv, GoingUp
  <2>9. CASE Calls
    BY <1>1, <1>2, <2>9 DEF Calls, SetEnabledTrue, SetEnabledFalse, SetDirectPriority, Called, Ask, stateVars
  <2> QED
    BY <2>1, <2>2, <2>3, <2>4, <2>5, <2>6, <2>7, <2>8, <2>9
<1> QED
  BY <1>4, <1>5, <1>6

(* A commit that succeeds leaves nothing in the kernel that is not wanted. *)
LEMMA CommitIsClean ==
  ASSUME NEW w, CommitTo(w)
  PROVE  /\ \A f \in Families : kernel'[f] = w
         /\ faults' = faults /\ worker # "restore"
BY DEF CommitTo, CommitFree

LEMMA CleanByBringUp ==
  ASSUME LifecycleInvType, LifecycleIInv, CleanInv, Up \/ DnsUp \/ GroupsUp \/ BatchUp
  PROVE  CleanInv'
<1> USE DEF CleanInv
<1>1. /\ UNCHANGED <<op, priority, configEnabled, groups, api, worker, plan>>
      /\ op \in Ops /\ faults \in Nat /\ groups \subseteq Groups /\ DNSOR \notin Groups
  BY TypesHoldApart DEF Up, DnsUp, GroupsUp, BatchUp, routeFrame, workerVars, passVars, apiVars, HolderType,
     TablesType, GroupsType, Groups
<1>2. Fault => ~(faults' = 0)
  BY <1>1 DEF Fault
<1>3. ListIsFixed'
  BY <1>1 DEF ListIsFixed
<1>4. /\ pc \in {"up", "dns", "groups", "commit"}
      /\ pc' \in {"dns", "groups", "commit", "release", "rules"}
      /\ pc = "up" \/ routingActive' = routingActive
  BY DEF Up, DnsUp, GroupsUp, BatchUp, Rollback
<1>5. Intended'
  <2>1. op \in {"start", "enable", "prio", "unprio"}
    BY <1>1, <1>4 DEF Ops, LifecycleIInv, Between, GoingDown, ShutdownOrder, Teardown
  <2>2. op # "enable" => configEnabled
    BY <1>4, <2>1 DEF Intended, BringUp
  <2>3. op = "enable" => pc' # "exit"
    BY <1>4
  <2> QED
    BY <1>1, <1>4, <2>1, <2>2, <2>3 DEF Intended
<1>6. pc \notin {"down", "rules", "unlink", "sets"}
  BY <1>4
<1>7. CASE Up
  <2>1. UNCHANGED <<want, kernel, enabled, ipsets, placed, failed, faults>>
    BY <1>7 DEF Up, tableVars
  <2>2. CASE routingActive
    <3>1. pc = "up" /\ pc' = "release" /\ routingActive'
      BY <1>7, <2>2 DEF Up
    <3> QED
      BY <1>1, <1>3, <1>5, <2>1, <2>2, <3>1 DEF StepByStep, AllUp, Expected, PlacedRight, BringUp, Teardown
  <2>3. CASE ~routingActive
    <3>1. pc = "up" /\ pc' = "dns"
      BY <1>7, <2>3 DEF Up
    <3> QED
      BY <1>1, <1>3, <1>5, <2>1, <2>3, <3>1 DEF StepByStep, AllUp, Expected, PlacedRight, BringUp, Teardown
  <2> QED
    BY <2>2, <2>3
<1>8. CASE DnsUp
  <2>1. UNCHANGED <<enabled, ipsets, placed, routingActive>> /\ pc = "dns"
    BY <1>8 DEF DnsUp
  <2>2. ASSUME faults' = 0
        PROVE  /\ want' = want \cup {DNSOR} /\ CommitTo(want') /\ pc' = "groups" /\ todo' = groups
               /\ failed' = failed
    BY <1>2, <1>8, <2>2 DEF DnsUp
  <2>3. ASSUME faults' = 0 PROVE faults = 0 /\ enabled = {} /\ want = {}
    BY <2>1, <2>2, <2>3, CommitIsClean DEF StepByStep, AllUp, Expected, BringUp
  <2>4. StepByStep'
    <3> SUFFICES ASSUME faults' = 0
                 PROVE  /\ ~failed' /\ ipsets' = enabled' /\ enabled' = IF AllUp' THEN groups' ELSE {}
                        /\ todo' = groups' /\ want' = Expected'
                        /\ \A f \in Families : kernel'[f] \subseteq want'
                        /\ worker' # "restore"
      BY DEF StepByStep
    <3>1. ~failed' /\ ipsets' = enabled' /\ enabled' = {} /\ want' = {DNSOR}
      BY <2>1, <2>2, <2>3 DEF StepByStep
    <3>2. ~AllUp' /\ Expected' = {DNSOR}
      BY <2>2 DEF AllUp, Expected, BringUp
    <3> QED
      BY <1>1, <2>2, <3>1, <3>2, CommitIsClean
  <2>5. PlacedRight'
    BY <2>1, <2>3 DEF PlacedRight
  <2> QED
    BY <1>3, <1>5, <2>4, <2>5
<1>9. CASE GroupsUp
  <2>1. pc = "groups" /\ pc' = "commit" /\ kernel' = kernel /\ worker # "restore"
    BY <1>9 DEF GroupsUp, CommitFree
  <2>2. ASSUME faults' = 0
        PROVE  /\ faults = 0 /\ failed' = failed
               /\ EnableGroups(groups)
               /\ enabled = {} /\ ipsets = {} /\ want = {DNSOR}
    <3>1. faults' = faults
      BY <1>2, <1>9, <2>2 DEF GroupsUp
    <3>2. enabled = {} /\ ipsets = {} /\ want = {DNSOR} /\ todo = groups
      BY <2>1, <2>2, <3>1 DEF StepByStep, AllUp, Expected, BringUp
    <3>3. Busy((todo \ enabled) \cap ipsets) = {}
      BY <3>2 DEF Busy
    <3>4. EnableGroups(todo \ enabled) /\ failed' = failed
      BY <1>2, <1>9, <2>2, <3>3 DEF GroupsUp
    <3>5. todo \ enabled = groups
      BY <3>2
    <3> QED
      BY <2>2, <3>1, <3>2, <3>4, <3>5
  <2>3. StepByStep'
    <3> SUFFICES ASSUME faults' = 0
                 PROVE  /\ ~failed' /\ ipsets' = enabled' /\ enabled' = groups'
                        /\ want' = groups' \cup {DNSOR}
                        /\ \A f \in Families : kernel'[f] \subseteq want'
      BY <1>1, <2>1 DEF StepByStep, AllUp, Expected
    <3>1. enabled' = groups /\ ipsets' = groups /\ want' = groups \cup {DNSOR}
      BY <2>2 DEF EnableGroups
    <3>2. \A f \in Families : kernel'[f] \subseteq want'
      BY <2>1, <2>2, <3>1 DEF StepByStep
    <3> QED
      BY <1>1, <2>2, <3>1, <3>2 DEF StepByStep
  <2>4. PlacedRight'
    BY <1>1, <2>2 DEF EnableGroups, PlacedRight
  <2> QED
    BY <1>3, <1>5, <2>3, <2>4
<1>10. CASE BatchUp
  <2>1. UNCHANGED <<want, enabled, ipsets, placed>> /\ pc = "commit" /\ routingActive' = routingActive
    BY <1>10 DEF BatchUp
  <2>2. ASSUME faults' = 0
        PROVE  faults = 0 /\ CommitTo(want) /\ ~failed' /\ pc' = "release"
    <3>1. CommitTo(want) /\ faults = 0
      BY <1>2, <1>10, <2>2 DEF BatchUp, CommitFails, CommitTo, Fault
    <3>2. ~failed
      BY <3>1 DEF StepByStep
    <3> QED
      BY <1>1, <1>10, <2>2, <3>1, <3>2 DEF BatchUp, CommitFails
  <2>3. routingActive
    BY <2>1 DEF LifecycleIInv, MarkedFirst, BringUp
  <2>4. StepByStep'
    <3> SUFFICES ASSUME faults' = 0
                 PROVE  /\ ipsets' = enabled' /\ enabled' = groups'
                        /\ want' = groups' \cup {DNSOR}
                        /\ \A f \in Families : kernel'[f] \subseteq want'
                        /\ worker' # "restore"
      BY <1>1, <2>1, <2>2, <2>3 DEF StepByStep, AllUp, Expected, BringUp, Teardown
    <3>1. ipsets = enabled /\ enabled = groups /\ want = groups \cup {DNSOR}
      BY <2>1, <2>2 DEF StepByStep, AllUp, Expected
    <3> QED
      BY <1>1, <2>1, <2>2, <3>1, CommitIsClean
  <2>5. PlacedRight'
    BY <1>1, <1>6, <2>1, <2>2 DEF PlacedRight
  <2> QED
    BY <1>3, <1>5, <2>4, <2>5
<1> QED
  BY <1>7, <1>8, <1>9, <1>10

LEMMA CleanByTeardown ==
  ASSUME LifecycleInvType, LifecycleIInv, CleanInv, Down \/ RulesDown \/ BatchDown \/ SetsDown \/ DnsDown
  PROVE  CleanInv'
<1> USE DEF CleanInv
<1>1. /\ UNCHANGED <<op, priority, configEnabled, groups, api, worker, plan, placed>>
      /\ op \in Ops /\ faults \in Nat /\ groups \subseteq Groups /\ DNSOR \notin Groups
      /\ kernel \in [Families -> SUBSET Chains]
  BY TypesHoldApart DEF Down, RulesDown, BatchDown, SetsDown, DnsDown, routeFrame, workerVars, passVars,
     apiVars,
     HolderType, TablesType, GroupsType, Groups
<1>2. Fault => ~(faults' = 0)
  BY <1>1 DEF Fault
<1>3. ListIsFixed'
  BY <1>1 DEF ListIsFixed
<1>4. /\ pc \in {"down"} \cup Teardown
      /\ pc' \in {"release", "up"} \cup Teardown
      /\ pc' = "up" => op \in {"prio", "unprio"}
      /\ routingActive' => routingActive
  BY DEF Down, RulesDown, BatchDown, SetsDown, DnsDown, Teardown
<1>5. Intended'
  BY <1>1, <1>4 DEF Intended, LifecycleIInv, ShutdownOrder, Teardown
<1>6. CASE Down
  <2>1. UNCHANGED <<want, kernel, enabled, ipsets, failed, faults>> /\ pc = "down" /\ ~routingActive'
    BY <1>6 DEF Down, tableVars
  <2>2. AllUp <=> routingActive
    BY <2>1 DEF AllUp, BringUp, Teardown
  <2>3. pc' = IF routingActive THEN "rules" ELSE "release"
    BY <1>6 DEF Down
  <2>4. AllUp' <=> routingActive
    BY <2>1, <2>3 DEF AllUp, BringUp, Teardown
  <2>5. Expected' = Expected
    BY <1>1, <2>1, <2>2, <2>3, <2>4 DEF Expected
  <2>6. StepByStep'
    BY <1>1, <2>1, <2>2, <2>3, <2>4, <2>5 DEF StepByStep
  <2>7. ~routingActive /\ faults = 0 => enabled = {}
    BY <2>2 DEF StepByStep
  <2>8. PlacedRight'
    BY <1>1, <2>1, <2>3, <2>7 DEF PlacedRight
  <2> QED
    BY <1>3, <1>5, <2>6, <2>8
<1>7. CASE RulesDown
  <2>1. UNCHANGED <<kernel, enabled, ipsets, failed, faults>> /\ pc = "rules" /\ pc' = "unlink" /\ todo' = groups
        /\ want' = want \ (groups \cap enabled) /\ worker # "restore"
    BY <1>7 DEF RulesDown, CommitFree
  <2>2. ASSUME faults = 0 PROVE enabled = groups /\ want = groups \cup {DNSOR}
    BY <2>1, <2>2 DEF StepByStep, AllUp, Expected
  <2>3. StepByStep'
    <3> SUFFICES ASSUME faults = 0 PROVE want' = {DNSOR} /\ ~failed /\ ipsets = enabled /\ enabled = groups
      BY <1>1, <2>1 DEF StepByStep, AllUp, Expected
    <3>1. want' = {DNSOR}
      BY <1>1, <2>1, <2>2
    <3> QED
      BY <2>2, <3>1 DEF StepByStep
  <2>4. PlacedRight'
    BY <1>1, <2>1 DEF PlacedRight
  <2> QED
    BY <1>3, <1>5, <2>3, <2>4
<1>8. CASE BatchDown
  <2>1. UNCHANGED <<want, enabled, ipsets, todo>> /\ pc = "unlink" /\ pc' = "sets"
    BY <1>8 DEF BatchDown
  <2>2. ASSUME faults' = 0 PROVE CommitTo(want) /\ faults = 0 /\ failed' = failed
    BY <1>2, <1>8, <2>2 DEF BatchDown, CommitFails, CommitTo, Fault
  <2>3. StepByStep'
    <3> SUFFICES ASSUME faults' = 0
                 PROVE  /\ ~failed /\ ipsets = enabled /\ enabled = groups /\ want = {DNSOR} /\ todo = groups
                        /\ \A f \in Families : kernel'[f] \subseteq want
                        /\ worker # "restore"
      BY <1>1, <2>1, <2>2 DEF StepByStep, AllUp, Expected
    <3>1. ~failed /\ ipsets = enabled /\ enabled = groups /\ want = {DNSOR} /\ todo = groups
      BY <2>1, <2>2 DEF StepByStep, AllUp, Expected
    <3> QED
      BY <2>2, <3>1, CommitIsClean
  <2>4. PlacedRight'
    BY <1>1, <2>1, <2>2 DEF PlacedRight
  <2> QED
    BY <1>3, <1>5, <2>3, <2>4
<1>9. CASE SetsDown
  <2> DEFINE mine == todo \cap enabled
  <2>1. /\ UNCHANGED <<want, kernel, todo, faults, routingActive>> /\ pc = "sets" /\ pc' = "undns"
        /\ ipsets' = ipsets \ (mine \ Busy(mine))
        /\ failed' = (failed \/ Busy(mine \cap ipsets) # {})
        /\ enabled' = enabled \ mine
    BY <1>9 DEF SetsDown
  <2>2. ASSUME faults = 0
        PROVE  /\ ~failed /\ ipsets = enabled /\ mine = groups /\ want = {DNSOR}
               /\ \A f \in Families : kernel[f] \subseteq want
               /\ worker = "restore" => plan.add \subseteq want
    BY <2>1, <2>2 DEF StepByStep, AllUp, Expected
  <2>3. ASSUME faults = 0 PROVE Busy(mine) = {} /\ Busy(mine \cap ipsets) = {}
    BY <1>1, <2>1, <2>2, <2>3 DEF Busy
  <2>4. ASSUME faults = 0 PROVE enabled' = {} /\ ipsets' = {} /\ ~failed'
    <3>1. enabled = groups
      BY <2>1, <2>4 DEF StepByStep, AllUp
    <3> QED
      BY <2>1, <2>2, <2>3, <2>4, <3>1
  <2>5. StepByStep'
    BY <1>1, <2>1, <2>2, <2>4 DEF StepByStep, AllUp, Expected, Teardown
  <2>6. PlacedRight'
    BY <2>1, <2>4 DEF PlacedRight
  <2> QED
    BY <1>3, <1>5, <2>5, <2>6
<1>10. CASE DnsDown
  <2>1. UNCHANGED <<enabled, ipsets>> /\ pc = "undns" /\ ~routingActive' /\ want' = want \ {DNSOR}
        /\ pc' \in {"up", "release"}
    BY <1>10 DEF DnsDown
  <2>2. ASSUME faults' = 0
        PROVE  /\ faults = 0 /\ failed' = failed
               /\ IF DNSOR \in want THEN CommitTo(want') ELSE kernel' = kernel
    BY <1>2, <1>10, <2>2 DEF DnsDown, CommitFails, CommitTo, Fault, NoCommit
  <2>3. ASSUME faults' = 0
        PROVE  CommitTo(want') /\ enabled = {} /\ ipsets = {} /\ want' = {} /\ ~failed'
    BY <2>1, <2>2, <2>3 DEF StepByStep, AllUp, Expected, Teardown
  <2>4. StepByStep'
    <3>1. ~AllUp' /\ Expected' = {}
      BY <2>1 DEF AllUp, Expected
    <3> QED
      BY <1>1, <2>1, <2>3, <3>1, CommitIsClean DEF StepByStep
  <2>5. PlacedRight'
    BY <2>1, <2>3 DEF PlacedRight
  <2> QED
    BY <1>3, <1>5, <2>4, <2>5
<1> QED
  BY <1>6, <1>7, <1>8, <1>9, <1>10

(* RebuildSubscriptionGroups puts new objects in the place of the old. *)
LEMMA CleanByRebuild ==
  ASSUME LifecycleInvType, CleanInv, RebuildSubscriptionGroups
  PROVE  CleanInv'
<1> USE DEF CleanInv
<1>1. /\ UNCHANGED <<op, pc, todo, failed, routingActive, configEnabled, priority, groups, api, worker, plan>>
      /\ ~Mutating
  BY DEF RebuildSubscriptionGroups, apiFrame, lockVars, stateVars, workerVars, passVars
<1>2. pc \notin {"up", "down"} \cup BringUp \cup Teardown
  BY <1>1 DEF Mutating, BringUp, Teardown
<1>3. ListIsFixed' /\ Intended'
  BY <1>1 DEF ListIsFixed, Intended
<1>4. (AllUp <=> routingActive) /\ (AllUp' <=> routingActive)
  BY <1>1, <1>2 DEF AllUp, BringUp, Teardown
<1>5. Expected' = Expected
  BY <1>1, <1>4 DEF Expected
<1>6. CASE ~routingActive
  <2>1. enabled' = enabled \ SubGroups /\ UNCHANGED <<ipsets, placed, want, kernel, faults>>
    BY <1>6 DEF RebuildSubscriptionGroups
  <2>2. faults = 0 => enabled = {}
    BY <1>4, <1>6 DEF StepByStep
  <2>3. StepByStep'
    BY <1>1, <1>4, <1>5, <1>6, <2>1, <2>2 DEF StepByStep
  <2>4. PlacedRight'
    BY <2>1, <2>2 DEF PlacedRight
  <2> QED
    BY <1>3, <2>3, <2>4
<1>7. CASE routingActive
  <2>1. PICK back \in SUBSET SubGroups :
          /\ (back = SubGroups /\ faults' = faults) \/ Fault
          /\ worker # "restore"
          /\ enabled' = (enabled \ SubGroups) \cup back
          /\ ipsets' = (ipsets \ SubGroups) \cup back
          /\ want' = (want \ SubGroups) \cup back
          /\ kernel' = [f \in Families |-> want']
          /\ placed' = [g \in Groups |-> IF g \in back THEN priority ELSE placed[g]]
    BY <1>7 DEF RebuildSubscriptionGroups, CommitFree
  <2>2. ASSUME faults' = 0
        PROVE  faults = 0 /\ back = SubGroups /\ enabled = groups /\ ipsets = groups
               /\ want = groups \cup {DNSOR} /\ ~failed /\ SubGroups \subseteq groups
    <3>1. faults \in Nat
      BY TypesHoldApart DEF TablesType
    <3>2. faults = 0 /\ back = SubGroups
      BY <2>1, <2>2, <3>1 DEF Fault
    <3> QED
      BY <1>2, <1>4, <1>7, <3>2, LifecycleAssumption DEF StepByStep, Expected, Teardown, ListIsFixed
  <2>3. ASSUME faults' = 0 PROVE enabled' = groups /\ ipsets' = groups /\ want' = want
    BY <2>1, <2>2, <2>3
  <2>4. StepByStep'
    <3> SUFFICES ASSUME faults' = 0
                 PROVE  ~failed' /\ ipsets' = enabled' /\ enabled' = groups' /\ want' = Expected'
                        /\ (\A f \in Families : kernel'[f] \subseteq want') /\ worker' # "restore"
                        /\ pc' \notin {"groups", "unlink", "sets"}
      BY <1>1, <1>4, <1>7 DEF StepByStep
    <3>1. Expected = want
      BY <2>2 DEF StepByStep
    <3> QED
      BY <1>1, <1>2, <1>5, <2>1, <2>2, <2>3, <3>1 DEF BringUp, Teardown
  <2>5. PlacedRight'
    <3> SUFFICES ASSUME faults' = 0, NEW g \in enabled' PROVE placed'[g] = priority
      BY <1>1 DEF PlacedRight
    <3>1. g \in enabled /\ g \in Groups /\ placed[g] = priority
      BY <1>1, <1>2, <2>2, <2>3, TypesHoldApart DEF PlacedRight, GroupsType, BringUp, Teardown
    <3> QED
      BY <2>1, <3>1
  <2> QED
    BY <1>3, <2>4, <2>5
<1> QED
  BY <1>6, <1>7

LEMMA CleanByEdit ==
  ASSUME OnlyRebuilds, LifecycleInvType, CleanInv, Editing \/ NewEdits
  PROVE  CleanInv'
<1>1. ~Editing
  BY DEF Editing, AddGroupCheck, AddGroupEnable, PutGroupDisable, PutGroupRefused, PutGroupEnable,
     DeleteGroupRemove, CleanInv, ListIsFixed, NoEdit
<1>2. ~(\E g \in Groups : AddGroup(g) \/ PutGroup(g) \/ DeleteGroup(g))
  BY DEF AddGroup, PutGroup, DeleteGroup, BeginEdit, OnlyRebuilds
<1>3. CASE SaveByHandler
  BY <1>3 DEF SaveByHandler, CleanInv, ListIsFixed, StepByStep, Intended, PlacedRight, AllUp, Expected,
     lockVars,
     groupVars, workerVars, passVars, tableVars
<1> QED
  BY <1>1, <1>2, <1>3, CleanByRebuild DEF NewEdits

(* The worker restores nothing but what its plan adds, and the firmware    *)
(* only takes away.                                                        *)
LEMMA CleanByCommitter ==
  ASSUME LifecycleInvType, CleanInv, Committer \/ UNCHANGED lifecycleVars
  PROVE  CleanInv'
<1> USE DEF CleanInv
<1>1. /\ want' = want /\ (faults' = 0 => faults = 0)
      /\ UNCHANGED <<lockVars, stateVars, groupVars, apiVars>>
  BY CommitterFrame
<1>2. ListIsFixed' /\ Intended' /\ PlacedRight'
  BY <1>1 DEF ListIsFixed, Intended, PlacedRight, lockVars, stateVars, groupVars, apiVars
<1>3. (AllUp' <=> AllUp) /\ Expected' = Expected
  BY <1>1 DEF AllUp, Expected, lockVars, stateVars, groupVars
<1>4. ASSUME \A f \in Families : kernel[f] \subseteq want,
             worker = "restore" => plan.add \subseteq want
      PROVE  \A f \in Families : kernel'[f] \subseteq want
  <2>1. kernel \in [Families -> SUBSET Chains]
    BY TypesHoldApart DEF TablesType
  <2>2. CASE Restore
    <3>1. plan.add \subseteq want
      BY <1>4, <2>2 DEF Restore
    <3>2. CASE RestoreApplied
      BY <1>4, <2>1, <3>1, <3>2 DEF RestoreApplied
    <3>3. CASE RestoreRefused
      <4>1. PICK part \in SUBSET (plan.add \cup plan.del) :
              kernel' = [kernel EXCEPT ![fam] = (@ \cup (plan.add \cap part)) \ (plan.del \cap part)]
        BY <3>3 DEF RestoreRefused
      <4> QED
        BY <1>4, <2>1, <3>1, <4>1
    <3> QED
      BY <2>2, <3>2, <3>3 DEF Restore
  <2>3. CASE \E f \in Families : \E T \in Wipes : FirmwareRewrite(f, T)
    <3>1. PICK f \in Families, T \in Wipes : FirmwareRewrite(f, T)
      BY <2>3
    <3> QED
      BY <1>4, <2>1, <3>1 DEF FirmwareRewrite
  <2>4. CASE ~Restore /\ ~(\E f \in Families : \E T \in Wipes : FirmwareRewrite(f, T))
    <3>1. kernel' = kernel
      BY <2>4 DEF Committer, Run, SelectDone, SelectCmd, SelectReq, SelectReconcile, Snapshot, Pause, Panic,
         Handler,
         HookStart, RequestReq, RequestWake, CancelContext, StopCall, StopReturn, tableVars, lifecycleVars,
         committerVars
    <3> QED
      BY <1>4, <3>1
  <2> QED
    BY <2>2, <2>3, <2>4
<1>5. ASSUME worker = "restore" => plan.add \subseteq want
      PROVE  worker' = "restore" => plan'.add \subseteq want
  <2>1. CASE Snapshot
    <3>1. CASE SaveFindsDelta
      BY <3>1 DEF SaveFindsDelta, Delta
    <3>2. CASE ~SaveFindsDelta
      BY <2>1, <3>2 DEF Snapshot, FirstAttemptCancelled, SaveFails, SaveFindsNothing, AttemptFailed,
         FamilyReturns,
         NextFamily, LastFamily, PassReturns
    <3> QED
      BY <3>1, <3>2
  <2>2. CASE Restore \/ Panic
    <3>1. plan' = NoPlan
      BY <2>2 DEF Restore, Panic
    <3> QED
      BY <3>1 DEF NoPlan
  <2>3. CASE SelectDone \/ SelectCmd \/ SelectReq \/ SelectReconcile \/ Pause
    BY <1>5, <2>3 DEF SelectDone, SelectCmd, SelectReq, SelectReconcile, Leave, Latch, Drop, BeginPass, Pause,
       PauseCancelled, PauseWoken, PauseTimer, FamilyReturns, NextFamily, LastFamily, PassReturns, passVars
  <2>4. CASE ~Run
    BY <1>5, <2>4 DEF Committer, Handler, HookStart, RequestReq, RequestWake, FirmwareRewrite, CancelContext,
       StopCall, StopReturn, passVars, lifecycleVars, committerVars
  <2> QED
    BY <2>1, <2>2, <2>3, <2>4 DEF Run
<1>6. StepByStep'
  BY <1>1, <1>3, <1>4, <1>5 DEF StepByStep, lockVars, stateVars, groupVars
<1> QED
  BY <1>2, <1>6

LEMMA CleanInductive == ASSUME OnlyRebuilds PROVE LifecycleSpec => []CleanInv
<1>1. LifecycleInit => CleanInv
  BY DEF LifecycleInit, CommitterInit, CleanInv, ListIsFixed, StepByStep, Intended, PlacedRight, AllUp,
     Expected,
     BringUp, Teardown
<1>2. LifecycleInvType /\ LifecycleIInv /\ CleanInv /\ [LifecycleNext]_lifecycleVars => CleanInv'
  BY CleanByHolder, CleanByBringUp, CleanByTeardown, CleanByEdit, CleanByCommitter DEF LifecycleNext,
     Lifecycle
<1> QED
  BY <1>1, <1>2, LifecycleInductive, PTL DEF LifecycleSpec

(* Whatever calls, rebuilds, rewrites and repairs came before, a routing   *)
(* that is down with no call in progress has left nothing: no chain in     *)
(* memory, none in the kernel of either family, and no ipset.              *)
THEOREM DownLeavesNothing ==
  ASSUME OnlyRebuilds
  PROVE  LifecycleSpec => []DownMeansClean
<1>1. LifecycleIInv /\ CleanInv => DownMeansClean
  <2> SUFFICES ASSUME LifecycleIInv, CleanInv, op = "none", ~routingActive, faults = 0
               PROVE  /\ want = {} /\ ipsets = {} /\ enabled = {}
                      /\ \A f \in Families : kernel[f] = {}
    BY DEF DownMeansClean, Quiet
  <2>1. pc = "begin" /\ ~AllUp
    BY DEF LifecycleIInv, Between, AllUp
  <2>2. Expected = {}
    BY <2>1 DEF Expected
  <2> QED
    BY <2>1, <2>2 DEF CleanInv, StepByStep
<1> QED
  BY <1>1, LifecycleInductive, CleanInductive, PTL

(* The mode in force is the mode on disk and the mode under which every    *)
(* chain that is up was placed, after any sequence of switches, rollbacks, *)
(* bring-ups and rebuilds: SetDirectPriority creates the chains anew.      *)
THEOREM PriorityIsOne ==
  ASSUME Edits \subseteq {"rebuild"}
  PROVE  LifecycleSpec => []PriorityIsCoherent
<1>1. OnlyRebuilds /\ "save" \notin Edits
  BY DEF OnlyRebuilds
<1>2. LifecycleIInv /\ CleanInv => PriorityIsUniform
  <2> SUFFICES ASSUME LifecycleIInv, CleanInv, op = "none", routingActive, faults = 0,
                      NEW g \in groups \cap want
               PROVE  placed[g] = priority
    BY DEF PriorityIsUniform, Quiet
  <2>1. pc = "begin" /\ AllUp
    BY DEF LifecycleIInv, Between, AllUp, BringUp, Teardown
  <2>2. g \in enabled
    BY <2>1 DEF CleanInv, StepByStep
  <2> QED
    BY <2>2 DEF CleanInv, PlacedRight
<1>3. LifecycleSpec => []PriorityIsSaved
  BY <1>1, PriorityOnDisk
<1> QED
  BY <1>1, <1>2, <1>3, LifecycleInductive, CleanInductive, PTL DEF PriorityIsCoherent

=============================================================================
