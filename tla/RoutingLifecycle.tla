-------------------------- MODULE RoutingLifecycle --------------------------
(***************************************************************************)
(* Bringing the routing up and down (app.go, start.go), the API handlers   *)
(* that edit groups, and the committer they share the kernel with.         *)
(*                                                                         *)
(* lifecycleMu admits one of Start's section, SetEnabled,                  *)
(* SetDirectPriority and the teardown at shutdown: `op` names the one that *)
(* holds it and `pc` where it is.  cfgMu admits one editing handler: `api`.*)
(* A commit reads and writes the kernel under commitMu, and the rules in   *)
(* memory change under IPTables.sync, both of which the worker holds while *)
(* worker = "restore".                                                     *)
(*                                                                         *)
(* A chain is a group's chain or DNSOR, the DNS port remap.  What a group  *)
(* keeps in its ipset (Group.Sync) belongs to the DNS path.                *)
(***************************************************************************)
EXTENDS NetfilterCommitter

CONSTANTS
    DNSOR,          \* the chain of PortRemap "DNSOR"
    SubGroups,      \* runtime groups of subscriptions
    FirstGroups,    \* groups in the configuration when the daemon starts
    LifecycleCalls, \* the calls made: "enable", "disable", "prio"
    Edits,          \* the edits made: "add", "put", "delete", "rebuild", "save"
    MaxCalls,       \* bound on lifecycle calls
    MaxEdits,       \* bound on edits
    Wipes           \* what one rewrite by the firmware removes

Groups == Chains \ {DNSOR}
Priorities == {"absolute", "byOrder"}

ASSUME LifecycleAssumption ==
    /\ DNSOR \in Chains
    /\ SubGroups \subseteq FirstGroups /\ FirstGroups \subseteq Groups
    /\ LifecycleCalls \subseteq {"enable", "disable", "prio"}
    /\ Edits \subseteq {"add", "put", "delete", "rebuild", "save"}
    /\ MaxCalls \in Nat /\ MaxEdits \in Nat
    /\ Wipes \subseteq SUBSET Chains

VARIABLES
    op,             \* the holder of lifecycleMu
    pc,             \* where it is
    todo,           \* the groups it took from routingGroups()
    failed,         \* an error it has met
    goal,           \* SetDirectPriority: the mode being applied
    previous,       \* SetDirectPriority: the mode to roll back to
    calls,          \* lifecycle calls so far
    routingActive,
    configEnabled,  \* config.Enabled
    priority,       \* config.Netfilter.DirectPriority and the helper's copy
    saved,          \* DirectPriority in the file on disk
    shuttingDown,
    started,        \* Start: "no", "running", or "over" once it is returning
    groups,         \* ids in App.groups and App.subscriptionGroups
    enabled,        \* groups whose flag `enabled` is set
    ipsets,         \* groups whose ipset exists in the kernel
    placed,         \* the mode each group's jump rule was created under
    api,            \* the handler holding cfgMu
    edits           \* edits so far

lockVars   == <<op, pc, todo, failed, goal, previous, calls>>
stateVars  == <<routingActive, configEnabled, priority, saved, shuttingDown, started>>
groupVars  == <<groups, enabled, ipsets, placed>>
apiVars    == <<api, edits>>
lifecycleVars == <<committerVars, lockVars, stateVars, groupVars, apiVars>>

(* What no lifecycle step touches of the committer's state. *)
workerVars == <<channelVars, runVars, passVars, hookVars, rewrites, asked>>

(* What no step of bringing up or down touches. *)
routeFrame == <<op, goal, previous, calls, configEnabled, priority, saved,
                shuttingDown, started, groups, apiVars, workerVars, callerVars>>

Ops == {"none", "start", "enable", "disable", "prio", "unprio", "shutdown"}
NoEdit == [op |-> "none", g |-> DNSOR, at |-> "done"]

(* Batch defers the commits between its start and its own commit. *)
Deferred == pc \in {"groups", "commit", "unlink"}

(* The holder of lifecycleMu holds routingMutationMu too. *)
Mutating == pc \in {"up", "dns", "groups", "commit", "down", "rules",
                    "unlink", "sets", "undns", "release"}

(* commitMu and IPTables.sync are free. *)
CommitFree == worker # "restore"

LifecycleTypeOK ==
    /\ TypeOK
    /\ op \in Ops
    /\ Mutating \/ pc \in {"begin", "ask", "switch", "save", "resume", "exit"}
    /\ todo \subseteq Groups /\ failed \in BOOLEAN
    /\ goal \in Priorities /\ previous \in Priorities /\ calls \in 0..MaxCalls
    /\ routingActive \in BOOLEAN /\ configEnabled \in BOOLEAN
    /\ priority \in Priorities /\ saved \in Priorities
    /\ shuttingDown \in BOOLEAN /\ started \in {"no", "running", "over"}
    /\ groups \subseteq Groups /\ enabled \subseteq Groups /\ ipsets \subseteq Groups
    /\ placed \in [Groups -> Priorities]
    /\ api \in [op : {"none", "add", "put", "delete"}, g : Chains,
                at : {"done", "stored", "active", "read", "off", "built"}]
    /\ edits \in 0..MaxEdits

LifecycleInit ==
    /\ CommitterInit
    /\ want = {} /\ kernel = [f \in Families |-> {}]
    /\ op = "start" /\ pc = "begin" /\ todo = {} /\ failed = FALSE
    /\ goal = "absolute" /\ previous = "absolute" /\ calls = 0
    /\ routingActive = FALSE /\ configEnabled \in BOOLEAN
    /\ priority = "absolute" /\ saved = "absolute"
    /\ shuttingDown = FALSE /\ started = "no"
    /\ groups = FirstGroups /\ enabled = {} /\ ipsets = {}
    /\ placed = [g \in Groups |-> "absolute"]
    /\ api = NoEdit /\ edits = 0

-----------------------------------------------------------------------------
(* The kernel.                                                             *)

(* Commit succeeds in every family. *)
CommitTo(w) ==
    /\ CommitFree
    /\ kernel' = [f \in Families |-> w]
    /\ UNCHANGED faults

(* It fails; tables restored before the failing one keep their part. *)
CommitFails(w) ==
    /\ CommitFree
    /\ faults < MaxFaults
    /\ faults' = faults + 1
    /\ \E part \in SUBSET Chains :
          kernel' = [f \in Families |-> (kernel[f] \ part) \cup (w \cap part)]

NoCommit == UNCHANGED <<kernel, faults>>

Fault == faults < MaxFaults /\ faults' = faults + 1

(* An ipset cannot be destroyed while a rule in the kernel refers to it. *)
Busy(G) == {g \in G : \E f \in Families : g \in kernel'[f]}

(* Group.enable for G, after its error paths; mode is fixed at creation. *)
EnableGroups(G) ==
    /\ enabled' = enabled \cup G
    /\ ipsets' = ipsets \cup G
    /\ want' = want \cup G
    /\ placed' = [g \in Groups |-> IF g \in G THEN priority ELSE placed[g]]

(* Group.Disable outside a batch of one's own.  Its commit is swallowed    *)
(* when somebody else's batch is open.                                     *)
DisableGroup(g) ==
    IF g \notin enabled THEN UNCHANGED <<want, enabled, ipsets, kernel, faults>>
    ELSE /\ CommitFree
         /\ want' = want \ {g}
         /\ enabled' = enabled \ {g}
         /\ IF Deferred THEN NoCommit ELSE CommitTo(want') \/ CommitFails(want')
         /\ ipsets' = ipsets \ ({g} \ Busy({g}))

-----------------------------------------------------------------------------
(* Taking lifecycleMu.                                                     *)

Ask(m) ==
    /\ ctl.st = "idle"
    /\ ctl' = [st |-> "offered", mode |-> m]
    /\ pc' = "ask"

(* Start, once the groups are built: bring up, or pause. *)
StartBegin ==
    /\ op = "start" /\ pc = "begin"
    /\ \/ configEnabled /\ pc' = "up" /\ UNCHANGED ctl
       \/ ~configEnabled /\ Ask("paused")
    /\ UNCHANGED <<op, todo, failed, goal, previous, calls, stateVars, groupVars,
                   apiVars, workerVars, granted, cancelled, stopper, tableVars, faults>>

Called(o) ==
    /\ o \in LifecycleCalls
    /\ op = "none" /\ calls < MaxCalls
    /\ op' = o /\ calls' = calls + 1
    /\ failed' = FALSE /\ todo' = {}
    /\ UNCHANGED <<stateVars, groupVars, apiVars, workerVars,
                   granted, cancelled, stopper, tableVars, faults>>

(* Mutant: a handler already running is not refused while shutting down. *)
SetEnabledTrueUngated ==
    /\ Called("enable")
    /\ ~(configEnabled /\ routingActive)
    /\ pc' = "up"
    /\ UNCHANGED <<goal, previous, ctl>>

SetEnabledTrue ==
    /\ Called("enable")
    /\ ~shuttingDown
    /\ ~(configEnabled /\ routingActive)
    /\ pc' = "up"
    /\ UNCHANGED <<goal, previous, ctl>>

SetEnabledFalse ==
    /\ Called("disable")
    /\ configEnabled \/ routingActive
    /\ Ask("paused")
    /\ UNCHANGED <<goal, previous>>

(* Mutant: an unknown mode is not rejected. *)
SetDirectPriorityUnvalidated(m) ==
    /\ Called("prio")
    /\ ~(m = priority /\ configEnabled = routingActive)
    /\ goal' = m /\ previous' = priority
    /\ Ask("paused")

(* An equal mode is "done" only if the routing is what the user asked for. *)
SetDirectPriority(m) ==
    /\ Called("prio")
    /\ m \in Priorities
    /\ ~(m = priority /\ configEnabled = routingActive)
    /\ goal' = m /\ previous' = priority
    /\ Ask("paused")

(* The shutdown path of Start, once stop() has returned. *)
ShutdownBegin ==
    /\ stopper = "stopped" /\ started = "running"
    /\ op = "none"
    /\ op' = "shutdown" /\ pc' = "down"
    /\ failed' = FALSE /\ todo' = {}
    /\ shuttingDown' = TRUE
    /\ UNCHANGED <<goal, previous, calls, routingActive, configEnabled, priority, saved,
                   started, groupVars, apiVars, workerVars, callerVars, tableVars, faults>>

(* setMode returned; what comes next depends on who asked and for what. *)
Answered ==
    /\ pc = "ask"
    /\ SetModeReturn
    /\ pc' = CASE ctl.mode = "paused" /\ op = "disable" -> "down"
               [] ctl.mode = "paused" /\ op = "prio" -> "switch"
               [] ctl.mode = "ready" /\ op = "enable" -> "save"
               [] OTHER -> "exit"
    /\ UNCHANGED <<op, todo, failed, goal, previous, calls, stateVars, groupVars, apiVars>>

(* Mutant: the chains are not created anew when the routing is up. *)
SwitchInPlace ==
    /\ pc = "switch"
    /\ api.op = "none"
    /\ priority' = goal
    /\ failed' = FALSE
    /\ pc' = IF configEnabled THEN "up"
             ELSE IF op = "prio" THEN "save" ELSE "resume"
    /\ UNCHANGED <<op, todo, goal, previous, calls, routingActive, configEnabled, saved,
                   shuttingDown, started, groupVars, apiVars, committerVars>>

(* applyDirectPriority: the mode is written under cfgMu, then the chains   *)
(* are created anew if the routing is meant to run.                        *)
Switch ==
    /\ pc = "switch"
    /\ api.op = "none"
    /\ priority' = goal
    /\ failed' = FALSE
    /\ pc' = IF configEnabled
             THEN IF routingActive THEN "down" ELSE "up"
             ELSE IF op = "prio" THEN "save" ELSE "resume"
    /\ UNCHANGED <<op, todo, goal, previous, calls, routingActive, configEnabled, saved,
                   shuttingDown, started, groupVars, apiVars, committerVars>>

-----------------------------------------------------------------------------
(* bringUpRouting.                                                         *)

Up ==
    /\ pc = "up"
    /\ routingActive' = TRUE
    /\ pc' = IF routingActive THEN "release" ELSE "dns"
    /\ UNCHANGED <<routeFrame, todo, failed, enabled, ipsets, placed, tableVars, faults>>

(* rollbackFailedBringUp: what did come up is torn down again. *)
Rollback ==
    /\ pc' = "rules"
    /\ failed' = TRUE
    /\ UNCHANGED todo

(* dnsOverrider.Enable commits at once; a failed one takes itself back. *)
DnsUp ==
    /\ pc = "dns"
    /\ \/ /\ want' = want \cup {DNSOR}
          /\ CommitTo(want')
          /\ pc' = "groups" /\ todo' = groups
          /\ UNCHANGED failed
       \/ /\ Fault /\ CommitFree
          /\ want' = want \ {DNSOR}
          /\ kernel' \in {kernel, [f \in Families |-> want']}
          /\ Rollback
    /\ UNCHANGED <<routeFrame, routingActive, enabled, ipsets, placed>>

(* The batch enables the groups it found: all of them, or those before the *)
(* first that fails, by a busy ipset left behind or by a fault.            *)
GroupsUp ==
    /\ pc = "groups"
    /\ CommitFree
    /\ UNCHANGED kernel
    /\ LET new == todo \ enabled
           stuck == Busy(new \cap ipsets)
       IN \/ /\ stuck = {}
             /\ EnableGroups(new)
             /\ UNCHANGED <<failed, faults>>
          \/ \E bad \in new : \E done \in SUBSET (new \ (stuck \cup {bad})) :
                /\ \/ bad \in stuck /\ UNCHANGED faults
                   \/ bad \notin stuck /\ Fault
                /\ EnableGroups(done)
                /\ failed' = TRUE
    /\ pc' = "commit"
    /\ UNCHANGED <<routeFrame, routingActive, todo>>

(* Mutant: filling the ipsets or building the trie takes cfgMu. *)
BatchUpTakesConfigLock ==
    /\ pc = "commit"
    /\ api.op = "none"
    /\ \/ /\ CommitTo(want)
          /\ IF failed THEN Rollback
             ELSE pc' = "release" /\ UNCHANGED <<failed, todo>>
       \/ CommitFails(want) /\ Rollback
    /\ UNCHANGED <<routeFrame, routingActive, enabled, ipsets, placed, want>>

(* The batch commits even if a group failed, and either error rolls back.  *)
(* Without one, the groups' ipsets are filled and the trie is built.       *)
BatchUp ==
    /\ pc = "commit"
    /\ \/ /\ CommitTo(want)
          /\ IF failed THEN Rollback
             ELSE pc' = "release" /\ UNCHANGED <<failed, todo>>
       \/ CommitFails(want) /\ Rollback
    /\ UNCHANGED <<routeFrame, routingActive, enabled, ipsets, placed, want>>

-----------------------------------------------------------------------------
(* bringDownRouting and tearDownRouting.                                   *)

Down ==
    /\ pc = "down"
    /\ routingActive' = FALSE
    /\ pc' = IF routingActive THEN "rules" ELSE "release"
    /\ UNCHANGED <<routeFrame, todo, failed, enabled, ipsets, placed, tableVars, faults>>

(* Phase 1, in memory: DisableRules of every group found. *)
RulesDown ==
    /\ pc = "rules"
    /\ CommitFree
    /\ todo' = groups
    /\ want' = want \ (groups \cap enabled)
    /\ pc' = "unlink"
    /\ UNCHANGED <<routeFrame, routingActive, failed, enabled, ipsets, placed, kernel, faults>>

(* Mutant: the batch commits before it leaves the deferred mode. *)
BatchDownStillDeferred ==
    /\ pc = "unlink"
    /\ CommitFree
    /\ pc' = "sets"
    /\ UNCHANGED <<routeFrame, routingActive, failed, todo, enabled, ipsets, placed,
                   tableVars, faults>>

(* Phase 1, in the kernel: the one commit of the batch. *)
BatchDown ==
    /\ pc = "unlink"
    /\ \/ CommitTo(want) /\ UNCHANGED failed
       \/ CommitFails(want) /\ failed' = TRUE
    /\ pc' = "sets"
    /\ UNCHANGED <<routeFrame, routingActive, todo, enabled, ipsets, placed, want>>

(* Phase 2: the ipsets no rule refers to any more are destroyed.  A group  *)
(* that somebody else has disabled meanwhile is skipped.                   *)
SetsDown ==
    /\ pc = "sets"
    /\ UNCHANGED kernel
    /\ LET mine == todo \cap enabled
       IN /\ ipsets' = ipsets \ (mine \ Busy(mine))
          /\ failed' = (failed \/ Busy(mine \cap ipsets) # {})
          /\ enabled' = enabled \ mine
    /\ pc' = "undns"
    /\ UNCHANGED <<routeFrame, routingActive, todo, placed, want, faults>>

(* SetDirectPriority goes on to bring the routing up again, unless this    *)
(* was the rollback of a bring-up or the teardown met an error.            *)
DnsDown ==
    /\ pc = "undns"
    /\ want' = want \ {DNSOR}
    /\ IF DNSOR \in want
       THEN \/ CommitTo(want') /\ UNCHANGED failed
            \/ CommitFails(want') /\ failed' = TRUE
       ELSE NoCommit /\ UNCHANGED failed
    /\ routingActive' = FALSE
    /\ pc' = IF op \in {"prio", "unprio"} /\ ~routingActive /\ ~failed' THEN "up" ELSE "release"
    /\ UNCHANGED <<routeFrame, todo, enabled, ipsets, placed>>

-----------------------------------------------------------------------------
(* After the routing was brought up or down.                               *)

(* SetDirectPriority failed: once more, with the mode it started from. *)
RollBackPriority ==
    /\ op = "prio"
    /\ op' = "unprio" /\ pc' = "switch" /\ goal' = previous
    /\ UNCHANGED ctl

(* routingMutationMu is released. *)
Release ==
    /\ pc = "release"
    /\ \/ /\ op \in {"start", "enable"} /\ ~failed
          /\ Ask("ready") /\ UNCHANGED <<op, goal>>
       \/ /\ op \in {"start", "enable"} /\ failed
          /\ pc' = "exit" /\ UNCHANGED <<op, goal, ctl>>
       \/ op = "disable" /\ pc' = "save" /\ UNCHANGED <<op, goal, ctl>>
       \/ op = "prio" /\ ~failed /\ pc' = "save" /\ UNCHANGED <<op, goal, ctl>>
       \/ failed /\ RollBackPriority
       \/ op = "unprio" /\ pc' = "resume" /\ UNCHANGED <<op, goal, ctl>>
       \/ op = "shutdown" /\ pc' = "exit" /\ UNCHANGED <<op, goal, ctl>>
    /\ UNCHANGED <<todo, failed, previous, calls, stateVars, groupVars, apiVars,
                   workerVars, granted, cancelled, stopper, tableVars, faults>>

SavePriority ==
    \/ saved' = priority /\ pc' = "resume" /\ UNCHANGED <<op, goal, ctl, faults>>
    \/ Fault /\ RollBackPriority /\ UNCHANGED saved

(* SetEnabled records the intention whether or not the file can be written. *)
SaveEnabled ==
    /\ \/ saved' = priority /\ UNCHANGED faults
       \/ Fault /\ UNCHANGED saved
    /\ pc' = "exit"
    /\ UNCHANGED <<op, goal, ctl>>

(* SaveConfig reads the configuration under cfgMu. *)
Save ==
    /\ pc = "save"
    /\ api.op = "none"
    /\ \/ op = "prio" /\ SavePriority /\ UNCHANGED configEnabled
       \/ op \in {"enable", "disable"} /\ SaveEnabled /\ configEnabled' = (op = "enable")
    /\ UNCHANGED <<todo, failed, previous, calls, routingActive, priority, shuttingDown,
                   started, groupVars, apiVars, workerVars, granted, cancelled, stopper,
                   tableVars>>

(* Mutant: SetDirectPriority always makes the committer ready again. *)
ResumeAlways ==
    /\ pc = "resume"
    /\ Ask("ready")
    /\ UNCHANGED <<op, todo, failed, goal, previous, calls, stateVars, groupVars, apiVars,
                   workerVars, granted, cancelled, stopper, tableVars, faults>>

(* SetDirectPriority's deferred call: ready only if the routing is up. *)
Resume ==
    /\ pc = "resume"
    /\ \/ routingActive /\ Ask("ready")
       \/ ~routingActive /\ pc' = "exit" /\ UNCHANGED ctl
    /\ UNCHANGED <<op, todo, failed, goal, previous, calls, stateVars, groupVars, apiVars,
                   workerVars, granted, cancelled, stopper, tableVars, faults>>

(* lifecycleMu is released.  A Start that failed returns from here. *)
Exit ==
    /\ pc = "exit"
    /\ op' = "none" /\ pc' = "begin"
    /\ started' = CASE op = "shutdown" \/ (op = "start" /\ failed) -> "over"
                    [] op = "start" /\ ~failed -> "running"
                    [] OTHER -> started
    /\ UNCHANGED <<todo, failed, goal, previous, calls, routingActive, configEnabled,
                   priority, saved, shuttingDown, groupVars, apiVars, committerVars>>

-----------------------------------------------------------------------------
(* The handlers that edit groups, under cfgMu.                             *)

apiFrame == <<lockVars, stateVars, workerVars, callerVars>>

BeginEdit(o) ==
    /\ o \in Edits
    /\ api.op = "none" /\ edits < MaxEdits
    /\ edits' = edits + 1

(* Group.Enable outside a batch, under routingMutationMu: stale chains are *)
(* cleared by a commit of their own first.                                 *)
EnableGroup(g) ==
    /\ ~Mutating
    /\ IF g \in enabled THEN UNCHANGED <<want, enabled, ipsets, placed, kernel, faults>>
       ELSE \/ EnableGroups({g}) /\ CommitTo(want')
            \/ /\ Fault /\ CommitFree
               /\ kernel' \in {kernel, [f \in Families |-> want]}
               /\ UNCHANGED <<want, enabled, ipsets, placed>>

(* AddGroup appends the group to the list first and only then asks whether *)
(* the routing is up: bringUpRouting does it the other way round.          *)
AddGroup(g) ==
    /\ BeginEdit("add")
    /\ g \notin groups
    /\ groups' = groups \cup {g}
    /\ api' = [op |-> "add", g |-> g, at |-> "stored"]
    /\ UNCHANGED <<apiFrame, enabled, ipsets, placed, tableVars, faults>>

AddGroupCheck ==
    /\ api.at = "stored"
    /\ api' = IF routingActive THEN [api EXCEPT !.at = "active"] ELSE NoEdit
    /\ UNCHANGED <<apiFrame, groupVars, edits, tableVars, faults>>

(* Mutant: the group is left to a bring-up that is under way. *)
AddGroupEnableUnlessBusy ==
    /\ api.at = "active"
    /\ IF Mutating THEN UNCHANGED <<enabled, ipsets, placed, tableVars, faults>>
       ELSE EnableGroup(api.g)
    /\ api' = NoEdit
    /\ UNCHANGED <<apiFrame, groups, edits>>

AddGroupEnable ==
    /\ api.at = "active"
    /\ EnableGroup(api.g)
    /\ api' = NoEdit
    /\ UNCHANGED <<apiFrame, groups, edits>>

(* PutGroup of a group that is up; one that is not only changes its model. *)
PutGroup(g) ==
    /\ BeginEdit("put")
    /\ g \in (groups \ SubGroups) \cap enabled
    /\ api' = [op |-> "put", g |-> g, at |-> "read"]
    /\ UNCHANGED <<apiFrame, groupVars, tableVars, faults>>

(* Disable reports a failed commit or an ipset that is still there. *)
DisableFailed(g) == faults' # faults \/ g \in enabled \cap ipsets'

PutGroupDisable ==
    /\ api.at = "read"
    /\ ~Mutating
    /\ DisableGroup(api.g)
    /\ api' = IF DisableFailed(api.g) THEN NoEdit ELSE [api EXCEPT !.at = "off"]
    /\ UNCHANGED <<apiFrame, groups, placed, edits>>

(* GroupFromReq refuses the request, with the group disabled already: the  *)
(* group stays off.  Counted with the failures, which bound it.            *)
PutGroupRefused ==
    /\ api.op = "put" /\ api.at = "off"
    /\ Fault
    /\ api' = NoEdit
    /\ UNCHANGED <<apiFrame, groupVars, edits, tableVars>>

PutGroupEnable ==
    /\ api.op = "put" /\ api.at = "off"
    /\ EnableGroup(api.g)
    /\ api' = NoEdit
    /\ UNCHANGED <<apiFrame, groups, edits>>

(* DeleteGroup disables the group without routingMutationMu. *)
DeleteGroup(g) ==
    /\ BeginEdit("delete")
    /\ g \in groups \ SubGroups
    /\ DisableGroup(g)
    /\ api' = IF DisableFailed(g) THEN NoEdit ELSE [op |-> "delete", g |-> g, at |-> "off"]
    /\ UNCHANGED <<apiFrame, groups, placed>>

DeleteGroupRemove ==
    /\ api.op = "delete"
    /\ groups' = groups \ {api.g}
    /\ api' = NoEdit
    /\ UNCHANGED <<apiFrame, enabled, ipsets, placed, edits, tableVars, faults>>

(* RebuildSubscriptionGroups replaces the runtime groups by new objects    *)
(* under routingMutationMu; a fault leaves some of them down.              *)
RebuildSubscriptionGroups ==
    /\ BeginEdit("rebuild")
    /\ ~Mutating
    /\ IF ~routingActive THEN
            /\ enabled' = enabled \ SubGroups
            /\ UNCHANGED <<ipsets, placed, want, kernel, faults>>
       ELSE \E back \in SUBSET SubGroups :
            /\ \/ back = SubGroups /\ UNCHANGED faults
               \/ back # SubGroups /\ Fault
            /\ CommitFree
            /\ enabled' = (enabled \ SubGroups) \cup back
            /\ ipsets' = (ipsets \ SubGroups) \cup back
            /\ want' = (want \ SubGroups) \cup back
            /\ kernel' = [f \in Families |-> want']
            /\ placed' = [g \in Groups |-> IF g \in back THEN priority ELSE placed[g]]
    /\ UNCHANGED <<apiFrame, groups, api>>

(* A handler's SaveConfig, after it released cfgMu. *)
SaveByHandler ==
    /\ BeginEdit("save")
    /\ saved' = priority
    /\ UNCHANGED <<lockVars, routingActive, configEnabled, priority, shuttingDown, started,
                   groupVars, api, workerVars, callerVars, tableVars, faults>>

-----------------------------------------------------------------------------
Lifecycle ==
    \/ StartBegin \/ ShutdownBegin \/ Answered \/ Switch
    \/ Up \/ DnsUp \/ GroupsUp \/ BatchUp
    \/ Down \/ RulesDown \/ BatchDown \/ SetsDown \/ DnsDown
    \/ Release \/ Save \/ Resume \/ Exit

Calls ==
    \/ SetEnabledTrue \/ SetEnabledFalse
    \/ \E m \in Priorities \cup {"unknown"} : SetDirectPriority(m)

Editing ==
    \/ AddGroupCheck \/ AddGroupEnable
    \/ PutGroupDisable \/ PutGroupRefused \/ PutGroupEnable
    \/ DeleteGroupRemove

NewEdits ==
    \/ \E g \in Groups : AddGroup(g) \/ PutGroup(g) \/ DeleteGroup(g)
    \/ RebuildSubscriptionGroups \/ SaveByHandler

(* The goroutines of NetfilterCommitter; setMode is called by Lifecycle,   *)
(* and stop() only once Start has got past its section.                    *)
Committer ==
    /\ \/ Run
       \/ \E h \in Hooks : Handler(h)
       \/ \E f \in Families : \E T \in Wipes : FirmwareRewrite(f, T)
       \/ CancelContext
       \/ op # "start" /\ StopCall
       \/ StopReturn
    /\ UNCHANGED <<lockVars, stateVars, groupVars, apiVars>>

LifecycleNext == Lifecycle \/ Calls \/ Editing \/ NewEdits \/ Committer

(* Everything but the calls, the edits and the firmware keeps moving. *)
LifecycleFairness ==
    /\ WF_lifecycleVars(Lifecycle)
    /\ WF_lifecycleVars(Editing)
    /\ WF_lifecycleVars(Run /\ UNCHANGED <<lockVars, stateVars, groupVars, apiVars>>)
    /\ SF_lifecycleVars(SelectCmd /\ UNCHANGED <<lockVars, stateVars, groupVars, apiVars>>)
    /\ SF_lifecycleVars(SelectDone /\ UNCHANGED <<lockVars, stateVars, groupVars, apiVars>>)

LifecycleSpec == LifecycleInit /\ [][LifecycleNext]_lifecycleVars /\ LifecycleFairness

-----------------------------------------------------------------------------
(* Properties.                                                             *)

Quiet == op = "none" /\ api.op = "none"

(* Between lifecycle calls the committer repairs rules exactly when the    *)
(* routing is up: it is never left paused over a live routing (rules the   *)
(* firmware removes would stay gone) nor ready over one that is down.  And *)
(* rules are taken down only while it is at rest, whoever takes them down: *)
(* SetEnabled, SetDirectPriority, a rollback or the shutdown.              *)
CommitterFollowsRouting ==
    /\ op = "none" /\ started = "running" /\ ~cancelled =>
         (mode = "ready" <=> routingActive)
    /\ pc \in {"rules", "unlink", "sets", "undns"} => ~InPass

(* Once no call is in progress, an active routing has every group of the   *)
(* list up, whatever the order in which a group was added and the routing  *)
(* brought up: either bringUpRouting saw the group or AddGroup saw the     *)
(* routing.                                                                *)
NoGroupMissed ==
    Quiet /\ started = "running" /\ routingActive /\ faults = 0 =>
        groups \subseteq enabled /\ groups \subseteq ipsets
        /\ groups \cup {DNSOR} \subseteq want

(* Once no call is in progress, a routing that is down has left nothing    *)
(* behind: no chain in memory or in the kernel, and no ipset.              *)
DownMeansClean ==
    Quiet /\ ~routingActive /\ faults = 0 =>
        /\ want = {} /\ ipsets = {} /\ enabled = {}
        /\ \A f \in Families : kernel[f] = {}

(* All groups that are up got their position under the mode that is in     *)
(* force: no mixture of "absolute" and "byOrder" survives a switch with a  *)
(* group edited meanwhile.                                                 *)
PriorityIsUniform ==
    Quiet /\ started = "running" /\ routingActive /\ faults = 0 =>
        \A g \in groups \cap want : placed[g] = priority

(* The mode on disk is the mode in force: a restart changes nothing. *)
PriorityIsSaved == op = "none" => saved = priority

(* The mode on disk, the mode in memory and the place of every group's     *)
(* chains agree whenever no call is in progress (app.go:772).              *)
PriorityIsCoherent == PriorityIsSaved /\ PriorityIsUniform

(* Every chain belongs to a group somebody can still find and disable. *)
NoOrphanChain == Quiet => want \subseteq groups \cup {DNSOR}

(* Once Start's teardown is over nobody brings the routing up again: there *)
(* would be nobody left to take it down.                                   *)
ShutdownIsFinal == started = "over" /\ op = "none" => ~routingActive

(* SetEnabled never does, however late it gets lifecycleMu (app.go:837). *)
EnableRespectsShutdown ==
    [][shuttingDown /\ routingActive' => routingActive \/ op # "enable"]_lifecycleVars

(* A wipe is not forgotten while the routing is up. *)
NoWipeForgottenByResume ==
    op = "none" /\ routingActive => NoForgottenWipe

(* Nobody waits forever for lifecycleMu, cfgMu, routingMutationMu or for   *)
(* the committer's answer.                                                 *)
CallsEnd ==
    /\ (op # "none") ~> (op = "none")
    /\ (api.op # "none") ~> (api.op = "none")

=============================================================================
