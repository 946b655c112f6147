------------------------- MODULE NetfilterCommitter -------------------------
(***************************************************************************)
(* The asynchronous iptables writer (netfilter_committer.go) and the retry *)
(* loop it runs for every address family (utils/iptables/commit-retry.go). *)
(*                                                                         *)
(* One goroutine owns the mode, the latch and the reconcile timer.  Around *)
(* it live the netfilter.d hook handlers, which call request(), the one    *)
(* caller of setMode() (callers are serialised by App.lifecycleMu), the    *)
(* caller of stop(), and the firmware, which rewrites a whole table and    *)
(* then fires the hook.                                                    *)
(*                                                                         *)
(* The content of a family's tables is abstracted to the set of our chains *)
(* they hold.  `want` is what IPTables.rules would compile to; in this     *)
(* module it stays fixed, module RoutingLifecycle changes it.              *)
(***************************************************************************)
EXTENDS Naturals, FiniteSets

CONSTANTS
    Chains,        \* our chains, each with its jump rule
    NumFamilies,   \* 2 in the code: IPv4, then IPv6
    Attempts,      \* len(commitRetryBackoff), 4 in the code
    Hooks,         \* goroutines serving the netfilter.d hook
    CallModes,     \* the modes the lifecycle code passes to setMode
    MaxRewrites,   \* bound on the firmware's rewrites
    MaxFaults      \* bound on iptables-save/restore failures and panics

Modes == {"starting", "ready", "paused", "stopping"}

ASSUME CommitterAssumption ==
    /\ NumFamilies \in Nat \ {0}
    /\ Attempts \in Nat \ {0}
    /\ CallModes \subseteq Modes
    /\ MaxRewrites \in Nat
    /\ MaxFaults \in Nat

VARIABLES
    req,        \* channel req, capacity 1
    wake,       \* channel wake, capacity 1
    mode,       \* run: local variable mode
    latched,    \* run: local variable latched
    reconcile,  \* run: the reconcile timer is armed
    worker,     \* where the goroutine is
    fam,        \* family being committed
    attempt,    \* attempt of commitRetryPass
    passErr,    \* forceCommitIPTablesWake: some family failed
    plan,       \* the delta CommitContext computed from its snapshot
    ctl,        \* the setMode call in progress
    granted,    \* the mode the last setMode call returned with
    cancelled,  \* the worker's context is cancelled
    stopper,    \* the stop() call
    hook,       \* where each hook handler is
    owed,       \* rewrites whose hook has not started yet
    want,       \* chains IPTables.rules asks for
    kernel,     \* family -> our chains present in the kernel
    rewrites,   \* firmware rewrites so far
    faults,     \* command failures so far
    asked       \* history: something asked for a pass since the last pause

channelVars == <<req, wake>>
runVars     == <<mode, latched, reconcile>>
passVars    == <<worker, fam, attempt, passErr, plan>>
callerVars  == <<ctl, granted, cancelled, stopper>>
hookVars    == <<hook, owed>>
tableVars   == <<want, kernel>>
boundVars   == <<rewrites, faults>>

committerVars == <<channelVars, runVars, passVars, callerVars, hookVars,
                   tableVars, boundVars, asked>>

Families == 1..NumFamilies
NoPlan == [seen |-> {}, add |-> {}, del |-> {}]

(* The goroutine is inside runPass. *)
InPass == worker \in {"snapshot", "restore", "pause"}

TypeOK ==
    /\ req \in BOOLEAN /\ wake \in BOOLEAN
    /\ mode \in Modes /\ latched \in BOOLEAN /\ reconcile \in BOOLEAN
    /\ worker \in {"select", "snapshot", "restore", "pause", "exited"}
    /\ fam \in Families /\ attempt \in 1..Attempts /\ passErr \in BOOLEAN
    /\ plan \in [seen : SUBSET Chains, add : SUBSET Chains, del : SUBSET Chains]
    /\ ctl \in [st : {"idle", "offered", "acked"}, mode : Modes]
    /\ granted \in Modes
    /\ cancelled \in BOOLEAN
    /\ stopper \in {"running", "waiting", "stopped"}
    /\ hook \in [Hooks -> {"idle", "req", "wake"}]
    /\ owed \in Nat
    /\ want \in SUBSET Chains
    /\ kernel \in [Families -> SUBSET Chains]
    /\ rewrites \in Nat /\ faults \in Nat
    /\ asked \in BOOLEAN

CommitterInit ==
    /\ req = FALSE /\ wake = FALSE
    /\ mode = "starting" /\ latched = FALSE /\ reconcile = FALSE
    /\ worker = "select"
    /\ fam = 1 /\ attempt = 1 /\ passErr = FALSE /\ plan = NoPlan
    /\ ctl = [st |-> "idle", mode |-> "starting"]
    /\ granted = "starting"
    /\ cancelled = FALSE
    /\ stopper = "running"
    /\ hook = [h \in Hooks |-> "idle"]
    /\ owed = 0
    /\ rewrites = 0 /\ faults = 0
    /\ asked = FALSE

Init ==
    /\ CommitterInit
    /\ want = Chains
    /\ kernel = [f \in Families |-> want]

-----------------------------------------------------------------------------
(* The firmware and the hook.                                              *)

(* ndm rewrites a table of family f: our chains T in it are gone, and the  *)
(* hook will be run for it.                                                *)
FirmwareRewrite(f, T) ==
    /\ rewrites < MaxRewrites
    /\ kernel' = [kernel EXCEPT ![f] = @ \ T]
    /\ owed' = owed + 1
    /\ rewrites' = rewrites + 1
    /\ UNCHANGED <<channelVars, runVars, passVars, callerVars, hook, want, faults, asked>>

(* A handler goroutine starts request() for one rewrite. *)
HookStart(h) ==
    /\ hook[h] = "idle" /\ owed > 0
    /\ owed' = owed - 1
    /\ hook' = [hook EXCEPT ![h] = "req"]
    /\ UNCHANGED <<channelVars, runVars, passVars, callerVars, tableVars, boundVars, asked>>

(* request: the first non-blocking send. *)
RequestReq(h) ==
    /\ hook[h] = "req"
    /\ req' = TRUE
    /\ asked' = TRUE
    /\ hook' = [hook EXCEPT ![h] = "wake"]
    /\ UNCHANGED <<wake, runVars, passVars, callerVars, owed, tableVars, boundVars>>

(* request: the second non-blocking send. *)
RequestWake(h) ==
    /\ hook[h] = "wake"
    /\ wake' = TRUE
    /\ hook' = [hook EXCEPT ![h] = "idle"]
    /\ UNCHANGED <<req, runVars, passVars, callerVars, owed, tableVars, boundVars, asked>>

-----------------------------------------------------------------------------
(* setMode and stop.                                                       *)

(* setMode offers the command on the unbuffered channel cmds. *)
SetModeCall(m) ==
    /\ ctl.st = "idle"
    /\ ctl' = [st |-> "offered", mode |-> m]
    /\ UNCHANGED <<channelVars, runVars, passVars, granted, cancelled, stopper,
                   hookVars, tableVars, boundVars, asked>>

(* Mutant: setMode does not wait for the acknowledgement. *)
SetModeReturnUnacknowledged ==
    /\ ctl.st # "idle"
    /\ granted' = ctl.mode
    /\ ctl' = [ctl EXCEPT !.st = "idle"]
    /\ UNCHANGED <<channelVars, runVars, passVars, cancelled, stopper,
                   hookVars, tableVars, boundVars, asked>>

(* Mutant: setMode waits for the acknowledgement only, never for done. *)
SetModeReturnIgnoresDone ==
    /\ ctl.st = "acked"
    /\ granted' = ctl.mode
    /\ ctl' = [ctl EXCEPT !.st = "idle"]
    /\ UNCHANGED <<channelVars, runVars, passVars, cancelled, stopper,
                   hookVars, tableVars, boundVars, asked>>

(* setMode returns: the command was acknowledged, or the worker is gone. *)
SetModeReturn ==
    /\ ctl.st # "idle"
    /\ \/ ctl.st = "acked"
       \/ worker = "exited"
    /\ granted' = ctl.mode
    /\ ctl' = [ctl EXCEPT !.st = "idle"]
    /\ UNCHANGED <<channelVars, runVars, passVars, cancelled, stopper,
                   hookVars, tableVars, boundVars, asked>>

(* The daemon's context ends; the worker's context is derived from it. *)
CancelContext ==
    /\ ~cancelled
    /\ cancelled' = TRUE
    /\ UNCHANGED <<channelVars, runVars, passVars, ctl, granted, stopper,
                   hookVars, tableVars, boundVars, asked>>

(* stop: cancel the context and wait for done. *)
StopCall ==
    /\ stopper = "running"
    /\ stopper' = "waiting"
    /\ cancelled' = TRUE
    /\ UNCHANGED <<channelVars, runVars, passVars, ctl, granted,
                   hookVars, tableVars, boundVars, asked>>

StopReturn ==
    /\ stopper = "waiting"
    /\ worker = "exited"
    /\ stopper' = "stopped"
    /\ UNCHANGED <<channelVars, runVars, passVars, ctl, granted, cancelled,
                   hookVars, tableVars, boundVars, asked>>

-----------------------------------------------------------------------------
(* run: the select loop.                                                   *)

SelectDone ==
    /\ worker = "select"
    /\ cancelled
    /\ worker' = "exited"
    /\ UNCHANGED <<channelVars, runVars, fam, attempt, passErr, plan, callerVars,
                   hookVars, tableVars, boundVars, asked>>

(* Mutant: a pause leaves the queued event in req. *)
AcceptPauseKeepsQueue ==
    /\ ctl.mode \in {"paused", "stopping"}
    /\ latched' = FALSE
    /\ reconcile' = FALSE
    /\ asked' = FALSE
    /\ UNCHANGED <<req, wake>>

(* A pause drops the latch, the timer and the event already queued. *)
AcceptPause ==
    /\ ctl.mode \in {"paused", "stopping"}
    /\ latched' = FALSE
    /\ reconcile' = FALSE
    /\ req' = FALSE
    /\ asked' = FALSE
    /\ UNCHANGED wake

(* Mutant: ready clears the latch without replaying the event. *)
AcceptReadyDropsLatch ==
    /\ ctl.mode = "ready"
    /\ latched' = FALSE
    /\ UNCHANGED <<req, wake, reconcile, asked>>

(* Ready replays the latched event through request(). *)
AcceptReady ==
    /\ ctl.mode = "ready"
    /\ latched' = FALSE
    /\ req' = (req \/ latched)
    /\ wake' = (wake \/ latched)
    /\ UNCHANGED <<reconcile, asked>>

AcceptStarting ==
    /\ ctl.mode = "starting"
    /\ UNCHANGED <<latched, reconcile, req, wake, asked>>

SelectCmd ==
    /\ worker = "select"
    /\ ctl.st = "offered"
    /\ AcceptPause \/ AcceptReady \/ AcceptStarting
    /\ mode' = ctl.mode
    /\ ctl' = [ctl EXCEPT !.st = "acked"]
    /\ UNCHANGED <<passVars, granted, cancelled, stopper, hookVars, tableVars, boundVars>>

(* What the loop does once an event or the timer was taken. *)
Leave ==
    /\ cancelled \/ mode = "stopping"
    /\ worker' = "exited"
    /\ UNCHANGED <<latched, wake, fam, attempt, passErr, plan>>

Latch ==
    /\ ~cancelled /\ mode = "starting"
    /\ latched' = TRUE
    /\ UNCHANGED <<wake, passVars>>

Drop ==
    /\ ~cancelled /\ mode = "paused"
    /\ UNCHANGED <<latched, wake, passVars>>

(* The stale wake-up is drained before the pass starts. *)
BeginPass ==
    /\ ~cancelled /\ mode = "ready"
    /\ wake' = FALSE
    /\ worker' = "snapshot"
    /\ fam' = 1 /\ attempt' = 1 /\ passErr' = FALSE
    /\ UNCHANGED <<latched, plan>>

SelectReq ==
    /\ worker = "select"
    /\ req
    /\ req' = FALSE
    /\ reconcile' = FALSE
    /\ Leave \/ Latch \/ Drop \/ BeginPass
    /\ UNCHANGED <<mode, callerVars, hookVars, tableVars, boundVars, asked>>

SelectReconcile ==
    /\ worker = "select"
    /\ reconcile
    /\ reconcile' = FALSE
    /\ Leave \/ Latch \/ Drop \/ BeginPass
    /\ UNCHANGED <<mode, req, callerVars, hookVars, tableVars, boundVars, asked>>

-----------------------------------------------------------------------------
(* forceCommitIPTablesWake and commitRetryPass.                            *)

(* The family returned; the other family is committed even after an error. *)
NextFamily(ok) ==
    /\ fam < NumFamilies
    /\ fam' = fam + 1
    /\ attempt' = 1
    /\ passErr' = (passErr \/ ~ok)
    /\ worker' = "snapshot"
    /\ UNCHANGED reconcile

(* Mutant: a failed pass arms no reconcile timer. *)
PassReturnsForgets(err) ==
    /\ worker' = IF err /\ cancelled THEN "exited" ELSE "select"
    /\ passErr' = err
    /\ UNCHANGED <<fam, attempt, reconcile>>

(* runPass returned err (or recovered from a panic).                       *)
PassReturns(err) ==
    /\ worker' = IF err /\ cancelled THEN "exited" ELSE "select"
    /\ reconcile' = (reconcile \/ (err /\ ~cancelled))
    /\ passErr' = err
    /\ UNCHANGED <<fam, attempt>>

LastFamily(ok) ==
    /\ fam = NumFamilies
    /\ PassReturns(passErr \/ ~ok)

FamilyReturns(ok) == NextFamily(ok) \/ LastFamily(ok)

(* Mutant: the attempt budget is off by one. *)
AttemptFailedOffByOne ==
    /\ attempt <= Attempts
    /\ worker' = "pause"
    /\ UNCHANGED <<fam, attempt, passErr, reconcile>>

(* A commit attempt failed: pause before the next one, or give up. *)
AttemptFailed ==
    \/ /\ attempt < Attempts
       /\ worker' = "pause"
       /\ UNCHANGED <<fam, attempt, passErr, reconcile>>
    \/ /\ attempt = Attempts
       /\ FamilyReturns(FALSE)

(* The delta between the snapshot and the in-memory rules. *)
Delta(seen) == [seen |-> seen, add |-> want \ seen, del |-> seen \ want]

(* A cancelled context stops a pass before its first attempt. *)
FirstAttemptCancelled ==
    /\ attempt = 1 /\ cancelled
    /\ FamilyReturns(FALSE)
    /\ UNCHANGED <<plan, faults>>

SaveFails ==
    /\ ~(attempt = 1 /\ cancelled)
    /\ \/ cancelled /\ UNCHANGED faults
       \/ faults < MaxFaults /\ faults' = faults + 1
    /\ AttemptFailed
    /\ UNCHANGED plan

(* CommitContext with an empty delta never calls iptables-restore. *)
SaveFindsNothing ==
    /\ ~cancelled
    /\ kernel[fam] = want
    /\ FamilyReturns(TRUE)
    /\ UNCHANGED <<plan, faults>>

SaveFindsDelta ==
    /\ ~cancelled
    /\ kernel[fam] # want
    /\ plan' = Delta(kernel[fam])
    /\ worker' = "restore"
    /\ UNCHANGED <<fam, attempt, passErr, reconcile, faults>>

Snapshot ==
    /\ worker = "snapshot"
    /\ FirstAttemptCancelled \/ SaveFails \/ SaveFindsNothing \/ SaveFindsDelta
    /\ UNCHANGED <<channelVars, mode, latched, callerVars, hookVars, tableVars,
                   rewrites, asked>>

(* iptables-restore applies the delta, whatever the firmware did since; a  *)
(* cancelled context does not stop a command that already ran to its end.  *)
RestoreApplied ==
    /\ kernel' = [kernel EXCEPT ![fam] = (@ \cup plan.add) \ plan.del]
    /\ FamilyReturns(TRUE)
    /\ UNCHANGED faults

(* It fails when the snapshot is stale, when the command is killed, or by  *)
(* a fault; tables restored before the failing one keep their part.        *)
RestoreRefused ==
    /\ \/ kernel[fam] # plan.seen /\ UNCHANGED faults
       \/ cancelled /\ UNCHANGED faults
       \/ faults < MaxFaults /\ faults' = faults + 1
    /\ \E part \in SUBSET (plan.add \cup plan.del) :
          kernel' = [kernel EXCEPT ![fam] =
                        (@ \cup (plan.add \cap part)) \ (plan.del \cap part)]
    /\ AttemptFailed

Restore ==
    /\ worker = "restore"
    /\ RestoreApplied \/ RestoreRefused
    /\ plan' = NoPlan
    /\ UNCHANGED <<channelVars, mode, latched, callerVars, hookVars, want,
                   rewrites, asked>>

(* The pause between attempts ends by the context, by wake or by its timer. *)
PauseCancelled ==
    /\ cancelled
    /\ FamilyReturns(FALSE)
    /\ UNCHANGED wake

(* A new event restarts the family's pass with the full budget. *)
PauseWoken ==
    /\ wake
    /\ wake' = FALSE
    /\ attempt' = 1
    /\ worker' = "snapshot"
    /\ UNCHANGED <<fam, passErr, reconcile>>

PauseTimer ==
    /\ attempt' = attempt + 1
    /\ worker' = "snapshot"
    /\ UNCHANGED <<fam, passErr, reconcile, wake>>

Pause ==
    /\ worker = "pause"
    /\ PauseCancelled \/ PauseWoken \/ PauseTimer
    /\ UNCHANGED <<req, mode, latched, plan, callerVars, hookVars, tableVars,
                   boundVars, asked>>

(* runPass recovers a panic inside a commit: the pass ends with an error. *)
Panic ==
    /\ worker \in {"snapshot", "restore"}
    /\ faults < MaxFaults
    /\ faults' = faults + 1
    /\ PassReturns(TRUE)
    /\ plan' = NoPlan
    /\ UNCHANGED <<channelVars, mode, latched, callerVars, hookVars, tableVars,
                   rewrites, asked>>

-----------------------------------------------------------------------------

Run == SelectDone \/ SelectCmd \/ SelectReq \/ SelectReconcile
       \/ Snapshot \/ Restore \/ Pause \/ Panic

Handler(h) == HookStart(h) \/ RequestReq(h) \/ RequestWake(h)

Firmware == \E f \in Families : \E T \in SUBSET Chains \ {{}} : FirmwareRewrite(f, T)

Caller == (\E m \in CallModes : SetModeCall(m)) \/ SetModeReturn

Stopping == CancelContext \/ StopCall \/ StopReturn

Next == Run \/ (\E h \in Hooks : Handler(h)) \/ Firmware \/ Caller \/ Stopping

(* The goroutines run and return; the firmware, the lifecycle's requests,  *)
(* the end of the context and the call of stop() are never forced.  Go's   *)
(* select picks among its ready cases at random, so a case that is ready   *)
(* again and again is taken: strong fairness for each of them.             *)
Fairness ==
    /\ WF_committerVars(Run)
    /\ SF_committerVars(SelectDone)
    /\ SF_committerVars(SelectCmd)
    /\ SF_committerVars(SelectReq)
    /\ SF_committerVars(SelectReconcile)
    /\ \A h \in Hooks : WF_committerVars(Handler(h))
    /\ WF_committerVars(SetModeReturn)
    /\ WF_committerVars(StopReturn)

Spec == Init /\ [][Next]_committerVars /\ Fairness

-----------------------------------------------------------------------------
(* Properties.                                                             *)

(* setMode's contract: once setMode(paused) has returned, and until the    *)
(* lifecycle asks for another mode, no commit pass runs or waits for a     *)
(* retry, so the worker cannot put back the rules teardown removes.        *)
PauseIsHonoured ==
    ctl.st = "idle" /\ granted = "paused" => ~InPass

(* A pause forgets the latch and the reconcile timer for as long as it     *)
(* lasts: neither outlives the change of mode.                             *)
PauseForgets ==
    mode \in {"paused", "stopping"} => ~latched /\ ~reconcile /\ ~InPass

(* A pass is always the consequence of an event that arrived after the     *)
(* last pause: an event queued, latched or failed before it never causes   *)
(* a commit after resume.                                                  *)
NoStalePass == InPass => asked

(* stop() returns only after the worker has finished: from then on the     *)
(* worker never touches the kernel again.                                  *)
StopIsFinal == stopper = "stopped" => worker = "exited" /\ ~InPass

(* After the context is cancelled the worker begins no new pass.           *)
NoPassAfterCancel == [][cancelled /\ ~InPass => ~InPass']_committerVars

(* The worker is going to look at family f again. *)
WillVisit(f) ==
    \/ worker = "snapshot" /\ fam <= f
    \/ worker \in {"restore", "pause"} /\ fam <= f

(* Something will make the worker look at the kernel again. *)
RepairPending(f) ==
    \/ owed > 0 \/ \E h \in Hooks : hook[h] = "req"
    \/ req \/ reconcile
    \/ latched /\ mode = "starting"
    \/ WillVisit(f)
    \/ InPass /\ passErr

(* No wipe is ever forgotten while the routing is up or coming up: if a    *)
(* family misses rules, an event, a latch, a running pass or the reconcile *)
(* timer is still there to put them back.                                  *)
NoForgottenWipe ==
    mode \in {"starting", "ready"} /\ ~cancelled =>
        \A f \in Families : kernel[f] # want => RepairPending(f)

(* The rules do come back: an event, a latch, a failed pass or the timer   *)
(* that is outstanding while the committer is ready ends in the family     *)
(* being repaired, unless the lifecycle pauses it or the daemon stops.     *)
WipeIsRepaired ==
    \A f \in Families :
        (kernel[f] # want /\ mode = "ready" /\ RepairPending(f)) ~>
            (kernel[f] = want \/ mode # "ready" \/ cancelled)

(* The lifecycle has asked for no mode but "ready". *)
OnlyReadyCalled ==
    /\ ctl.st # "idle" => ctl.mode = "ready"
    /\ mode \in {"starting", "ready"}

(* NoForgottenWipe in every run in which nothing is ever paused: a pause   *)
(* may forget what it was told, and the event that arrives between the     *)
(* bring-up's commit and its setMode("ready") is lost (app.go:848).        *)
WipesRemembered == []OnlyReadyCalled => []NoForgottenWipe

(* Nobody is left waiting: setMode always returns, also when the worker    *)
(* leaves with the command unread, and stop() always returns.              *)
CallsReturn ==
    /\ (ctl.st # "idle") ~> (ctl.st = "idle")
    /\ (stopper = "waiting") ~> (stopper = "stopped")

=============================================================================
