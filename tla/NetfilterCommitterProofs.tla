---------------------- MODULE NetfilterCommitterProofs ----------------------
(***************************************************************************)
(* Theorems about the committer, for any number of chains, families,       *)
(* attempts, hook handlers, rewrites and faults.                           *)
(***************************************************************************)
EXTENDS CommitterContract, TLAPS

(* The type invariant is inductive once a pause is known to leave budget   *)
(* for another attempt.                                                    *)
BudgetLeft == worker = "pause" => attempt < Attempts

TypeInv == TypeOK /\ BudgetLeft

LEMMA InitTypeInv == Init => TypeInv
<1> SUFFICES ASSUME Init PROVE TypeInv
  OBVIOUS
<1>1. 1 \in Families /\ 1 \in 1..Attempts
  BY CommitterAssumption DEF Families
<1>2. NoPlan \in [seen : SUBSET Chains, add : SUBSET Chains, del : SUBSET Chains]
  BY DEF NoPlan
<1> QED
  BY <1>1, <1>2, CommitterAssumption
  DEF Init, CommitterInit, TypeInv, TypeOK, BudgetLeft, Modes

(* What the end of a family, of an attempt or of a pass does to the pass.  *)
LEMMA FamilyReturnsType ==
  ASSUME TypeInv, NEW ok \in BOOLEAN, FamilyReturns(ok)
  PROVE  /\ worker' \in {"snapshot", "select", "exited"}
         /\ fam' \in Families /\ attempt' \in 1..Attempts
         /\ passErr' \in BOOLEAN /\ reconcile' \in BOOLEAN
<1>1. CASE NextFamily(ok)
  BY <1>1, CommitterAssumption DEF NextFamily, TypeInv, TypeOK, Families
<1>2. CASE LastFamily(ok)
  <2>1. PICK err \in BOOLEAN : PassReturns(err)
    BY <1>2 DEF LastFamily, TypeInv, TypeOK
  <2> QED
    BY <2>1 DEF PassReturns, TypeInv, TypeOK
<1> QED
  BY <1>1, <1>2 DEF FamilyReturns

LEMMA AttemptFailedType ==
  ASSUME TypeInv, AttemptFailed
  PROVE  /\ worker' \in {"snapshot", "pause", "select", "exited"}
         /\ fam' \in Families /\ attempt' \in 1..Attempts
         /\ passErr' \in BOOLEAN /\ reconcile' \in BOOLEAN
         /\ worker' = "pause" => attempt' < Attempts
<1>1. CASE attempt < Attempts /\ worker' = "pause"
           /\ UNCHANGED <<fam, attempt, passErr, reconcile>>
  BY <1>1 DEF TypeInv, TypeOK
<1>2. CASE FamilyReturns(FALSE)
  BY <1>2, FamilyReturnsType
<1> QED
  BY <1>1, <1>2 DEF AttemptFailed

LEMMA DeltaType ==
  ASSUME TypeInv, NEW f \in Families
  PROVE  Delta(kernel[f]) \in
           [seen : SUBSET Chains, add : SUBSET Chains, del : SUBSET Chains]
BY DEF TypeInv, TypeOK, Delta

LEMMA NoPlanType ==
  NoPlan \in [seen : SUBSET Chains, add : SUBSET Chains, del : SUBSET Chains]
BY DEF NoPlan

LEMMA RunType ==
  ASSUME TypeInv, Run
  PROVE  TypeInv'
<1> USE DEF TypeInv, BudgetLeft, channelVars, runVars, passVars, callerVars,
            hookVars, tableVars, boundVars
<1>1. CASE SelectDone
  BY <1>1 DEF SelectDone, TypeOK
<1>2. CASE SelectCmd
  <2>1. /\ latched' \in BOOLEAN /\ reconcile' \in BOOLEAN
        /\ req' \in BOOLEAN /\ wake' \in BOOLEAN /\ asked' \in BOOLEAN
    BY <1>2 DEF SelectCmd, AcceptPause, AcceptReady, AcceptStarting, TypeOK
  <2>2. mode' \in Modes /\ ctl' \in [st : {"idle", "offered", "acked"}, mode : Modes]
    BY <1>2 DEF SelectCmd, TypeOK
  <2> QED
    BY <1>2, <2>1, <2>2 DEF SelectCmd, TypeOK
<1>3. ASSUME worker = "select", Leave \/ Latch \/ Drop \/ BeginPass
      PROVE  /\ latched' \in BOOLEAN /\ wake' \in BOOLEAN
             /\ worker' \in {"select", "snapshot", "exited"}
             /\ fam' \in Families /\ attempt' \in 1..Attempts /\ passErr' \in BOOLEAN
             /\ plan' = plan
  <2>1. 1 \in Families /\ 1 \in 1..Attempts
    BY CommitterAssumption DEF Families
  <2> QED
    BY <1>3, <2>1 DEF Leave, Latch, Drop, BeginPass, TypeOK
<1>4. CASE SelectReq
  <2>1. worker = "select" /\ (Leave \/ Latch \/ Drop \/ BeginPass)
    BY <1>4 DEF SelectReq
  <2> QED
    BY <1>3, <1>4, <2>1 DEF SelectReq, TypeOK
<1>5. CASE SelectReconcile
  <2>1. worker = "select" /\ (Leave \/ Latch \/ Drop \/ BeginPass)
    BY <1>5 DEF SelectReconcile
  <2> QED
    BY <1>3, <1>5, <2>1 DEF SelectReconcile, TypeOK
<1>6. CASE Snapshot
  <2> DEFINE PassOK ==
        /\ worker' \in {"snapshot", "restore", "pause", "select", "exited"}
        /\ fam' \in Families /\ attempt' \in 1..Attempts
        /\ passErr' \in BOOLEAN /\ reconcile' \in BOOLEAN
        /\ plan' \in [seen : SUBSET Chains, add : SUBSET Chains, del : SUBSET Chains]
        /\ faults' \in Nat
        /\ worker' = "pause" => attempt' < Attempts
  <2>1. ASSUME FirstAttemptCancelled PROVE PassOK
    BY <2>1, FamilyReturnsType DEF FirstAttemptCancelled, TypeOK
  <2>2. ASSUME SaveFails PROVE PassOK
    BY <2>2, AttemptFailedType DEF SaveFails, TypeOK
  <2>3. ASSUME SaveFindsNothing PROVE PassOK
    BY <2>3, FamilyReturnsType DEF SaveFindsNothing, TypeOK
  <2>4. ASSUME SaveFindsDelta PROVE PassOK
    BY <2>4, DeltaType DEF SaveFindsDelta, TypeOK
  <2>5. PassOK
    BY <1>6, <2>1, <2>2, <2>3, <2>4 DEF Snapshot
  <2>6. UNCHANGED <<channelVars, mode, latched, callerVars, hookVars, tableVars,
                    rewrites, asked>>
    BY <1>6 DEF Snapshot
  <2>7. TypeOK'
    BY <2>5, <2>6 DEF TypeOK
  <2> QED
    BY <2>5, <2>7
<1>7. CASE Restore
  <2> DEFINE PassOK ==
        /\ worker' \in {"snapshot", "pause", "select", "exited"}
        /\ fam' \in Families /\ attempt' \in 1..Attempts
        /\ passErr' \in BOOLEAN /\ reconcile' \in BOOLEAN
        /\ kernel' \in [Families -> SUBSET Chains]
        /\ faults' \in Nat
        /\ worker' = "pause" => attempt' < Attempts
  <2>0. kernel[fam] \subseteq Chains /\ plan.add \subseteq Chains
    BY DEF TypeOK
  <2>1. ASSUME RestoreApplied PROVE PassOK
    <3>1. (kernel[fam] \cup plan.add) \ plan.del \in SUBSET Chains
      BY <2>0
    <3> QED
      BY <2>1, <3>1, FamilyReturnsType DEF RestoreApplied, TypeOK
  <2>2. ASSUME RestoreRefused PROVE PassOK
    <3>1. PICK part \in SUBSET (plan.add \cup plan.del) :
            kernel' = [kernel EXCEPT ![fam] =
                         (@ \cup (plan.add \cap part)) \ (plan.del \cap part)]
      BY <2>2 DEF RestoreRefused
    <3>2. (kernel[fam] \cup (plan.add \cap part)) \ (plan.del \cap part) \in SUBSET Chains
      BY <2>0
    <3>3. kernel' \in [Families -> SUBSET Chains]
      BY <3>1, <3>2 DEF TypeOK
    <3> QED
      BY <2>2, <3>3, AttemptFailedType DEF RestoreRefused, TypeOK
  <2>3. PassOK
    BY <1>7, <2>1, <2>2 DEF Restore
  <2>4. /\ plan' = NoPlan
        /\ UNCHANGED <<channelVars, mode, latched, callerVars, hookVars, want,
                       rewrites, asked>>
    BY <1>7 DEF Restore
  <2>5. TypeOK'
    BY <2>3, <2>4, NoPlanType DEF TypeOK
  <2> QED
    BY <2>3, <2>5
<1>8. CASE Pause
  <2> DEFINE PassOK ==
        /\ worker' \in {"snapshot", "select", "exited"}
        /\ fam' \in Families /\ attempt' \in 1..Attempts
        /\ passErr' \in BOOLEAN /\ reconcile' \in BOOLEAN
        /\ wake' \in BOOLEAN
  <2>1. ASSUME PauseCancelled PROVE PassOK
    BY <2>1, FamilyReturnsType DEF PauseCancelled, TypeOK
  <2>2. ASSUME PauseWoken PROVE PassOK
    <3>1. 1 \in 1..Attempts
      BY CommitterAssumption
    <3> QED
      BY <2>2, <3>1 DEF PauseWoken, TypeOK
  <2>3. ASSUME PauseTimer PROVE PassOK
    <3>1. attempt + 1 \in 1..Attempts
      BY <1>8, CommitterAssumption DEF Pause, TypeOK
    <3> QED
      BY <2>3, <3>1 DEF PauseTimer, TypeOK
  <2>4. PassOK
    BY <1>8, <2>1, <2>2, <2>3 DEF Pause
  <2> QED
    BY <1>8, <2>4 DEF Pause, TypeOK
<1>9. CASE Panic
  BY <1>9, NoPlanType DEF Panic, PassReturns, TypeOK
<1> QED
  BY <1>1, <1>2, <1>4, <1>5, <1>6, <1>7, <1>8, <1>9 DEF Run

LEMMA OthersType ==
  ASSUME TypeInv,
         (\E h \in Hooks : Handler(h)) \/ Firmware \/ Caller \/ Stopping
  PROVE  TypeInv'
<1> USE DEF TypeInv, BudgetLeft, channelVars, runVars, passVars, callerVars,
            hookVars, tableVars, boundVars
<1>1. CASE \E h \in Hooks : Handler(h)
  <2>1. PICK h \in Hooks : Handler(h)
    BY <1>1
  <2>2. CASE HookStart(h)
    BY <2>2 DEF HookStart, TypeOK
  <2>3. CASE RequestReq(h)
    BY <2>3 DEF RequestReq, TypeOK
  <2>4. CASE RequestWake(h)
    BY <2>4 DEF RequestWake, TypeOK
  <2> QED
    BY <2>1, <2>2, <2>3, <2>4 DEF Handler
<1>2. CASE Firmware
  <2>1. PICK f \in Families, T \in SUBSET Chains : FirmwareRewrite(f, T)
    BY <1>2 DEF Firmware
  <2>2. kernel[f] \ T \in SUBSET Chains
    BY DEF TypeOK
  <2> QED
    BY <2>1, <2>2 DEF FirmwareRewrite, TypeOK
<1>3. CASE Caller
  <2>1. CASE \E m \in CallModes : SetModeCall(m)
    <3>1. PICK m \in Modes : SetModeCall(m)
      BY <2>1, CommitterAssumption
    <3> QED
      BY <3>1 DEF SetModeCall, TypeOK
  <2>2. CASE SetModeReturn
    BY <2>2 DEF SetModeReturn, TypeOK
  <2> QED
    BY <1>3, <2>1, <2>2 DEF Caller
<1>4. CASE Stopping
  <2>1. CASE CancelContext
    BY <2>1 DEF CancelContext, TypeOK
  <2>2. CASE StopCall
    BY <2>2 DEF StopCall, TypeOK
  <2>3. CASE StopReturn
    BY <2>3 DEF StopReturn, TypeOK
  <2> QED
    BY <1>4, <2>1, <2>2, <2>3 DEF Stopping
<1> QED
  BY <1>1, <1>2, <1>3, <1>4

LEMMA StutterType ==
  ASSUME TypeInv, UNCHANGED committerVars
  PROVE  TypeInv'
BY DEF TypeInv, TypeOK, BudgetLeft, committerVars, channelVars, runVars, passVars,
       callerVars, hookVars, tableVars, boundVars

(* Every variable of the committer keeps its type, whatever the number of  *)
(* families, attempts, hook handlers, rewrites and faults.                 *)
THEOREM TypeCorrect == Spec => []TypeInv
<1>1. TypeInv /\ [Next]_committerVars => TypeInv'
  BY RunType, OthersType, StutterType DEF Next
<1> QED
  BY InitTypeInv, <1>1, PTL DEF Spec

(* TypeOK itself. *)
THEOREM TypesHold == Spec => []TypeOK
<1>1. TypeInv => TypeOK
  BY DEF TypeInv
<1> QED
  BY <1>1, TypeCorrect, PTL

-----------------------------------------------------------------------------
(* The inductive invariant.  A pass runs in ready mode only, an answered   *)
(* command is the worker's mode, and whatever can start a pass was asked   *)
(* for since the last pause.                                               *)

PassNeedsReady == InPass => mode = "ready"

(* latch only in starting, timer only outside paused. *)
ModeLocals ==
    /\ latched => mode = "starting"
    /\ reconcile => mode \notin {"paused", "stopping"}

AnswersMatch ==
    /\ ctl.st = "acked" => mode = ctl.mode
    /\ ctl.st = "idle" => granted = mode \/ worker = "exited"

AskedSincePause == req \/ latched \/ reconcile \/ InPass => asked

Stopped == stopper = "stopped" => worker = "exited"

IInv ==
    /\ PassNeedsReady
    /\ ModeLocals
    /\ AnswersMatch
    /\ AskedSincePause
    /\ Stopped

LEMMA InitIInv == Init => IInv
BY DEF Init, CommitterInit, IInv, PassNeedsReady, ModeLocals, AnswersMatch,
       AskedSincePause, Stopped, InPass

(* How a pass leaves its own variables: it ends up in the loop, with the   *)
(* timer armed or not, or goes on.                                         *)
LEMMA FamilyReturnsStep ==
  ASSUME NEW ok \in BOOLEAN, FamilyReturns(ok)
  PROVE  worker' \in {"snapshot", "select", "exited"}
<1>1. CASE NextFamily(ok)
  BY <1>1 DEF NextFamily
<1>2. CASE LastFamily(ok)
  BY <1>2 DEF LastFamily, PassReturns
<1> QED
  BY <1>1, <1>2 DEF FamilyReturns

LEMMA PassStep ==
  ASSUME Snapshot \/ Restore \/ Pause \/ Panic
  PROVE  /\ InPass /\ worker # "exited"
         /\ UNCHANGED <<mode, latched, ctl, granted, stopper, req, asked>>
<1> USE DEF InPass, channelVars, callerVars
<1>1. CASE Snapshot
  BY <1>1 DEF Snapshot
<1>2. CASE Restore
  BY <1>2 DEF Restore
<1>3. CASE Pause
  BY <1>3 DEF Pause
<1>4. CASE Panic
  BY <1>4 DEF Panic
<1> QED
  BY <1>1, <1>2, <1>3, <1>4

(* Taking an event or the timer: a pass begins only in ready mode with a   *)
(* live context, and the latch is set only in starting mode.               *)
LEMMA TakenStep ==
  ASSUME SelectReq \/ SelectReconcile
  PROVE  /\ worker = "select" /\ (req \/ reconcile)
         /\ worker' \in {"select", "snapshot", "exited"}
         /\ worker' = "snapshot" => mode = "ready" /\ ~cancelled
         /\ latched' => latched \/ mode = "starting"
         /\ ~reconcile' /\ (req' => req)
         /\ UNCHANGED <<mode, ctl, granted, stopper, asked>>
<1> USE DEF Leave, Latch, Drop, BeginPass, passVars, callerVars
<1>1. CASE SelectReq
  BY <1>1 DEF SelectReq
<1>2. CASE SelectReconcile
  BY <1>2 DEF SelectReconcile
<1> QED
  BY <1>1, <1>2

LEMMA RunIInv ==
  ASSUME TypeInv, IInv, Run
  PROVE  IInv'
<1> USE DEF IInv, PassNeedsReady, ModeLocals, AnswersMatch, AskedSincePause,
            Stopped, InPass
<1>1. CASE SelectDone
  BY <1>1 DEF SelectDone, channelVars, runVars, callerVars
<1>2. CASE SelectCmd
  <2>1. worker' = "select" /\ mode' = ctl.mode /\ ctl'.st = "acked" /\ ctl'.mode = ctl.mode
    BY <1>2 DEF SelectCmd, passVars, TypeInv, TypeOK
  <2>2. stopper' = stopper /\ worker = "select"
    BY <1>2 DEF SelectCmd
  <2>3. CASE AcceptPause
    BY <2>1, <2>2, <2>3 DEF AcceptPause
  <2>4. CASE AcceptReady
    BY <2>1, <2>2, <2>4 DEF AcceptReady
  <2>5. CASE AcceptStarting
    BY <2>1, <2>2, <2>5 DEF AcceptStarting
  <2> QED
    BY <1>2, <2>3, <2>4, <2>5 DEF SelectCmd
<1>3. CASE SelectReq \/ SelectReconcile
  BY <1>3, TakenStep
<1>4. CASE Snapshot \/ Restore \/ Pause \/ Panic
  BY <1>4, PassStep
<1> QED
  BY <1>1, <1>2, <1>3, <1>4 DEF Run

LEMMA OthersIInv ==
  ASSUME TypeInv, IInv,
         (\E h \in Hooks : Handler(h)) \/ Firmware \/ Caller \/ Stopping
  PROVE  IInv'
<1> USE DEF IInv, PassNeedsReady, ModeLocals, AnswersMatch, AskedSincePause,
            Stopped, InPass, channelVars, runVars, passVars, callerVars
<1>1. CASE \E h \in Hooks : Handler(h)
  BY <1>1 DEF Handler, HookStart, RequestReq, RequestWake
<1>2. CASE Firmware
  BY <1>2 DEF Firmware, FirmwareRewrite
<1>3. CASE \E m \in CallModes : SetModeCall(m)
  BY <1>3 DEF SetModeCall
<1>4. CASE SetModeReturn
  <2>1. ctl'.st = "idle" /\ granted' = ctl.mode
    BY <1>4 DEF SetModeReturn, TypeInv, TypeOK
  <2> QED
    BY <1>4, <2>1 DEF SetModeReturn
<1>5. CASE Stopping
  BY <1>5 DEF Stopping, CancelContext, StopCall, StopReturn
<1> QED
  BY <1>1, <1>2, <1>3, <1>4, <1>5 DEF Caller

LEMMA StutterIInv ==
  ASSUME IInv, UNCHANGED committerVars
  PROVE  IInv'
BY DEF IInv, PassNeedsReady, ModeLocals, AnswersMatch, AskedSincePause, Stopped,
       InPass, committerVars, channelVars, runVars, passVars, callerVars

THEOREM Inductive == Spec => []IInv
<1>1. TypeInv /\ IInv /\ [Next]_committerVars => IInv'
  BY RunIInv, OthersIInv, StutterIInv DEF Next
<1> QED
  BY InitIInv, <1>1, TypeCorrect, PTL DEF Spec

(* setMode's contract: between the return of setMode("paused") and the     *)
(* next call no pass runs, whoever else asks for one.                      *)
THEOREM PauseIsSafe == Spec => []PauseIsHonoured
<1>1. IInv => PauseIsHonoured
  BY DEF IInv, PassNeedsReady, AnswersMatch, InPass, PauseIsHonoured
<1> QED
  BY <1>1, Inductive, PTL

(* Neither latch, timer nor pass outlives a pause. *)
THEOREM PauseIsClean == Spec => []PauseForgets
<1>1. IInv => PauseForgets
  BY DEF IInv, PassNeedsReady, ModeLocals, InPass, PauseForgets
<1> QED
  BY <1>1, Inductive, PTL

(* An event, a latch or a timer from before a pause never starts a commit  *)
(* after it.                                                               *)
THEOREM PassIsFresh == Spec => []NoStalePass
<1>1. IInv => NoStalePass
  BY DEF IInv, AskedSincePause, NoStalePass
<1> QED
  BY <1>1, Inductive, PTL

(* Once stop() has returned the worker is gone. *)
THEOREM StopIsSafe == Spec => []StopIsFinal
<1>1. IInv => StopIsFinal
  BY DEF IInv, Stopped, InPass, StopIsFinal
<1> QED
  BY <1>1, Inductive, PTL

(* A cancelled worker begins no new pass. *)
THEOREM CancelSafety == Spec => NoPassAfterCancel
<1>1. ASSUME [Next]_committerVars, cancelled, ~InPass
      PROVE  ~InPass'
  <2> USE DEF InPass, channelVars, runVars, passVars, callerVars
  <2>1. CASE SelectDone \/ SelectCmd
    BY <1>1, <2>1 DEF SelectDone, SelectCmd
  <2>2. CASE SelectReq \/ SelectReconcile
    BY <1>1, <2>2, TakenStep
  <2>3. CASE Snapshot \/ Restore \/ Pause \/ Panic
    BY <1>1, <2>3, PassStep
  <2>4. CASE \E h \in Hooks : Handler(h)
    BY <1>1, <2>4 DEF Handler, HookStart, RequestReq, RequestWake
  <2>5. CASE Firmware
    BY <1>1, <2>5 DEF Firmware, FirmwareRewrite
  <2>6. CASE Caller
    BY <1>1, <2>6 DEF Caller, SetModeCall, SetModeReturn
  <2>7. CASE Stopping
    BY <1>1, <2>7 DEF Stopping, CancelContext, StopCall, StopReturn
  <2>8. CASE UNCHANGED committerVars
    BY <1>1, <2>8 DEF committerVars
  <2> QED
    BY <1>1, <2>1, <2>2, <2>3, <2>4, <2>5, <2>6, <2>7, <2>8 DEF Next, Run
<1>2. [Next]_committerVars => [cancelled /\ ~InPass => ~InPass']_committerVars
  BY <1>1
<1> QED
  BY <1>2, PTL DEF Spec, NoPassAfterCancel

-----------------------------------------------------------------------------
(* NetfilterCommitter implements RepairContract.                           *)

LEMMA ContractStart == Init => Contract!ContractInit
BY DEF Init, CommitterInit, Contract!ContractInit, Told, InPass

(* A pass begins only while the lifecycle permits it or is asking. *)
LEMMA BeginIsPermitted ==
  ASSUME TypeInv, IInv, worker = "select", mode = "ready"
  PROVE  Told \in {"ready", "asking"}
BY DEF IInv, AnswersMatch, Stopped, Told, TypeInv, TypeOK

LEMMA ContractRun ==
  ASSUME TypeInv, IInv, Run
  PROVE  Contract!ContractNext \/ UNCHANGED <<Told, InPass>>
<1> USE DEF Contract!ContractNext, Contract!BeginRepair, Contract!EndRepair
<1>1. CASE SelectDone
  BY <1>1 DEF SelectDone, callerVars, Told, InPass
<1>2. CASE SelectCmd
  <2>1. ctl'.st # "idle" /\ ctl.st # "idle"
    BY <1>2 DEF SelectCmd, TypeInv, TypeOK
  <2> QED
    BY <1>2, <2>1 DEF SelectCmd, passVars, Told, InPass
<1>3. CASE SelectReq \/ SelectReconcile
  <2>1. UNCHANGED Told
    BY <1>3, TakenStep DEF Told
  <2>2. CASE worker' = "snapshot"
    <3>1. Told \in {"ready", "asking"}
      BY <1>3, <2>2, TakenStep, BeginIsPermitted
    <3>2. ~InPass /\ InPass'
      BY <1>3, <2>2, TakenStep DEF InPass
    <3> QED
      BY <2>1, <3>1, <3>2
  <2>3. CASE worker' # "snapshot"
    <3>1. ~InPass /\ ~InPass'
      BY <1>3, <2>3, TakenStep DEF InPass
    <3>2. InPass' = InPass
      BY <3>1 DEF InPass
    <3> QED
      BY <2>1, <3>2
  <2> QED
    BY <2>2, <2>3
<1>4. CASE Snapshot \/ Restore \/ Pause \/ Panic
  <2>1. UNCHANGED Told /\ InPass
    BY <1>4, PassStep DEF Told
  <2>2. CASE InPass'
    <3>1. InPass' = InPass
      BY <2>1, <2>2 DEF InPass
    <3> QED
      BY <2>1, <3>1
  <2>3. CASE ~InPass'
    <3>1. InPass' = FALSE
      BY <2>3 DEF InPass
    <3> QED
      BY <2>1, <3>1
  <2> QED
    BY <2>2, <2>3
<1> QED
  BY <1>1, <1>2, <1>3, <1>4 DEF Run

LEMMA ContractOthers ==
  ASSUME TypeInv, IInv, IInv',
         (\E h \in Hooks : Handler(h)) \/ Firmware \/ Caller \/ Stopping
  PROVE  Contract!ContractNext \/ UNCHANGED <<Told, InPass>>
<1> USE DEF Contract!ContractNext
<1>1. CASE \E h \in Hooks : Handler(h)
  BY <1>1 DEF Handler, HookStart, RequestReq, RequestWake, passVars, callerVars,
              Told, InPass
<1>2. CASE Firmware
  BY <1>2 DEF Firmware, FirmwareRewrite, passVars, callerVars, Told, InPass
<1>3. CASE \E m \in CallModes : SetModeCall(m)
  <2>1. PICK m \in Modes : SetModeCall(m)
    BY <1>3, CommitterAssumption
  <2>2. UNCHANGED InPass /\ ctl'.st # "idle" /\ stopper' = stopper
    BY <2>1 DEF SetModeCall, passVars, InPass
  <2>3. CASE stopper = "stopped"
    BY <2>2, <2>3 DEF Told
  <2>4. CASE stopper # "stopped"
    <3>1. Told' = "asking"
      BY <2>2, <2>4 DEF Told
    <3>2. Told # "over"
      BY <2>4 DEF Told, TypeInv, TypeOK, Modes
    <3> QED
      BY <2>2, <3>1, <3>2 DEF Contract!Ask
  <2> QED
    BY <2>3, <2>4
<1>4. CASE SetModeReturn
  <2>1. UNCHANGED InPass /\ stopper' = stopper /\ ctl.st # "idle"
    BY <1>4 DEF SetModeReturn, passVars, InPass
  <2>2. ctl'.st = "idle" /\ granted' = ctl.mode /\ ctl.mode \in Modes
    BY <1>4 DEF SetModeReturn, TypeInv, TypeOK
  <2>3. CASE stopper = "stopped"
    BY <2>1, <2>3 DEF Told
  <2>4. CASE stopper # "stopped"
    <3>1. Told = "asking" /\ Told' = ctl.mode
      BY <2>1, <2>2, <2>4 DEF Told
    <3>2. ctl.mode # "ready" => ~InPass
      BY <1>4 DEF SetModeReturn, IInv, AnswersMatch, PassNeedsReady, InPass
    <3> QED
      BY <2>1, <2>2, <3>1, <3>2 DEF Contract!Answer
  <2> QED
    BY <2>3, <2>4
<1>5. CASE CancelContext
  BY <1>5 DEF CancelContext, passVars, Told, InPass
<1>6. CASE StopCall
  BY <1>6 DEF StopCall, passVars, Told, InPass
<1>7. CASE StopReturn
  <2>1. UNCHANGED InPass /\ ~InPass /\ Told' = "over"
    BY <1>7 DEF StopReturn, passVars, InPass, Told
  <2> QED
    BY <2>1 DEF Contract!Over
<1> QED
  BY <1>1, <1>2, <1>3, <1>4, <1>5, <1>6, <1>7 DEF Caller, Stopping

(* Between the return of setMode(paused), or of stop(), and the next call  *)
(* no repair runs and none begins: every behaviour of the committer is one *)
(* the contract allows.                                                    *)
THEOREM Refinement == Spec => ImplementsContract
<1>1. TypeInv /\ IInv /\ IInv' /\ [Next]_committerVars
        => [Contract!ContractNext]_(Contract!contractVars)
  <2> SUFFICES ASSUME TypeInv, IInv, IInv', [Next]_committerVars
               PROVE  Contract!ContractNext \/ UNCHANGED <<Told, InPass>>
    BY DEF Contract!contractVars
  <2>1. CASE Run
    BY <2>1, ContractRun
  <2>2. CASE (\E h \in Hooks : Handler(h)) \/ Firmware \/ Caller \/ Stopping
    BY <2>2, ContractOthers
  <2>3. CASE UNCHANGED committerVars
    BY <2>3 DEF committerVars, passVars, callerVars, Told, InPass
  <2> QED
    BY <2>1, <2>2, <2>3 DEF Next
<1> QED
  BY ContractStart, <1>1, TypeCorrect, Inductive, PTL
  DEF Spec, ImplementsContract, Contract!ContractSpec

-----------------------------------------------------------------------------
(* No wipe is forgotten while the lifecycle never pauses the committer.    *)

(* A rewrite whose event has not been taken by the worker yet. *)
EventDue == owed > 0 \/ (\E h \in Hooks : hook[h] = "req") \/ req

(* While iptables-restore runs, the plan is the delta of the snapshot, and *)
(* a snapshot made stale by the firmware has its event still to come.      *)
PlanIsDelta ==
    worker = "restore" =>
        /\ plan.add = want \ plan.seen
        /\ plan.del = plan.seen \ want
        /\ kernel[fam] = plan.seen \/ EventDue

WipeInv == PlanIsDelta /\ OnlyReadyCalled /\ NoForgottenWipe

LEMMA InitWipeInv == Init => WipeInv
BY DEF Init, CommitterInit, WipeInv, PlanIsDelta, OnlyReadyCalled,
       NoForgottenWipe, Families

(* Events are owed until the worker itself takes one. *)
LEMMA PassKeepsEvents ==
  ASSUME Snapshot \/ Restore \/ Pause \/ Panic
  PROVE  /\ UNCHANGED <<req, owed, hook, want, cancelled, latched, mode>>
         /\ EventDue' = EventDue
<1>1. UNCHANGED <<req, owed, hook, want, cancelled, latched, mode>>
  <2> USE DEF channelVars, hookVars, callerVars, tableVars
  <2>1. CASE Snapshot BY <2>1 DEF Snapshot
  <2>2. CASE Restore BY <2>2 DEF Restore
  <2>3. CASE Pause BY <2>3 DEF Pause
  <2>4. CASE Panic BY <2>4 DEF Panic
  <2> QED BY <2>1, <2>2, <2>3, <2>4
<1> QED
  BY <1>1 DEF EventDue

(* What is still due for the families other than the one in hand. *)
LEMMA FamilyReturnsKeeps ==
  ASSUME TypeInv, WipeInv, ~cancelled, InPass,
         UNCHANGED <<req, owed, hook, want, cancelled, latched, mode>>,
         \A f \in Families : f # fam => kernel'[f] = kernel[f],
         NEW ok \in BOOLEAN, FamilyReturns(ok),
         ok => kernel'[fam] = want \/ EventDue
  PROVE  \A f \in Families : kernel'[f] # want => RepairPending(f)'
<1> SUFFICES ASSUME NEW f \in Families, kernel'[f] # want
             PROVE  RepairPending(f)'
  OBVIOUS
<1> USE DEF RepairPending, WillVisit, InPass
<1>1. fam \in Nat /\ f \in Nat /\ f <= NumFamilies
  BY CommitterAssumption DEF TypeInv, TypeOK, Families
<1>2. CASE EventDue
  BY <1>2 DEF EventDue
<1>3. CASE reconcile
  BY <1>3 DEF FamilyReturns, NextFamily, LastFamily, PassReturns
<1>4. CASE passErr \/ ~ok
  BY <1>4 DEF FamilyReturns, NextFamily, LastFamily, PassReturns, TypeInv, TypeOK
<1>5. CASE f > fam
  <2>1. NextFamily(ok)
    BY <1>1, <1>5 DEF FamilyReturns, LastFamily
  <2> QED
    BY <1>1, <1>5, <2>1 DEF NextFamily
<1>6. CASE ~EventDue /\ ~reconcile /\ ~passErr /\ ok /\ f <= fam
  <2>1. f # fam
    BY <1>6
  <2>2. kernel[f] # want
    BY <2>1
  <2>3. RepairPending(f)
    BY <2>2 DEF WipeInv, NoForgottenWipe, OnlyReadyCalled
  <2>4. latched /\ mode = "starting"
    BY <1>1, <1>6, <2>1, <2>3 DEF EventDue
  <2> QED
    BY <2>4
<1> QED
  BY <1>1, <1>2, <1>3, <1>4, <1>5, <1>6 DEF TypeInv, TypeOK

LEMMA AttemptFailedKeeps ==
  ASSUME TypeInv, WipeInv, ~cancelled, InPass,
         UNCHANGED <<req, owed, hook, want, cancelled, latched, mode>>,
         \A f \in Families : f # fam => kernel'[f] = kernel[f],
         AttemptFailed
  PROVE  \A f \in Families : kernel'[f] # want => RepairPending(f)'
<1>1. CASE worker' = "pause" /\ UNCHANGED <<fam, attempt, passErr, reconcile>>
  <2> SUFFICES ASSUME NEW f \in Families, kernel'[f] # want
               PROVE  RepairPending(f)'
    OBVIOUS
  <2>1. CASE f = fam
    <3>1. fam <= f
      BY <2>1, CommitterAssumption DEF TypeInv, TypeOK, Families
    <3> QED
      BY <1>1, <3>1 DEF RepairPending, WillVisit
  <2>2. CASE f # fam
    <3>1. RepairPending(f)
      BY <2>2 DEF WipeInv, NoForgottenWipe, OnlyReadyCalled
    <3> QED
      BY <1>1, <3>1 DEF RepairPending, WillVisit, InPass
  <2> QED
    BY <2>1, <2>2
<1>2. CASE FamilyReturns(FALSE)
  BY <1>2, FamilyReturnsKeeps
<1> QED
  BY <1>1, <1>2 DEF AttemptFailed

LEMMA PassWipeInv ==
  ASSUME TypeInv, WipeInv, Snapshot \/ Restore \/ Pause \/ Panic
  PROVE  WipeInv'
<1>1. /\ UNCHANGED <<req, owed, hook, want, cancelled, latched, mode>>
      /\ EventDue' = EventDue /\ InPass
      /\ ctl' = ctl
  BY PassKeepsEvents, PassStep
<1>2. OnlyReadyCalled'
  BY <1>1 DEF WipeInv, OnlyReadyCalled
<1>3. ASSUME ~cancelled
      PROVE  \A f \in Families : kernel'[f] # want => RepairPending(f)'
  <2>1. CASE Snapshot
    <3>1. kernel' = kernel
      BY <2>1 DEF Snapshot, tableVars
    <3>2. CASE FirstAttemptCancelled
      BY <1>3, <3>2 DEF FirstAttemptCancelled
    <3>3. CASE SaveFails
      BY <1>1, <1>3, <3>1, <3>3, AttemptFailedKeeps DEF SaveFails
    <3>4. CASE SaveFindsNothing
      BY <1>1, <1>3, <3>1, <3>4, FamilyReturnsKeeps DEF SaveFindsNothing
    <3>5. CASE SaveFindsDelta
      <4>1. \A f \in Families : kernel[f] # want => RepairPending(f)
        BY <1>3 DEF WipeInv, NoForgottenWipe, OnlyReadyCalled
      <4>2. worker = "snapshot" /\ worker' = "restore" /\ UNCHANGED <<fam, passErr, reconcile>>
        BY <2>1, <3>5 DEF Snapshot, SaveFindsDelta
      <4> QED
        BY <1>1, <3>1, <4>1, <4>2 DEF RepairPending, WillVisit, InPass
    <3> QED
      BY <2>1, <3>2, <3>3, <3>4, <3>5 DEF Snapshot
  <2>2. CASE Restore
    <3>0. worker = "restore"
      BY <2>2 DEF Restore
    <3>1. CASE RestoreApplied
      <4>1. kernel'[fam] = (kernel[fam] \cup plan.add) \ plan.del
        BY <3>1 DEF RestoreApplied, TypeInv, TypeOK
      <4>2. \A f \in Families : f # fam => kernel'[f] = kernel[f]
        BY <3>1 DEF RestoreApplied, TypeInv, TypeOK
      <4>3. CASE kernel[fam] = plan.seen
        <5>1. kernel'[fam] = want
          BY <3>0, <4>1, <4>3 DEF WipeInv, PlanIsDelta
        <5> QED
          BY <1>1, <1>3, <3>1, <4>2, <5>1, FamilyReturnsKeeps DEF RestoreApplied
      <4>4. CASE EventDue
        BY <1>1, <1>3, <3>1, <4>2, <4>4, FamilyReturnsKeeps DEF RestoreApplied
      <4> QED
        BY <3>0, <4>3, <4>4 DEF WipeInv, PlanIsDelta
    <3>2. CASE RestoreRefused
      <4>1. \A f \in Families : f # fam => kernel'[f] = kernel[f]
        BY <3>2 DEF RestoreRefused, TypeInv, TypeOK
      <4> QED
        BY <1>1, <1>3, <3>2, <4>1, AttemptFailedKeeps DEF RestoreRefused
    <3> QED
      BY <2>2, <3>1, <3>2 DEF Restore
  <2>3. CASE Pause
    <3>1. kernel' = kernel /\ worker = "pause"
      BY <2>3 DEF Pause, tableVars
    <3>2. CASE PauseCancelled
      BY <1>3, <3>2 DEF PauseCancelled
    <3>3. CASE PauseWoken \/ PauseTimer
      <4>1. \A f \in Families : kernel[f] # want => RepairPending(f)
        BY <1>3 DEF WipeInv, NoForgottenWipe, OnlyReadyCalled
      <4>2. worker' = "snapshot" /\ UNCHANGED <<fam, passErr, reconcile>>
        BY <3>3 DEF PauseWoken, PauseTimer
      <4> QED
        BY <1>1, <3>1, <4>1, <4>2 DEF RepairPending, WillVisit, InPass
    <3> QED
      BY <2>3, <3>2, <3>3 DEF Pause
  <2>4. CASE Panic
    <3>1. reconcile'
      BY <1>3, <2>4 DEF Panic, PassReturns
    <3> QED
      BY <3>1 DEF RepairPending
  <2> QED
    BY <2>1, <2>2, <2>3, <2>4
<1>4. NoForgottenWipe'
  BY <1>1, <1>3 DEF NoForgottenWipe
<1>5. PlanIsDelta'
  <2> SUFFICES ASSUME worker' = "restore"
               PROVE  /\ plan'.add = want \ plan'.seen
                      /\ plan'.del = plan'.seen \ want
                      /\ kernel'[fam'] = plan'.seen
    BY <1>1 DEF PlanIsDelta
  <2>1. ~(\E ok \in BOOLEAN : FamilyReturns(ok)) /\ ~AttemptFailed
    BY FamilyReturnsStep DEF AttemptFailed
  <2>2. Snapshot /\ SaveFindsDelta
    BY <2>1 DEF Snapshot, FirstAttemptCancelled, SaveFails, SaveFindsNothing,
                Restore, RestoreApplied, RestoreRefused,
                Pause, PauseCancelled, PauseWoken, PauseTimer, Panic, PassReturns
  <2>3. kernel' = kernel /\ fam' = fam /\ plan' = Delta(kernel[fam])
    BY <2>2 DEF Snapshot, SaveFindsDelta, tableVars
  <2> QED
    BY <2>3 DEF Delta
<1> QED
  BY <1>2, <1>4, <1>5 DEF WipeInv

LEMMA LoopWipeInv ==
  ASSUME TypeInv, WipeInv, SelectDone \/ SelectCmd \/ SelectReq \/ SelectReconcile
  PROVE  WipeInv'
<1> USE DEF WipeInv, channelVars, runVars, passVars, callerVars, hookVars, tableVars
<1>1. UNCHANGED <<owed, hook, want, kernel, cancelled>> /\ worker = "select"
  BY DEF SelectDone, SelectCmd, SelectReq, SelectReconcile
<1>2. worker' # "restore"
  BY <1>1 DEF SelectDone, SelectCmd, SelectReq, SelectReconcile, Leave, Latch,
              Drop, BeginPass
<1>3. PlanIsDelta'
  BY <1>2 DEF PlanIsDelta
<1>4. OnlyReadyCalled'
  BY DEF OnlyReadyCalled, SelectDone, SelectCmd, SelectReq, SelectReconcile,
         TypeInv, TypeOK
<1>5. ASSUME ~cancelled, NEW f \in Families, kernel'[f] # want
      PROVE  RepairPending(f)'
  <2>1. RepairPending(f) /\ mode \in {"starting", "ready"}
    BY <1>1, <1>5 DEF NoForgottenWipe, OnlyReadyCalled
  <2>2. CASE SelectDone
    BY <1>5, <2>2 DEF SelectDone
  <2>3. CASE SelectCmd
    <3>1. AcceptReady
      BY <1>1, <2>3 DEF SelectCmd, AcceptPause, AcceptStarting, OnlyReadyCalled,
                        TypeInv, TypeOK
    <3> QED
      BY <1>1, <2>1, <2>3, <3>1
      DEF SelectCmd, AcceptReady, RepairPending, WillVisit, InPass
  <2>4. CASE SelectReq \/ SelectReconcile
    <3>1. CASE Latch
      BY <2>4, <3>1 DEF Latch, SelectReq, SelectReconcile, RepairPending
    <3>2. CASE BeginPass
      <4>1. worker' = "snapshot" /\ fam' <= f
        BY <3>2, CommitterAssumption DEF BeginPass, Families
      <4> QED
        BY <4>1 DEF RepairPending, WillVisit
    <3> QED
      BY <1>5, <2>1, <2>4, <3>1, <3>2 DEF SelectReq, SelectReconcile, Leave, Drop
  <2> QED
    BY <2>2, <2>3, <2>4
<1>6. NoForgottenWipe'
  BY <1>1, <1>5 DEF NoForgottenWipe
<1> QED
  BY <1>3, <1>4, <1>6

LEMMA OthersWipeInv ==
  ASSUME OnlyReadyCalled', TypeInv, WipeInv,
         (\E h \in Hooks : Handler(h)) \/ Firmware \/ Caller \/ Stopping
  PROVE  WipeInv'
<1> USE DEF WipeInv, channelVars, runVars, passVars, callerVars, hookVars, tableVars
<1>1. CASE Firmware \/ \E h \in Hooks : HookStart(h) \/ RequestReq(h)
  <2>1. EventDue'
    <3>1. CASE Firmware
      BY <3>1 DEF Firmware, FirmwareRewrite, EventDue, TypeInv, TypeOK
    <3>2. CASE \E h \in Hooks : HookStart(h)
      BY <3>2 DEF HookStart, EventDue, TypeInv, TypeOK
    <3>3. CASE \E h \in Hooks : RequestReq(h)
      BY <3>3 DEF RequestReq, EventDue
    <3> QED
      BY <1>1, <3>1, <3>2, <3>3
  <2>2. UNCHANGED <<worker, plan, want, ctl, mode, fam>>
    BY <1>1 DEF Firmware, FirmwareRewrite, HookStart, RequestReq
  <2> QED
    BY <2>1, <2>2
    DEF PlanIsDelta, OnlyReadyCalled, NoForgottenWipe, RepairPending, EventDue
<1>2. CASE (\E h \in Hooks : RequestWake(h)) \/ Caller \/ Stopping
  <2>1. UNCHANGED <<req, owed, passVars, mode, latched, reconcile, tableVars>>
    BY <1>2 DEF RequestWake, Caller, SetModeCall, SetModeReturn, Stopping,
                CancelContext, StopCall, StopReturn
  <2>2. (\E h \in Hooks : hook[h] = "req") => (\E h \in Hooks : hook'[h] = "req")
    <3>1. CASE \E h \in Hooks : RequestWake(h)
      BY <3>1 DEF RequestWake, TypeInv, TypeOK
    <3>2. CASE Caller \/ Stopping
      BY <3>2 DEF Caller, SetModeCall, SetModeReturn, Stopping, CancelContext,
                  StopCall, StopReturn
    <3> QED
      BY <1>2, <3>1, <3>2
  <2>3. PlanIsDelta'
    BY <2>1, <2>2 DEF PlanIsDelta, EventDue
  <2>4. cancelled => cancelled'
    BY <1>2 DEF RequestWake, Caller, SetModeCall, SetModeReturn, Stopping,
                CancelContext, StopCall, StopReturn
  <2>5. NoForgottenWipe'
    <3> SUFFICES ASSUME ~cancelled', NEW f \in Families, kernel'[f] # want'
                 PROVE  RepairPending(f)'
      BY DEF NoForgottenWipe
    <3>1. RepairPending(f)
      BY <2>1, <2>4 DEF NoForgottenWipe, OnlyReadyCalled
    <3> QED
      BY <2>1, <2>2, <3>1 DEF RepairPending, WillVisit, InPass
  <2> QED
    BY <2>3, <2>5
<1> QED
  BY <1>1, <1>2 DEF Handler

LEMMA StutterWipeInv ==
  ASSUME WipeInv, UNCHANGED committerVars
  PROVE  WipeInv'
BY DEF WipeInv, PlanIsDelta, OnlyReadyCalled, NoForgottenWipe, RepairPending,
       WillVisit, InPass, EventDue, committerVars, channelVars, runVars,
       passVars, callerVars, hookVars, tableVars, boundVars

(* NoForgottenWipe for every set of chains, any number of families,        *)
(* attempts, hooks and rewrites: as long as the lifecycle only ever asks   *)
(* for "ready", a rule that is missing always has something due that will  *)
(* look at its family again.                                               *)
THEOREM NothingForgotten == Spec => WipesRemembered
<1>1. Init => WipeInv
  BY InitWipeInv
<1>2. TypeInv /\ WipeInv /\ [Next]_committerVars /\ OnlyReadyCalled' => WipeInv'
  BY PassWipeInv, LoopWipeInv, OthersWipeInv, StutterWipeInv DEF Next, Run
<1>3. WipeInv => NoForgottenWipe
  BY DEF WipeInv
<1> QED
  BY <1>1, <1>2, <1>3, TypeCorrect, PTL DEF Spec, WipesRemembered

=============================================================================
