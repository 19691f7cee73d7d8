--------------------------- MODULE LauncherProofs ---------------------------
(***************************************************************************)
(* Theorems about Launcher, for every clock width, every duration and      *)
(* every set of tokens and readings.                                       *)
(***************************************************************************)
EXTENDS Launcher, LauncherStateProofs

(* What gPrev remembers of a state has the type of gPrev.                  *)
LEMMA SnapshotType ==
  ASSUME NEW s \in LauncherRuntimeState
  PROVE  Snapshot(s) \in [state : LauncherSafetyState, keySwitchOn : BOOLEAN,
                          continuity : ContinuityState]
  BY DEF Snapshot, LauncherRuntimeState
-----------------------------------------------------------------------------
(* Every variable keeps its type, through every stage of the loop, every   *)
(* packet received and every reboot.                                       *)
THEOREM TypeCorrect == Spec => []TypeOK
  <1>1. Init => TypeOK
    BY InitialType, SnapshotType, LauncherAssumption
       DEF Init, TypeOK, Stages, LauncherSafetyState
  <1>2. TypeOK /\ [Next]_vars => TypeOK'
    <2> SUFFICES ASSUME TypeOK, [Next]_vars PROVE TypeOK'
      OBVIOUS
    <2> USE DEF TypeOK, Stages
    <2>1. ASSUME NEW level \in BOOLEAN, ReadInterlock(level) PROVE TypeOK'
      BY <2>1, StateMachineType, NeverBooting, DriverType
         DEF ReadInterlock, SendNothing, mailVars, ContinuityState
    <2>2. CASE TickStateMachine
      BY <2>2, StateMachineType, NeverBooting
         DEF TickStateMachine, SendNothing, mailVars, ContinuityState
    <2>3. CASE CompletePulse
      <3> DEFINE done == launcherState_onIgnitionComplete(gState, millis)
      <3>1. /\ done \in LauncherRuntimeState /\ done.state \in LauncherSafetyState
            /\ done.state # "BOOTING"
        BY StateMachineType, NeverBooting DEF ContinuityState, LauncherRuntimeState
      <3>2. gState' = launcherState_tick(done, now) /\ reported' = done.state
        BY <2>3 DEF CompletePulse, SendEndingWith
      <3> HIDE DEF done
      <3>3. gState' \in LauncherRuntimeState /\ gState'.state # "BOOTING"
        BY <3>1, <3>2, StateMachineType, NeverBooting DEF ContinuityState
      <3>4. igniter' \in Igniter
        BY <2>3, DriverType DEF CompletePulse
      <3>5. gAck' \in [pending : BOOLEAN, token : Nat] /\ openFires' \subseteq Nat
        BY <2>3 DEF CompletePulse
      <3>6. gateHighFor' \in 0 .. GHOST_CAP
        BY <2>3, LauncherAssumption DEF CompletePulse
      <3>7. QED
        BY <2>3, <3>1, <3>2, <3>3, <3>4, <3>5, <3>6 DEF CompletePulse, mailVars
    <2>4. CASE SkipArm
      BY <2>4 DEF SkipArm, SendNothing, mailVars
    <2>5. CASE ProcessArm
      <3>1. gState' \in LauncherRuntimeState /\ gState'.state # "BOOTING"
        BY <2>5, StateMachineType, NeverBooting DEF ProcessArm, ContinuityState
      <3>2. QED
        BY <2>5, <3>1 DEF ProcessArm, SendEndingWith, LauncherRuntimeState
    <2>6. CASE SkipFire
      BY <2>6 DEF SkipFire, SendNothing, mailVars
    <2>7. CASE AcceptFire
      <3>1. gState' \in LauncherRuntimeState /\ gState'.state # "BOOTING"
        BY <2>7, StateMachineType, NeverBooting DEF AcceptFire, ContinuityState
      <3>2. igniter' \in Igniter
        BY <2>7, DriverType DEF AcceptFire
      <3>3. QED
        BY <2>7, <3>1, <3>2 DEF AcceptFire, SendNothing
    <2>8. CASE RejectFire
      <3>1. gState' \in LauncherRuntimeState /\ gState'.state # "BOOTING"
        BY <2>8, StateMachineType, NeverBooting DEF RejectFire, ContinuityState
      <3>2. QED
        BY <2>8, <3>1
           DEF RejectFire, RejectAck, SendEndingWith, LauncherRuntimeState
    <2>9. ASSUME NEW raw \in RawReadings, Report(raw) PROVE TypeOK'
      <3>1. continuity' \in Continuity
        BY <2>9, DriverType DEF Report
      <3>2. gState' \in LauncherRuntimeState /\ gState'.state # "BOOTING"
        BY <2>9, <3>1, StateMachineType, NeverBooting DEF Report, Continuity
      <3>3. gPrev' \in [state : LauncherSafetyState, keySwitchOn : BOOLEAN,
                        continuity : ContinuityState]
        BY <2>9, <3>2, SnapshotType DEF Report
      <3>4. reported' \in LauncherSafetyState
        BY <2>9, <3>2
           DEF Report, SendNothing, SendEndingWith, LauncherRuntimeState
      <3>5. sampleAge' \in 0 .. GHOST_CAP
        BY <2>9, LauncherAssumption DEF Report
      <3>6. QED
        BY <2>9, <3>1, <3>2, <3>3, <3>4, <3>5 DEF Report, mailVars
    <2>10. CASE Tick
      BY <2>10, ClockType, LauncherAssumption
         DEF Tick, Aged, loopVars, mailVars
    <2>11. ASSUME NEW arm \in BOOLEAN, RecvArm(arm) PROVE TypeOK'
      BY <2>11 DEF RecvArm, loopVars, ghostVars
    <2>12. ASSUME NEW token \in Tokens, RecvFire(token) PROVE TypeOK'
      BY <2>12, LauncherAssumption DEF RecvFire, loopVars, ghostVars
    <2>13. CASE Reboot
      BY <2>13, InitialType, SnapshotType, LauncherAssumption
         DEF Reboot, LauncherSafetyState
    <2>14. CASE UNCHANGED vars
      BY <2>14 DEF vars, loopVars, mailVars, ghostVars
    <2>15. QED
      BY <2>1, <2>2, <2>3, <2>4, <2>5, <2>6, <2>7, <2>8, <2>9, <2>10, <2>11,
         <2>12, <2>13, <2>14 DEF Next, LoopStep
  <1>3. QED  BY <1>1, <1>2, PTL DEF Spec
-----------------------------------------------------------------------------
SafetyInv == HotNeedsKey /\ GateMatchesState /\ FaultReasonHonest

(* Key, state, flag and gate agree after every step: one case per action,  *)
(* each resting on what its C++ function can do to the state.              *)
LEMMA SafetyStep == TypeOK /\ SafetyInv /\ [Next]_vars => SafetyInv'
  <1> SUFFICES ASSUME TypeOK, SafetyInv, [Next]_vars PROVE SafetyInv'
    OBVIOUS
  <1> DEFINE Agree(s, ig) ==
        /\ s.ignitionActive = ig.active
        /\ s.state = "FIRING" => ig.active
        /\ s.state = "FIRED" => ~ig.active
  <1>0. /\ gState \in LauncherRuntimeState /\ now \in Millis /\ millis \in Millis
        /\ SafeState(gState) /\ Agree(gState, igniter)
    BY DEF TypeOK, SafetyInv, SafeState, HotNeedsKey, GateMatchesState,
           FaultReasonHonest
  <1>1. SUFFICES SafeState(gState') /\ Agree(gState', igniter')
    BY DEF SafetyInv, SafeState, HotNeedsKey, GateMatchesState, FaultReasonHonest
  <1>2. ASSUME NEW level \in BOOLEAN, ReadInterlock(level)
        PROVE  SafeState(gState') /\ Agree(gState', igniter')
    BY <1>0, <1>2, InterlockEffect DEF ReadInterlock, Hot
  <1>3. CASE TickStateMachine
    BY <1>0, <1>3, TickEffect DEF TickStateMachine
  <1>4. CASE CompletePulse
    <2>1. /\ gState'.state \in {"FIRED", "DISARMED"} /\ ~gState'.ignitionActive
      BY <1>0, <1>4, PulseEndState DEF CompletePulse
    <2>2. igniter'.active = FALSE
      BY <1>4 DEF CompletePulse, igniter_forceOff, TypeOK, Igniter
    <2>3. gState'.ignitionActive \in BOOLEAN
      BY <1>0, <1>4, StateMachineType
         DEF CompletePulse, ContinuityState, LauncherRuntimeState
    <2>4. QED  BY <2>1, <2>2, <2>3 DEF SafeState, Hot
  <1>5. CASE ProcessArm
    <2>1. pendingArm.arm \in BOOLEAN /\ igniter' = igniter
      BY <1>5 DEF ProcessArm, TypeOK
    <2>2. QED
      BY <1>0, <1>5, <2>1, ArmEffect DEF ProcessArm
  <1>6. CASE AcceptFire
    <2>1. SafeState(gState') /\ gState'.state = "FIRING" /\ gState'.ignitionActive
      BY <1>0, <1>6, FireEffect DEF AcceptFire
    <2>2. igniter'.active = TRUE
      BY <1>6 DEF AcceptFire, igniter_startPulse, TypeOK, Igniter
    <2>3. gState'.ignitionActive \in BOOLEAN
      BY <1>0, <1>6, StateMachineType
         DEF AcceptFire, ContinuityState, LauncherRuntimeState
    <2>4. QED  BY <2>1, <2>2, <2>3
  <1>7. CASE RejectFire
    BY <1>0, <1>7, FireEffect DEF RejectFire
  <1>8. ASSUME NEW raw \in RawReadings, Report(raw)
        PROVE  SafeState(gState') /\ Agree(gState', igniter')
    <2>1. continuity'.state \in ContinuityState
      BY <1>8, <1>0, DriverType DEF Report, TypeOK, Continuity
    <2>2. QED
      BY <1>0, <1>8, <2>1, ContinuityEffect DEF Report
  <1>9. CASE Reboot
    BY <1>9 DEF Reboot, launcherState_init, igniter_init, SafeState, Hot
  <1>10. CASE UNCHANGED <<gState, igniter>>
    BY <1>0, <1>10
  <1>11. ASSUME \/ SkipArm \/ SkipFire \/ Tick
                \/ \E arm \in BOOLEAN : RecvArm(arm)
                \/ \E token \in Tokens : RecvFire(token)
                \/ UNCHANGED vars
         PROVE  UNCHANGED <<gState, igniter>>
    BY <1>11 DEF SkipArm, SkipFire, Tick, RecvArm, RecvFire, vars, loopVars
  <1>12. QED
    BY <1>2, <1>3, <1>4, <1>5, <1>6, <1>7, <1>8, <1>9, <1>10, <1>11
       DEF Next, LoopStep

(* The launcher is never hot with the key OFF, the gate pin and the        *)
(* reported state never contradict, and faultCode always explains FAULT.   *)
THEOREM SafetyHolds == Spec => []SafetyInv
  <1>1. Init => SafetyInv
    BY DEF Init, SafetyInv, HotNeedsKey, GateMatchesState, FaultReasonHonest,
           launcherState_init, igniter_init, Hot
  <1>2. QED  BY <1>1, SafetyStep, TypeCorrect, PTL DEF Spec

(* HotNeedsKey holds in every reachable state.                             *)
THEOREM HotNeedsKeyHolds == Spec => []HotNeedsKey
  BY SafetyHolds, PTL DEF SafetyInv

(* GateMatchesState holds in every reachable state.                        *)
THEOREM GateMatchesStateHolds == Spec => []GateMatchesState
  BY SafetyHolds, PTL DEF SafetyInv

(* FaultReasonHonest holds in every reachable state.                       *)
THEOREM FaultReasonHonestHolds == Spec => []FaultReasonHonest
  BY SafetyHolds, PTL DEF SafetyInv
-----------------------------------------------------------------------------
(* Each step of the firmware is a step of the abstract authority, or       *)
(* changes nothing the authority speaks of.                                *)
LEMMA AuthorityStep ==
  TypeOK /\ SafetyInv /\ [Next]_vars => [Authority!Next]_(Authority!vars)
  <1> SUFFICES ASSUME TypeOK, SafetyInv, [Next]_vars
               PROVE  [Authority!Next]_(Authority!vars)
    OBVIOUS
  <1> USE DEF Authority!Next, Authority!vars
  <1>0. /\ gState \in LauncherRuntimeState /\ now \in Millis /\ millis \in Millis
        /\ SafeState(gState)
    BY DEF TypeOK, SafetyInv, SafeState, HotNeedsKey, FaultReasonHonest
  <1>1. ASSUME NEW level \in BOOLEAN, ReadInterlock(level)
        PROVE  [Authority!Next]_(Authority!vars)
    <2>1. /\ gState'.state = IF ~level /\ gState.state \in Hot
                             THEN "DISARMED" ELSE gState.state
          /\ gState'.keySwitchOn = level
          /\ gState'.continuity = gState.continuity
          /\ UNCHANGED <<igniter, pendingFire>>
      BY <1>0, <1>1, InterlockEffect DEF ReadInterlock, mailVars
    <2>2. gState.keySwitchOn \in BOOLEAN
      BY <1>0 DEF LauncherRuntimeState
    <2>3. CASE level = gState.keySwitchOn
      <3>1. gState'.state = gState.state
        BY <1>0, <2>1, <2>3 DEF SafeState
      <3>2. QED  BY <2>1, <2>3, <3>1
    <2>4. CASE level /\ ~gState.keySwitchOn
      <3>1. Authority!KeyOn  BY <2>1, <2>4 DEF Authority!KeyOn
      <3>2. QED  BY <3>1
    <2>5. CASE ~level /\ gState.keySwitchOn
      <3>1. Authority!KeyOff  BY <2>1, <2>5 DEF Authority!KeyOff, Hot
      <3>2. QED  BY <3>1
    <2>6. QED  BY <2>2, <2>3, <2>4, <2>5
  <1>2. CASE TickStateMachine
    <2>1. /\ gState'.state # gState.state =>
               gState.state = "FIRED" /\ gState'.state = "DISARMED"
          /\ gState'.keySwitchOn = gState.keySwitchOn
          /\ gState'.continuity = gState.continuity
          /\ UNCHANGED <<igniter, pendingFire>>
      BY <1>0, <1>2, TickEffect DEF TickStateMachine, mailVars
    <2>2. QED  BY <2>1 DEF Authority!CooldownOver
  <1>3. CASE CompletePulse
    <2>1. /\ gState'.state \in {"FIRED", "DISARMED"}
          /\ gState'.keySwitchOn = gState.keySwitchOn
          /\ gState'.continuity = gState.continuity
      BY <1>0, <1>3, PulseEndState DEF CompletePulse
    <2>2. /\ igniter.active /\ igniter'.active = FALSE
          /\ pendingFire' = pendingFire
      BY <1>3 DEF CompletePulse, PulseOver, igniter_forceOff, TypeOK, Igniter,
                  mailVars
    <2>3. Authority!PulseEnd  BY <2>1, <2>2 DEF Authority!PulseEnd
    <2>4. QED  BY <2>3
  <1>4. CASE ProcessArm
    <2>1. /\ \/ gState'.state = gState.state
             \/ gState'.state = "DISARMED"
             \/ /\ gState.keySwitchOn /\ gState.state = "DISARMED"
                /\ gState'.state = "ARMED"
          /\ gState'.keySwitchOn = gState.keySwitchOn
          /\ gState'.continuity = gState.continuity
          /\ UNCHANGED <<igniter, pendingFire>>
      BY <1>0, <1>4, ArmEffect DEF ProcessArm, TypeOK
    <2>2. QED  BY <2>1 DEF Authority!Arm, Authority!Disarm
  <1>5. CASE AcceptFire
    <2>1. /\ gState.state = "ARMED" /\ gState.keySwitchOn
          /\ gState.continuity = "PRESENT" /\ gState'.state = "FIRING"
          /\ gState'.keySwitchOn = gState.keySwitchOn
          /\ gState'.continuity = gState.continuity
      BY <1>0, <1>5, FireEffect DEF AcceptFire
    <2>2. /\ pendingFire.valid /\ pendingFire'.valid = FALSE
          /\ igniter'.active = TRUE
      BY <1>5 DEF AcceptFire, igniter_startPulse, TypeOK, Igniter
    <2>3. Authority!Fire  BY <2>1, <2>2 DEF Authority!Fire
    <2>4. QED  BY <2>3
  <1>6. CASE RejectFire
    <2>1. /\ gState'.state = "FAULT"
          /\ gState'.keySwitchOn = gState.keySwitchOn
          /\ gState'.continuity = gState.continuity
      BY <1>0, <1>6, FireEffect DEF RejectFire
    <2>2. /\ pendingFire.valid /\ pendingFire'.valid = FALSE
          /\ igniter' = igniter
      BY <1>6 DEF RejectFire, TypeOK
    <2>3. Authority!Reject  BY <2>1, <2>2 DEF Authority!Reject
    <2>4. QED  BY <2>3
  <1>7. ASSUME NEW raw \in RawReadings, Report(raw)
        PROVE  [Authority!Next]_(Authority!vars)
    <2>1. continuity'.state \in ContinuityState
      BY <1>7, <1>0, DriverType DEF Report, TypeOK, Continuity
    <2>2. /\ gState'.state = gState.state
          /\ gState'.keySwitchOn = gState.keySwitchOn
          /\ gState'.continuity \in ContinuityState
          /\ UNCHANGED <<igniter, pendingFire>>
      BY <1>0, <1>7, <2>1, ContinuityEffect DEF Report, mailVars
    <2>3. Authority!Sample
      BY <2>2 DEF Authority!Sample, ContinuityState
    <2>4. QED  BY <2>3
  <1>8. ASSUME NEW token \in Tokens, RecvFire(token)
        PROVE  [Authority!Next]_(Authority!vars)
    <2>1. Authority!Request
      BY <1>8 DEF RecvFire, loopVars, Authority!Request
    <2>2. QED  BY <2>1
  <1>9. CASE Reboot
    <2>1. Authority!Reset
      BY <1>9 DEF Reboot, launcherState_init, igniter_init, Authority!Reset
    <2>2. QED  BY <2>1
  <1>10. ASSUME \/ SkipArm \/ SkipFire \/ Tick
                \/ \E arm \in BOOLEAN : RecvArm(arm)
                \/ UNCHANGED vars
         PROVE  UNCHANGED Authority!vars
    BY <1>10 DEF SkipArm, SkipFire, Tick, RecvArm, vars, loopVars, mailVars
  <1>11. QED
    BY <1>1, <1>2, <1>3, <1>4, <1>5, <1>6, <1>7, <1>8, <1>9, <1>10
       DEF Next, LoopStep

(* The launcher firmware implements the abstract authority: the gate rises *)
(* only for one request consumed with the key ON, the state ARMED and the  *)
(* igniter last read as PRESENT, whatever the clock and the radio do.      *)
THEOREM LauncherImplementsAuthority == Spec => AuthoritySpec
  <1>1. Init => Authority!Init
    BY DEF Init, Authority!Init, launcherState_init, igniter_init
  <1>2. QED
    BY <1>1, AuthorityStep, TypeCorrect, SafetyHolds, PTL
       DEF Spec, AuthoritySpec, Authority!Spec
-----------------------------------------------------------------------------
(* The last STATUS agrees with the state on being hot, except while a pass *)
(* that read a change of the key has not reached its report yet.           *)
ReportInv ==
  /\ pc = "top" => gPrev = Snapshot(gState)
  /\ \/ reported \in Hot <=> gState.state \in Hot
     \/ gState.keySwitchOn # gPrev.keySwitchOn
  /\ pc = "halted" => reported \notin Hot /\ gState.state \notin Hot

(* The last STATUS and gPrev agree with the state as far as the stage of   *)
(* the pass promises, after every step.                                    *)
LEMMA ReportStep == TypeOK /\ SafetyInv /\ ReportInv /\ [Next]_vars => ReportInv'
  <1> SUFFICES ASSUME TypeOK, SafetyInv, ReportInv, [Next]_vars PROVE ReportInv'
    OBVIOUS
  <1>0. /\ gState \in LauncherRuntimeState /\ now \in Millis /\ millis \in Millis
        /\ SafeState(gState) /\ pc \in Stages \cup {"halted"}
    BY DEF TypeOK, SafetyInv, SafeState, HotNeedsKey, FaultReasonHonest
  <1>1. ASSUME NEW level \in BOOLEAN, ReadInterlock(level) PROVE ReportInv'
    <2>1. /\ gState'.state = IF ~level /\ gState.state \in Hot
                             THEN "DISARMED" ELSE gState.state
          /\ gState'.keySwitchOn = level
      BY <1>0, <1>1, InterlockEffect DEF ReadInterlock
    <2>2. /\ gPrev'.keySwitchOn = gState.keySwitchOn /\ reported' = reported
          /\ pc' = "service" /\ (reported \in Hot <=> gState.state \in Hot)
      BY <1>1 DEF ReadInterlock, SendNothing, ReportInv, Snapshot
    <2>3. CASE level = gState.keySwitchOn
      BY <1>0, <2>1, <2>2, <2>3 DEF SafeState, ReportInv
    <2>4. CASE level # gState.keySwitchOn
      BY <2>1, <2>2, <2>4 DEF ReportInv
    <2>5. QED  BY <2>3, <2>4
  <1>2. CASE TickStateMachine
    <2>1. /\ gState'.state # gState.state =>
               gState.state = "FIRED" /\ gState'.state = "DISARMED"
          /\ gState'.keySwitchOn = gState.keySwitchOn
      BY <1>0, <1>2, TickEffect DEF TickStateMachine
    <2>2. gPrev' = gPrev /\ reported' = reported /\ pc' = "arm"
      BY <1>2 DEF TickStateMachine, SendNothing
    <2>3. QED  BY <2>1, <2>2 DEF ReportInv, Hot
  <1>3. CASE CompletePulse
    <2>1. gState'.state \in {"FIRED", "DISARMED"}
      BY <1>0, <1>3, PulseEndState DEF CompletePulse
    <2>2. reported' = "FIRED" /\ pc' = "arm"
      BY <1>0, <1>3
         DEF CompletePulse, SendEndingWith, launcherState_onIgnitionComplete,
             LauncherRuntimeState
    <2>3. QED  BY <2>1, <2>2 DEF ReportInv, Hot
  <1>4. CASE ProcessArm
    BY <1>4 DEF ProcessArm, SendEndingWith, ReportInv
  <1>5. CASE AcceptFire
    <2>1. /\ gState.state = "ARMED" /\ gState'.state = "FIRING"
          /\ gState'.keySwitchOn = gState.keySwitchOn
      BY <1>0, <1>5, FireEffect DEF AcceptFire
    <2>2. gPrev' = gPrev /\ reported' = reported /\ pc' = "report"
      BY <1>5 DEF AcceptFire, SendNothing
    <2>3. QED  BY <2>1, <2>2 DEF ReportInv, Hot
  <1>6. CASE RejectFire
    BY <1>6 DEF RejectFire, SendEndingWith, ReportInv
  <1>7. ASSUME NEW raw \in RawReadings, Report(raw) PROVE ReportInv'
    <2>1. continuity'.state \in ContinuityState
      BY <1>7, <1>0, DriverType DEF Report, TypeOK, Continuity
    <2>2. /\ gState'.state = gState.state
          /\ gState'.keySwitchOn = gState.keySwitchOn
      BY <1>0, <1>7, <2>1, ContinuityEffect DEF Report
    <2>3. gPrev' = Snapshot(gState') /\ pc' = "top"
      BY <1>7 DEF Report
    <2>4. CASE stateChanged(gState', gPrev)
      <3>1. reported' = gState'.state
        BY <1>7, <2>4 DEF Report, SendEndingWith
      <3>2. QED  BY <2>3, <3>1 DEF ReportInv
    <2>5. CASE ~stateChanged(gState', gPrev)
      <3>1. reported' = reported \/ reported' = gState'.state
        BY <1>7 DEF Report, SendEndingWith, SendNothing
      <3>2. gPrev.keySwitchOn = gState.keySwitchOn
        BY <2>2, <2>5 DEF stateChanged, Snapshot
      <3>3. QED  BY <2>2, <2>3, <3>1, <3>2 DEF ReportInv
    <2>6. QED  BY <2>4, <2>5
  <1>8. CASE Reboot
    BY <1>8 DEF Reboot, ReportInv, launcherState_init, Hot
  <1>9. CASE SkipArm \/ SkipFire
    BY <1>9 DEF SkipArm, SkipFire, SendNothing, ReportInv
  <1>10. ASSUME \/ Tick
                \/ \E arm \in BOOLEAN : RecvArm(arm)
                \/ \E token \in Tokens : RecvFire(token)
                \/ UNCHANGED vars
         PROVE  ReportInv'
    BY <1>10 DEF Tick, RecvArm, RecvFire, vars, loopVars, ghostVars, ReportInv
  <1>11. QED
    BY <1>1, <1>2, <1>3, <1>4, <1>5, <1>6, <1>7, <1>8, <1>9, <1>10
       DEF Next, LoopStep

(* At the end of every pass the wrist has been told ARMED or FIRING        *)
(* exactly when the launcher is ARMED or FIRING.                           *)
THEOREM ReportedHotIffHotHolds == Spec => []ReportedHotIffHot
  <1>1. Init => ReportInv
    BY DEF Init, ReportInv, launcherState_init, Hot
  <1>2. ReportInv => ReportedHotIffHot
    BY DEF ReportInv, ReportedHotIffHot, Snapshot
  <1>3. QED
    BY <1>1, <1>2, ReportStep, TypeCorrect, SafetyHolds, PTL DEF Spec
-----------------------------------------------------------------------------
(* The one token kept for the acknowledgement is an accepted, open one.    *)
AckInv == gAck.pending => gAck.token \in openFires

(* Only AcceptFire makes an ack pending, and it opens the token it keeps.  *)
LEMMA AckStep == TypeOK /\ AckInv /\ [Next]_vars => AckInv'
  <1> SUFFICES ASSUME TypeOK, AckInv, [Next]_vars PROVE AckInv'
    OBVIOUS
  <1> USE DEF AckInv
  <1>1. CASE CompletePulse
    BY <1>1 DEF CompletePulse, TypeOK
  <1>2. CASE AcceptFire
    BY <1>2 DEF AcceptFire
  <1>3. CASE RejectFire
    BY <1>3 DEF RejectFire, RejectAck
  <1>4. CASE Reboot
    BY <1>4 DEF Reboot
  <1>5. ASSUME \/ \E level \in BOOLEAN : ReadInterlock(level)
               \/ TickStateMachine \/ SkipArm \/ ProcessArm \/ SkipFire
               \/ \E raw \in RawReadings : Report(raw)
        PROVE  UNCHANGED <<gAck, openFires>>
    BY <1>5 DEF ReadInterlock, TickStateMachine, SkipArm, ProcessArm, SkipFire,
                Report
  <1>6. ASSUME \/ Tick
               \/ \E arm \in BOOLEAN : RecvArm(arm)
               \/ \E token \in Tokens : RecvFire(token)
               \/ UNCHANGED vars
        PROVE  UNCHANGED <<gAck, openFires>>
    BY <1>6 DEF Tick, RecvArm, RecvFire, vars, loopVars, ghostVars
  <1>7. QED
    BY <1>1, <1>2, <1>3, <1>4, <1>5, <1>6 DEF Next, LoopStep

\* The packets of a sequence that accept a fire request name open ones.
AcksAreOpen(packets) ==
  \A i \in DOMAIN packets :
    packets[i].msgType = "FIRE_ACK" /\ packets[i].accepted =>
      packets[i].requestToken \in openFires

(* A STATUS acknowledges nothing.                                          *)
LEMMA StatusAcceptsNothing ==
  ASSUME NEW s
  PROVE  /\ AcksAreOpen(<<>>)
         /\ AcksAreOpen(<<StatusPacket(s)>>)
  <1>1. StatusPacket(s).msgType = "STATUS"
    BY DEF StatusPacket
  <1> HIDE DEF StatusPacket
  <1>2. QED  BY <1>1 DEF AcksAreOpen

(* Sequences of at most one packet, as the stages of a pass send them.     *)
LEMMA ShortSequences ==
  ASSUME NEW x, NEW y
  PROVE  /\ <<>> \in Seq({x, y})
         /\ <<x>> \in Seq({x, y})
         /\ <<y>> \in Seq({x, y})
  OBVIOUS

(* Two runs of packets that acknowledge open requests do so together.      *)
LEMMA AcksAreOpenConcat ==
  ASSUME NEW S, NEW a \in Seq(S), NEW b \in Seq(S),
         AcksAreOpen(a), AcksAreOpen(b)
  PROVE  AcksAreOpen(a \o b)
  <1> SUFFICES ASSUME NEW i \in DOMAIN (a \o b),
                      (a \o b)[i].msgType = "FIRE_ACK", (a \o b)[i].accepted
               PROVE  (a \o b)[i].requestToken \in openFires
    BY DEF AcksAreOpen
  <1>1. CASE i <= Len(a)
    BY <1>1 DEF AcksAreOpen
  <1>2. CASE i > Len(a)
    <2>1. (a \o b)[i] = b[i - Len(a)] /\ i - Len(a) \in DOMAIN b
      BY <1>2
    <2>2. QED  BY <2>1 DEF AcksAreOpen
  <1>3. QED  BY <1>1, <1>2

(* Every step sends only acknowledgements of open requests.                *)
LEMMA AckSendStep == TypeOK /\ AckInv /\ Next => AcksAreOpen(sent')
  <1> SUFFICES ASSUME TypeOK, AckInv, Next PROVE AcksAreOpen(sent')
    OBVIOUS
  <1>1. CASE CompletePulse
    <2> DEFINE done == launcherState_onIgnitionComplete(gState, millis)
               ack == FireAckPacket(done, gAck.token, TRUE)
               status == StatusPacket(done)
               acks == IF gAck.pending THEN <<ack>> ELSE <<>>
    <2>1. sent' = acks \o <<status>>
      BY <1>1 DEF CompletePulse, SendEndingWith
    <2>2. AcksAreOpen(<<status>>)
      BY StatusAcceptsNothing
    <2>3. ack.requestToken = gAck.token
      BY DEF FireAckPacket
    <2> HIDE DEF ack, status
    <2>4. AcksAreOpen(acks)
      BY <2>3 DEF AckInv, AcksAreOpen
    <2>5. acks \in Seq({ack, status}) /\ <<status>> \in Seq({ack, status})
      BY ShortSequences
    <2> HIDE DEF acks
    <2>6. QED  BY <2>1, <2>2, <2>4, <2>5, AcksAreOpenConcat
  <1>2. CASE RejectFire
    <2> DEFINE ack == FireAckPacket(gState', pendingFire.requestToken, FALSE)
               status == StatusPacket(gState')
    <2>1. sent' = <<ack, status>>
      BY <1>2 DEF RejectFire, SendEndingWith
    <2>2. ack.accepted = FALSE  BY DEF FireAckPacket
    <2>3. status.msgType = "STATUS"  BY DEF StatusPacket
    <2> HIDE DEF ack, status
    <2>4. QED  BY <2>1, <2>2, <2>3 DEF AcksAreOpen
  <1>3. CASE ProcessArm
    BY <1>3, StatusAcceptsNothing DEF ProcessArm, SendEndingWith
  <1>4. ASSUME NEW raw \in RawReadings, Report(raw) PROVE AcksAreOpen(sent')
    <2> DEFINE status == StatusPacket(gState')
    <2>1. AcksAreOpen(<<>>) /\ AcksAreOpen(<<status>>)
      BY StatusAcceptsNothing
    <2>2. PICK a \in {<<>>, <<status>>}, b \in {<<>>, <<status>>} :
            sent' = a \o b
      BY <1>4 DEF Report, SendEndingWith, SendNothing
    <2> HIDE DEF status
    <2>3. a \in Seq({status, status}) /\ b \in Seq({status, status})
      <3>1. <<>> \in Seq({status, status}) /\ <<status>> \in Seq({status, status})
        BY ShortSequences
      <3>2. QED  BY <3>1
    <2>4. QED  BY <2>1, <2>2, <2>3, AcksAreOpenConcat
  <1>5. ASSUME \/ \E level \in BOOLEAN : ReadInterlock(level)
               \/ TickStateMachine \/ SkipArm \/ SkipFire \/ AcceptFire
               \/ Tick
               \/ \E arm \in BOOLEAN : RecvArm(arm)
               \/ \E token \in Tokens : RecvFire(token)
               \/ Reboot
        PROVE  sent' = <<>>
    BY <1>5 DEF ReadInterlock, TickStateMachine, SkipArm, SkipFire, AcceptFire,
                Tick, RecvArm, RecvFire, Reboot, SendNothing
  <1>6. AcksAreOpen(<<>>)  BY StatusAcceptsNothing
  <1>7. QED
    BY <1>1, <1>2, <1>3, <1>4, <1>5, <1>6 DEF Next, LoopStep

(* The wrist is never told that a refused, unknown or already acknowledged *)
(* request was accepted.                                                   *)
THEOREM NoPhantomAckHolds == Spec => NoPhantomAck
  <1>1. Init => AckInv
    BY DEF Init, AckInv
  <1>2. TypeOK /\ AckInv /\ [Next]_vars =>
          [\A i \in DOMAIN sent' :
             sent'[i].msgType = "FIRE_ACK" /\ sent'[i].accepted =>
               sent'[i].requestToken \in openFires]_vars
    BY AckSendStep DEF AcksAreOpen
  <1>3. QED
    BY <1>1, <1>2, AckStep, TypeCorrect, PTL DEF Spec, NoPhantomAck
=============================================================================
