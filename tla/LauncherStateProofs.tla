------------------------- MODULE LauncherStateProofs -------------------------
(***************************************************************************)
(* What each call on the launcher's state machine, igniter driver and      *)
(* continuity monitor returns, for every duration and every threshold: the *)
(* lemmas that the proofs about Launcher and about TacCom share.           *)
(***************************************************************************)
EXTENDS LauncherState, ClockProofs

(* Every call on the state machine returns a LauncherRuntimeState.         *)
LEMMA StateMachineType ==
  ASSUME NEW s \in LauncherRuntimeState, NEW t \in Millis, NEW b \in BOOLEAN,
         NEW cs \in ContinuityState
  PROVE  /\ launcherState_tick(s, t) \in LauncherRuntimeState
         /\ launcherState_onArm(s, b) \in LauncherRuntimeState
         /\ launcherState_onFireCmd(s) \in LauncherRuntimeState
         /\ launcherState_onInterlockChanged(s, b) \in LauncherRuntimeState
         /\ launcherState_onContinuityChanged(s, cs) \in LauncherRuntimeState
         /\ launcherState_onIgnitionComplete(s, t) \in LauncherRuntimeState
  <1>1. launcherState_tick(s, t) \in LauncherRuntimeState
    BY DEF launcherState_tick, LauncherRuntimeState, LauncherSafetyState,
           LauncherEvent, FaultCode, Disarm, InterlockDisarm
  <1>2. launcherState_onArm(s, b) \in LauncherRuntimeState
    BY DEF launcherState_onArm, LauncherRuntimeState, LauncherSafetyState,
           LauncherEvent, FaultCode, Disarm
  <1>3. launcherState_onFireCmd(s) \in LauncherRuntimeState
    BY DEF launcherState_onFireCmd, LauncherRuntimeState, LauncherSafetyState,
           LauncherEvent, FaultCode, Fault
  <1>4. launcherState_onInterlockChanged(s, b) \in LauncherRuntimeState
    BY DEF launcherState_onInterlockChanged, LauncherRuntimeState,
           LauncherSafetyState, LauncherEvent, FaultCode, Disarm, InterlockDisarm
  <1>5. launcherState_onContinuityChanged(s, cs) \in LauncherRuntimeState
    BY DEF launcherState_onContinuityChanged, LauncherRuntimeState
  <1>6. launcherState_onIgnitionComplete(s, t) \in LauncherRuntimeState
    BY DEF launcherState_onIgnitionComplete, LauncherRuntimeState,
           LauncherSafetyState, LauncherEvent
  <1>7. QED  BY <1>1, <1>2, <1>3, <1>4, <1>5, <1>6

(* No call makes the state BOOTING.                                        *)
LEMMA NeverBooting ==
  ASSUME NEW s \in LauncherRuntimeState, s.state # "BOOTING",
         NEW t \in Millis, NEW b \in BOOLEAN, NEW cs \in ContinuityState
  PROVE  /\ launcherState_tick(s, t).state # "BOOTING"
         /\ launcherState_onArm(s, b).state # "BOOTING"
         /\ launcherState_onFireCmd(s).state # "BOOTING"
         /\ launcherState_onInterlockChanged(s, b).state # "BOOTING"
         /\ launcherState_onContinuityChanged(s, cs).state # "BOOTING"
         /\ launcherState_onIgnitionComplete(s, t).state # "BOOTING"
  <1>1. launcherState_tick(s, t).state # "BOOTING"
    BY DEF launcherState_tick, LauncherRuntimeState, Disarm, InterlockDisarm
  <1>2. launcherState_onArm(s, b).state # "BOOTING"
    BY DEF launcherState_onArm, LauncherRuntimeState, Disarm
  <1>3. launcherState_onFireCmd(s).state # "BOOTING"
    BY DEF launcherState_onFireCmd, LauncherRuntimeState, Fault
  <1>4. launcherState_onInterlockChanged(s, b).state # "BOOTING"
    BY DEF launcherState_onInterlockChanged, LauncherRuntimeState, Disarm,
           InterlockDisarm
  <1>5. /\ launcherState_onContinuityChanged(s, cs).state # "BOOTING"
        /\ launcherState_onIgnitionComplete(s, t).state # "BOOTING"
    BY DEF launcherState_onContinuityChanged, launcherState_onIgnitionComplete,
           LauncherRuntimeState
  <1>6. QED  BY <1>1, <1>2, <1>3, <1>4, <1>5

(* The igniter driver and the continuity monitor keep the types of theirs. *)
LEMMA DriverType ==
  ASSUME NEW ig \in Igniter, NEW c \in Continuity, NEW t \in Millis,
         NEW b \in BOOLEAN, NEW raw
  PROVE  /\ igniter_startPulse(ig, t) \in Igniter
         /\ igniter_forceOff(ig) \in Igniter
         /\ continuity_setMonitoringEnabled(c, b) \in Continuity
         /\ continuity_tick(c, t, raw) \in Continuity
  <1>1. igniter_startPulse(ig, t) \in Igniter /\ igniter_forceOff(ig) \in Igniter
    BY DEF igniter_startPulse, igniter_forceOff, Igniter
  <1>2. continuity_setMonitoringEnabled(c, b) \in Continuity
    BY DEF continuity_setMonitoringEnabled, Continuity, ContinuityState
  <1>3. classifyReading(raw) \in ContinuityState
    BY DEF classifyReading, ContinuityState
  <1>4. continuity_tick(c, t, raw) \in Continuity
    BY <1>3 DEF continuity_tick, Continuity
  <1>5. QED  BY <1>1, <1>2, <1>4

(* The values the statics start with have their types.                     *)
LEMMA InitialType ==
  /\ 0 \in Millis
  /\ launcherState_init \in LauncherRuntimeState
  /\ launcherState_init.state # "BOOTING"
  /\ igniter_init \in Igniter
  /\ continuity_init \in Continuity
  <1>1. 0 \in Millis  BY ClockAssumption DEF Millis
  <1>2. QED
    BY <1>1 DEF launcherState_init, LauncherRuntimeState, LauncherSafetyState,
                LauncherEvent, FaultCode, ContinuityState, igniter_init,
                Igniter, continuity_init, Continuity
-----------------------------------------------------------------------------
(* The safety of the state machine alone: what HotNeedsKey and             *)
(* FaultReasonHonest say of a value s of the state.                        *)
SafeState(s) ==
  /\ s.state \in Hot => s.keySwitchOn /\ s.faultCode = "NONE"
  /\ s.state = "FAULT" => s.faultCode # "NONE"

(* When a pulse ends the state is FIRED whatever it was, and the tick of   *)
(* the same pass leaves it FIRED or finds the cooldown over.               *)
LEMMA PulseEndState ==
  ASSUME NEW s \in LauncherRuntimeState, NEW t \in Millis, NEW u \in Millis,
         NEW r, r = launcherState_tick(launcherState_onIgnitionComplete(s, t), u)
  PROVE  /\ r.state \in {"FIRED", "DISARMED"}
         /\ r.keySwitchOn = s.keySwitchOn
         /\ r.continuity = s.continuity
         /\ ~r.ignitionActive
  BY DEF launcherState_tick, launcherState_onIgnitionComplete, Disarm,
         InterlockDisarm, Hot, LauncherRuntimeState

(* One lemma per call: it keeps a safe state safe, and this is all it does *)
(* to the state, the key, the believed continuity and the gate's mirror.   *)
LEMMA TickEffect ==
  ASSUME NEW s \in LauncherRuntimeState, SafeState(s), NEW t \in Millis,
         NEW r, r = launcherState_tick(s, t)
  PROVE  /\ SafeState(r)
         /\ r.state # s.state => s.state = "FIRED" /\ r.state = "DISARMED"
         /\ r.keySwitchOn = s.keySwitchOn
         /\ r.continuity = s.continuity
         /\ r.ignitionActive = s.ignitionActive
  BY DEF launcherState_tick, Disarm, InterlockDisarm, SafeState, Hot,
         LauncherRuntimeState

(* onArm: ARMED only from DISARMED with the key ON, and the flag is left   *)
(* alone.                                                                  *)
LEMMA ArmEffect ==
  ASSUME NEW s \in LauncherRuntimeState, SafeState(s), NEW arm \in BOOLEAN,
         NEW r, r = launcherState_onArm(s, arm)
  PROVE  /\ SafeState(r)
         /\ \/ r.state = s.state
            \/ r.state = "DISARMED"
            \/ /\ arm /\ s.keySwitchOn
               /\ s.state = "DISARMED" /\ r.state = "ARMED"
         /\ r.keySwitchOn = s.keySwitchOn
         /\ r.continuity = s.continuity
         /\ r.ignitionActive = s.ignitionActive
  BY DEF launcherState_onArm, Disarm, SafeState, Hot, LauncherRuntimeState

(* onFireCmd: FIRING only from ARMED with key and igniter, else FAULT.     *)
LEMMA FireEffect ==
  ASSUME NEW s \in LauncherRuntimeState, SafeState(s),
         NEW r, r = launcherState_onFireCmd(s)
  PROVE  /\ SafeState(r)
         /\ \/ r.state = "FAULT" /\ r.ignitionActive = s.ignitionActive
            \/ /\ r.state = "FIRING" /\ r.ignitionActive
               /\ s.state = "ARMED" /\ s.keySwitchOn
               /\ s.continuity = "PRESENT"
         /\ r.keySwitchOn = s.keySwitchOn
         /\ r.continuity = s.continuity
  BY DEF launcherState_onFireCmd, Fault, SafeState, Hot, LauncherRuntimeState

(* The key change of loop(): no hot state survives the key going OFF.      *)
LEMMA InterlockEffect ==
  ASSUME NEW s \in LauncherRuntimeState, SafeState(s), NEW on \in BOOLEAN,
         NEW r, r = IF on # s.keySwitchOn
                    THEN launcherState_onInterlockChanged(s, on) ELSE s
  PROVE  /\ SafeState(r)
         /\ r.state = IF ~on /\ s.state \in Hot THEN "DISARMED" ELSE s.state
         /\ r.keySwitchOn = on
         /\ r.continuity = s.continuity
         /\ r.ignitionActive = s.ignitionActive
  BY DEF launcherState_onInterlockChanged, Disarm, InterlockDisarm, SafeState,
         Hot, LauncherRuntimeState

(* onContinuityChanged touches nothing but the reading.                    *)
LEMMA ContinuityEffect ==
  ASSUME NEW s \in LauncherRuntimeState, SafeState(s),
         NEW cs \in ContinuityState,
         NEW r, r = launcherState_onContinuityChanged(s, cs)
  PROVE  /\ SafeState(r)
         /\ r.state = s.state
         /\ r.keySwitchOn = s.keySwitchOn
         /\ r.continuity = cs
         /\ r.ignitionActive = s.ignitionActive
  BY DEF launcherState_onContinuityChanged, SafeState, LauncherRuntimeState
=============================================================================
