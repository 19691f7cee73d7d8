--------------------------- MODULE LauncherState ---------------------------
(***************************************************************************)
(* The launcher's safety state machine (lib/launcher_core/launcher_state), *)
(* its ignition driver (igniter_driver) and its continuity monitor         *)
(* (continuity), as operators from the value of the C++ static before a    *)
(* call to its value after it.  The modules that EXTEND this one decide    *)
(* when the loop makes each call.                                          *)
(*                                                                         *)
(* Operators that read millis() take the value they read as the argument   *)
(* millisNow.                                                              *)
(***************************************************************************)
EXTENDS Clock

CONSTANTS
    IGNITION_PULSE_DURATION_MS,
    POST_FIRE_COOLDOWN_MS,
    CONTINUITY_CHECK_INTERVAL_MS,
    SHORT_THRESHOLD, OPEN_THRESHOLD, PRESENT_THRESHOLD

LauncherSafetyState ==
    {"BOOTING", "DISARMED", "ARMED", "FIRING", "FIRED", "FAULT"}
LauncherEvent ==
    {"NONE", "READY", "ARMED_OK", "DISARMED_OK", "FIRE_SENT", "FIRED_OK",
     "CONTINUITY_FAIL", "INTERLOCK_BLOCKED", "COMMS_LOST", "FAULT_GENERIC"}
FaultCode ==
    {"NONE", "INVALID_MAC", "BAD_PACKET", "INTERLOCK_OFF", "CONTINUITY_OPEN",
     "CONTINUITY_SHORT", "FIRE_WHILE_DISARMED", "FIRE_TIMEOUT",
     "INTERNAL_ERROR"}
ContinuityState == {"UNKNOWN", "OPEN", "PRESENT", "SHORT_FAULT"}

\* The states in which the launcher is, or is about to be, dangerous.
Hot == {"ARMED", "FIRING"}

LauncherRuntimeState ==
    [state           : LauncherSafetyState,
     lastEvent       : LauncherEvent,
     faultCode       : FaultCode,
     continuity      : ContinuityState,
     keySwitchOn     : BOOLEAN,
     ignitionActive  : BOOLEAN,
     lastCommandRxMs : Millis]
-----------------------------------------------------------------------------
(* launcher_state.cpp *)

\* The state the enumeration begins with is never left.
InitStaysBooting ==
    [state |-> "BOOTING", lastEvent |-> "READY", faultCode |-> "NONE",
     continuity |-> "UNKNOWN", keySwitchOn |-> FALSE,
     ignitionActive |-> FALSE, lastCommandRxMs |-> 0]
launcherState_init ==
    [state |-> "DISARMED", lastEvent |-> "READY", faultCode |-> "NONE",
     continuity |-> "UNKNOWN", keySwitchOn |-> FALSE,
     ignitionActive |-> FALSE, lastCommandRxMs |-> 0]

Disarm(s) == [s EXCEPT !.state = "DISARMED", !.lastEvent = "DISARMED_OK"]
InterlockDisarm(s) == [Disarm(s) EXCEPT !.faultCode = "INTERLOCK_OFF"]

\* The cooldown stamp is taken again on every tick.
TickRestartsCooldown(s, now) ==
    IF s.state = "FIRED" THEN [s EXCEPT !.lastCommandRxMs = now] ELSE s

launcherState_tick(s, now) ==
    LET cooled ==
          IF /\ s.state = "FIRED"
             /\ Elapsed(now, s.lastCommandRxMs) >= POST_FIRE_COOLDOWN_MS
          THEN Disarm(s) ELSE s
    IN  IF ~cooled.keySwitchOn /\ cooled.state \in Hot
        THEN InterlockDisarm(cooled) ELSE cooled

\* Arming leaves the reason of an earlier refusal in faultCode.
ArmKeepsFault(s, arm) ==
    IF arm THEN IF s.keySwitchOn /\ s.state = "DISARMED"
                THEN [s EXCEPT !.state = "ARMED", !.lastEvent = "ARMED_OK"]
                ELSE s
           ELSE Disarm(s)

launcherState_onArm(s, arm) ==
    CASE ~arm -> Disarm(s)
      [] arm /\ ~s.keySwitchOn ->
           [s EXCEPT !.faultCode = "INTERLOCK_OFF",
                     !.lastEvent = "INTERLOCK_BLOCKED"]
      [] arm /\ s.keySwitchOn /\ s.state = "DISARMED" ->
           [s EXCEPT !.state = "ARMED", !.lastEvent = "ARMED_OK",
                     !.faultCode = "NONE"]
      [] OTHER -> s

Fault(s, code, event) ==
    [s EXCEPT !.state = "FAULT", !.faultCode = code, !.lastEvent = event]

\* The state check is the only one made.
FireUnchecked(s) ==
    IF s.state # "ARMED"
    THEN Fault(s, "FIRE_WHILE_DISARMED", "FAULT_GENERIC")
    ELSE [s EXCEPT !.state = "FIRING", !.lastEvent = "FIRE_SENT",
                   !.faultCode = "NONE", !.ignitionActive = TRUE]

launcherState_onFireCmd(s) ==
    CASE s.state # "ARMED" -> Fault(s, "FIRE_WHILE_DISARMED", "FAULT_GENERIC")
      [] s.state = "ARMED" /\ ~s.keySwitchOn ->
           Fault(s, "INTERLOCK_OFF", "INTERLOCK_BLOCKED")
      [] s.state = "ARMED" /\ s.keySwitchOn /\ s.continuity # "PRESENT" ->
           Fault(s, IF s.continuity = "SHORT_FAULT"
                    THEN "CONTINUITY_SHORT" ELSE "CONTINUITY_OPEN",
                 "CONTINUITY_FAIL")
      [] OTHER ->
           [s EXCEPT !.state = "FIRING", !.lastEvent = "FIRE_SENT",
                     !.faultCode = "NONE", !.ignitionActive = TRUE]

\* Turning the key off disarms an ARMED launcher, but not a FIRING one.
InterlockForgetsFiring(s, on) ==
    IF ~on /\ s.state = "ARMED"
    THEN InterlockDisarm([s EXCEPT !.keySwitchOn = on])
    ELSE [s EXCEPT !.keySwitchOn = on]

launcherState_onInterlockChanged(s, on) ==
    LET keyed == [s EXCEPT !.keySwitchOn = on]
    IN  IF ~on /\ s.state \in Hot THEN InterlockDisarm(keyed) ELSE keyed

launcherState_onContinuityChanged(s, cs) == [s EXCEPT !.continuity = cs]

\* The flag that mirrors the gate is left set.
CompleteKeepsFlag(s, millisNow) ==
    [s EXCEPT !.state = "FIRED", !.lastEvent = "FIRED_OK",
              !.lastCommandRxMs = millisNow]

launcherState_onIgnitionComplete(s, millisNow) ==
    [s EXCEPT !.ignitionActive = FALSE, !.state = "FIRED",
              !.lastEvent = "FIRED_OK", !.lastCommandRxMs = millisNow]

launcherState_canArm(s) == s.keySwitchOn /\ s.state = "DISARMED"
launcherState_canFire(s) ==
    s.state = "ARMED" /\ s.keySwitchOn /\ s.continuity = "PRESENT"
-----------------------------------------------------------------------------
(* igniter_driver.cpp: _active is written together with the gate pin in    *)
(* every function, so active = TRUE also says that the pin is HIGH.        *)

Igniter == [active : BOOLEAN, pulseStartMs : Millis]

igniter_init == [active |-> FALSE, pulseStartMs |-> 0]

igniter_startPulse(ig, millisNow) ==
    IF ig.active THEN ig ELSE [active |-> TRUE, pulseStartMs |-> millisNow]

\* The comparison is off by one, or the pulse is never found to be over.
PulseOverLate(ig, now) ==
    ig.active /\ Elapsed(now, ig.pulseStartMs) > IGNITION_PULSE_DURATION_MS
PulseOverEarly(ig, now) ==
    ig.active /\ Elapsed(now, ig.pulseStartMs) + 1 >= IGNITION_PULSE_DURATION_MS
PulseNeverOver(ig, now) ==
    ig.active /\ Elapsed(now, ig.pulseStartMs) >= CLOCK_WRAP

\* igniter_service(now) calls igniter_forceOff and igniter_onComplete.
PulseOver(ig, now) ==
    ig.active /\ Elapsed(now, ig.pulseStartMs) >= IGNITION_PULSE_DURATION_MS

igniter_forceOff(ig) == [ig EXCEPT !.active = FALSE]
-----------------------------------------------------------------------------
(* continuity.cpp *)

Continuity ==
    [state : ContinuityState, lastSampleMs : Millis, monitoring : BOOLEAN]

classifyReading(raw) ==
    CASE raw <= SHORT_THRESHOLD -> "SHORT_FAULT"
      [] raw > SHORT_THRESHOLD /\ raw <= OPEN_THRESHOLD -> "OPEN"
      [] raw > OPEN_THRESHOLD /\ raw >= PRESENT_THRESHOLD -> "PRESENT"
      [] OTHER -> "UNKNOWN"

continuity_init ==
    [state |-> "UNKNOWN", lastSampleMs |-> 0, monitoring |-> FALSE]

\* Disabling the monitor keeps the last classified reading.
MonitoringKeepsReading(c, enabled) == [c EXCEPT !.monitoring = enabled]

continuity_setMonitoringEnabled(c, enabled) ==
    CASE c.monitoring = enabled -> c
      [] c.monitoring # enabled /\ enabled -> [c EXCEPT !.monitoring = TRUE]
      [] OTHER -> [c EXCEPT !.monitoring = FALSE, !.state = "UNKNOWN"]

\* lastSampleMs = 0 stands for "never sampled", also after the clock wraps.
SampleDue(c, now) ==
    /\ c.monitoring
    /\ \/ c.lastSampleMs = 0
       \/ Elapsed(now, c.lastSampleMs) >= CONTINUITY_CHECK_INTERVAL_MS

continuity_tick(c, now, raw) ==
    IF SampleDue(c, now)
    THEN [c EXCEPT !.lastSampleMs = now, !.state = classifyReading(raw)]
    ELSE c
=============================================================================
