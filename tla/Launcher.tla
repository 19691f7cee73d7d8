------------------------------ MODULE Launcher ------------------------------
(***************************************************************************)
(* The launcher firmware: setup() and loop() of src/launcher/main.cpp, run *)
(* by the Arduino loop task, and the effect of the ESP-NOW receive         *)
(* callback (radio_link.cpp), run by the WiFi task between any two steps   *)
(* of the loop.  One pass of loop() is split where something outside it    *)
(* can interfere: at each mailbox it reads and at each reading of millis().*)
(*                                                                         *)
(* The clock advances between any two steps; MAX_ITER_MS bounds the time   *)
(* from one reading of `now` to the next.  The mailbox is atomic here      *)
(* (module RadioLink is not): a torn read of it delivers a stale or a lost *)
(* command, which the network can also do, since every ARM_SET and         *)
(* FIRE_CMD may arrive at any time.                                        *)
(***************************************************************************)
EXTENDS LauncherState, Sequences

CONSTANTS
    STATUS_BROADCAST_INTERVAL_MS,
    MAX_ITER_MS,     \* bound: the longest pass of loop(), in clock units
    GHOST_CAP,       \* bound: where the measured durations saturate
    Tokens,          \* requestToken values of FIRE_CMD packets
    RawReadings      \* averaged ADC readings of the continuity input

ASSUME LauncherAssumption ==
    /\ Tokens \subseteq Nat
    /\ RawReadings \subseteq Nat
    /\ GHOST_CAP \in Nat

\* No interval, two passes of loop() added, comes near a wrap of the clock: in
\* the code at most some seconds against 49.7 days.
ASSUME TimingAssumption ==
    /\ MAX_ITER_MS \in Nat
    /\ \A interval \in {IGNITION_PULSE_DURATION_MS,
                        CONTINUITY_CHECK_INTERVAL_MS,
                        STATUS_BROADCAST_INTERVAL_MS} :
          interval \in Nat \ {0} /\ interval + 2 * MAX_ITER_MS <= CLOCK_WRAP

VARIABLES
    millis,           \* the hardware clock
    pc,               \* the stage of loop() that runs next
    now,              \* loop()'s local of that name
    gState,           \* LauncherRuntimeState
    igniter,          \* statics of igniter_driver.cpp, and the gate pin
    continuity,       \* statics of continuity.cpp
    gPrev,            \* gPrevState, gPrevKeySwitch, gPrevContinuity
    gLastStatusTxMs,
    gAck,             \* gFireAckPending, gPendingFireToken
    pendingArm,       \* s_pendingArm
    pendingFire,      \* s_pendingFire
    sent              \* packets the last step gave to esp_now_send

\* What an observer would record; read by properties only.
VARIABLES
    gateHighFor,      \* how long the gate has been HIGH
    sampleAge,        \* how long ago the ADC was last sampled
    reported,         \* launcherState of the last STATUS since boot
    openFires         \* tokens accepted and not yet acknowledged

loopVars == <<pc, now, gState, igniter, continuity, gPrev, gLastStatusTxMs, gAck>>
mailVars == <<pendingArm, pendingFire>>
ghostVars == <<gateHighFor, sampleAge, reported, openFires>>
vars == <<millis, loopVars, mailVars, sent, ghostVars>>

Stages == {"top", "service", "arm", "fire", "report"}

Snapshot(s) == [state |-> s.state, keySwitchOn |-> s.keySwitchOn,
                continuity |-> s.continuity]

\* radio_link_sendStatus and radio_link_sendFireAck: the packets they build.
StatusPacket(s) ==
    [msgType |-> "STATUS", launcherState |-> s.state,
     continuityState |-> s.continuity, lastEvent |-> s.lastEvent,
     faultCode |-> s.faultCode, keySwitchOn |-> s.keySwitchOn,
     canArm |-> launcherState_canArm(s), canFire |-> launcherState_canFire(s)]
FireAckPacket(s, token, accepted) ==
    [msgType |-> "FIRE_ACK", requestToken |-> token, accepted |-> accepted,
     launcherState |-> s.state, lastEvent |-> s.lastEvent,
     faultCode |-> s.faultCode]

\* A step that sends packets ends with a STATUS of state s.
SendEndingWith(packets, s) == sent' = packets /\ reported' = s.state
SendNothing == sent' = <<>> /\ UNCHANGED reported
-----------------------------------------------------------------------------
\* After setup(): radio_link_init, or the endless loop when ESP-NOW is down.
Init ==
    /\ millis = 0 /\ now = 0
    /\ pc \in {"top", "halted"}
    /\ gState = launcherState_init
    /\ igniter = igniter_init
    /\ continuity = continuity_init
    /\ gPrev = Snapshot(launcherState_init)
    /\ gLastStatusTxMs = 0
    /\ gAck = [pending |-> FALSE, token |-> 0]
    /\ pendingArm = [valid |-> FALSE, arm |-> FALSE]
    /\ pendingFire = [valid |-> FALSE, requestToken |-> 0]
    /\ sent = <<>>
    /\ gateHighFor = 0 /\ sampleAge = 0
    /\ reported = "BOOTING" /\ openFires = {}

\* A brown-out, watchdog or power cycle: RAM is lost and setup() runs again.
Reboot ==
    /\ millis' = 0 /\ now' = 0
    /\ pc' \in {"top", "halted"}
    /\ gState' = launcherState_init
    /\ igniter' = igniter_init
    /\ continuity' = continuity_init
    /\ gPrev' = Snapshot(launcherState_init)
    /\ gLastStatusTxMs' = 0
    /\ gAck' = [pending |-> FALSE, token |-> 0]
    /\ pendingArm' = [valid |-> FALSE, arm |-> FALSE]
    /\ pendingFire' = [valid |-> FALSE, requestToken |-> 0]
    /\ sent' = <<>>
    /\ gateHighFor' = 0 /\ sampleAge' = 0
    /\ reported' = "BOOTING" /\ openFires' = {}
-----------------------------------------------------------------------------
(* Time and the receive callback. *)

Aged(n) == IF n < GHOST_CAP THEN n + 1 ELSE n

Tick ==
    /\ pc # "halted"
    /\ Elapsed(millis, now) < MAX_ITER_MS
    /\ millis' = NextMillis(millis)
    /\ gateHighFor' = IF igniter.active THEN Aged(gateHighFor) ELSE 0
    /\ sampleAge' = Aged(sampleAge)
    /\ sent' = <<>>
    /\ UNCHANGED <<loopVars, mailVars, reported, openFires>>

\* onRecv of a valid ARM_SET; a command not yet consumed is overwritten.
RecvArm(arm) ==
    /\ pc # "halted"
    /\ pendingArm' = [valid |-> TRUE, arm |-> arm]
    /\ sent' = <<>>
    /\ UNCHANGED <<millis, loopVars, pendingFire, ghostVars>>

\* onRecv of a valid FIRE_CMD.
RecvFire(token) ==
    /\ pc # "halted"
    /\ pendingFire' = [valid |-> TRUE, requestToken |-> token]
    /\ sent' = <<>>
    /\ UNCHANGED <<millis, loopVars, pendingArm, ghostVars>>
-----------------------------------------------------------------------------
(* One pass of loop(). *)

\* Stages 1 and 2: read the clock and the key switch.
ReadInterlock(level) ==
    /\ pc = "top"
    /\ now' = millis
    /\ gState' = IF level # gState.keySwitchOn
                 THEN launcherState_onInterlockChanged(gState, level)
                 ELSE gState
    /\ continuity' = continuity_setMonitoringEnabled(continuity, level)
    /\ pc' = "service"
    /\ SendNothing
    /\ UNCHANGED <<millis, igniter, gPrev, gLastStatusTxMs, gAck, mailVars,
                   gateHighFor, sampleAge, openFires>>

\* Stages 3 and 4, no pulse to end: launcherState_tick.
TickStateMachine ==
    /\ pc = "service"
    /\ ~PulseOver(igniter, now)
    /\ gState' = launcherState_tick(gState, now)
    /\ pc' = "arm"
    /\ SendNothing
    /\ UNCHANGED <<millis, now, igniter, continuity, gPrev, gLastStatusTxMs,
                   gAck, mailVars, gateHighFor, sampleAge, openFires>>

\* Stages 3 and 4, the pulse is over: onIgnitionComplete, then the tick with
\* the `now` that was read before the cooldown stamp.
CompletePulse ==
    /\ pc = "service"
    /\ PulseOver(igniter, now)
    /\ igniter' = igniter_forceOff(igniter)
    /\ LET done == launcherState_onIgnitionComplete(gState, millis)
           acks == IF gAck.pending
                   THEN <<FireAckPacket(done, gAck.token, TRUE)>> ELSE <<>>
       IN  /\ gState' = launcherState_tick(done, now)
           /\ SendEndingWith(acks \o <<StatusPacket(done)>>, done)
    /\ openFires' = IF gAck.pending THEN openFires \ {gAck.token} ELSE openFires
    /\ gAck' = [gAck EXCEPT !.pending = FALSE]
    /\ gateHighFor' = 0
    /\ pc' = "arm"
    /\ UNCHANGED <<millis, now, continuity, gPrev, gLastStatusTxMs, mailVars,
                   sampleAge>>

\* Stage 5, with and without a pending ARM_SET.
SkipArm ==
    /\ pc = "arm" /\ ~pendingArm.valid
    /\ pc' = "fire"
    /\ SendNothing
    /\ UNCHANGED <<millis, now, gState, igniter, continuity, gPrev,
                   gLastStatusTxMs, gAck, mailVars, gateHighFor, sampleAge,
                   openFires>>

\* The command is left in the mailbox.
ProcessArmAgain ==
    /\ pc = "arm" /\ pendingArm.valid
    /\ gState' = launcherState_onArm(gState, pendingArm.arm)
    /\ SendEndingWith(<<StatusPacket(gState')>>, gState')
    /\ pc' = "fire"
    /\ UNCHANGED <<millis, now, igniter, continuity, gPrev, gLastStatusTxMs,
                   gAck, pendingArm, pendingFire, gateHighFor, sampleAge,
                   openFires>>

ProcessArm ==
    /\ pc = "arm" /\ pendingArm.valid
    /\ pendingArm' = [pendingArm EXCEPT !.valid = FALSE]
    /\ gState' = launcherState_onArm(gState, pendingArm.arm)
    /\ SendEndingWith(<<StatusPacket(gState')>>, gState')
    /\ pc' = "fire"
    /\ UNCHANGED <<millis, now, igniter, continuity, gPrev, gLastStatusTxMs,
                   gAck, pendingFire, gateHighFor, sampleAge, openFires>>

\* Stage 6, without a FIRE_CMD, with one that passes and one that fails the
\* checks of launcherState_onFireCmd.
SkipFire ==
    /\ pc = "fire" /\ ~pendingFire.valid
    /\ pc' = "report"
    /\ SendNothing
    /\ UNCHANGED <<millis, now, gState, igniter, continuity, gPrev,
                   gLastStatusTxMs, gAck, mailVars, gateHighFor, sampleAge,
                   openFires>>

AcceptFire ==
    /\ pc = "fire" /\ pendingFire.valid
    /\ pendingFire' = [pendingFire EXCEPT !.valid = FALSE]
    /\ gState' = launcherState_onFireCmd(gState)
    /\ gState'.state = "FIRING"
    /\ igniter' = igniter_startPulse(igniter, millis)
    /\ gAck' = [pending |-> TRUE, token |-> pendingFire.requestToken]
    /\ openFires' = openFires \cup {pendingFire.requestToken}
    /\ pc' = "report"
    /\ SendNothing
    /\ UNCHANGED <<millis, now, continuity, gPrev, gLastStatusTxMs, pendingArm,
                   gateHighFor, sampleAge>>

\* The refused command keeps its place as the one to acknowledge.
RejectKeepsAck(token) == [pending |-> TRUE, token |-> token]
RejectAck(token) == [pending |-> FALSE, token |-> token]

RejectFire ==
    /\ pc = "fire" /\ pendingFire.valid
    /\ pendingFire' = [pendingFire EXCEPT !.valid = FALSE]
    /\ gState' = launcherState_onFireCmd(gState)
    /\ gState'.state # "FIRING"
    /\ gAck' = RejectAck(pendingFire.requestToken)
    /\ SendEndingWith(<<FireAckPacket(gState', pendingFire.requestToken, FALSE),
                        StatusPacket(gState')>>, gState')
    /\ pc' = "report"
    /\ UNCHANGED <<millis, now, igniter, continuity, gPrev, gLastStatusTxMs,
                   pendingArm, gateHighFor, sampleAge, openFires>>

\* Only the continuity reading is compared with the last pass, as if every
\* handler already sent its own STATUS.
ChangedContinuityOnly(s, prev) == s.continuity # prev.continuity
stateChanged(s, prev) == Snapshot(s) # prev

\* The broadcast waits one unit too long.
StatusDueLate(t, last) == Elapsed(t, last) > STATUS_BROADCAST_INTERVAL_MS
StatusDue(t, last) == Elapsed(t, last) >= STATUS_BROADCAST_INTERVAL_MS

\* Stages 7 to 9: continuity sample, STATUS on change, periodic STATUS.
Report(raw) ==
    /\ pc = "report"
    /\ continuity' = continuity_tick(continuity, now, raw)
    /\ sampleAge' = IF SampleDue(continuity, now) THEN 0 ELSE sampleAge
    /\ gState' = launcherState_onContinuityChanged(gState, continuity'.state)
    /\ gPrev' = Snapshot(gState')
    /\ gLastStatusTxMs' =
         IF StatusDue(now, gLastStatusTxMs) THEN now ELSE gLastStatusTxMs
    /\ LET onChange == IF stateChanged(gState', gPrev)
                       THEN <<StatusPacket(gState')>> ELSE <<>>
           periodic == IF StatusDue(now, gLastStatusTxMs)
                       THEN <<StatusPacket(gState')>> ELSE <<>>
       IN  IF onChange \o periodic = <<>>
           THEN SendNothing ELSE SendEndingWith(onChange \o periodic, gState')
    /\ pc' = "top"
    /\ UNCHANGED <<millis, now, igniter, gAck, mailVars, gateHighFor, openFires>>
-----------------------------------------------------------------------------
LoopStep ==
    \/ \E level \in BOOLEAN : ReadInterlock(level)
    \/ TickStateMachine
    \/ CompletePulse
    \/ SkipArm
    \/ ProcessArm
    \/ SkipFire
    \/ AcceptFire
    \/ RejectFire
    \/ \E raw \in RawReadings : Report(raw)

Next ==
    \/ LoopStep
    \/ Tick
    \/ \E arm \in BOOLEAN : RecvArm(arm)
    \/ \E token \in Tokens : RecvFire(token)
    \/ Reboot

Spec == Init /\ [][Next]_vars

\* The FreeRTOS loop task is never starved for ever and the clock never stops.
FairSpec == Spec /\ WF_vars(LoopStep) /\ WF_vars(Tick)
-----------------------------------------------------------------------------
(* Type correctness of every variable the code keeps, and setup() has left *)
(* BOOTING for good before loop() and its packets can show it.             *)
TypeOK ==
    /\ millis \in Millis /\ now \in Millis
    /\ pc \in Stages \cup {"halted"}
    /\ gState \in LauncherRuntimeState /\ gState.state # "BOOTING"
    /\ igniter \in Igniter
    /\ continuity \in Continuity
    /\ gPrev \in [state : LauncherSafetyState, keySwitchOn : BOOLEAN,
                  continuity : ContinuityState]
    /\ gLastStatusTxMs \in Millis
    /\ gAck \in [pending : BOOLEAN, token : Nat]
    /\ pendingArm \in [valid : BOOLEAN, arm : BOOLEAN]
    /\ pendingFire \in [valid : BOOLEAN, requestToken : Nat]
    /\ gateHighFor \in 0 .. GHOST_CAP /\ sampleAge \in 0 .. GHOST_CAP
    /\ reported \in LauncherSafetyState /\ openFires \subseteq Nat

(* The launcher is ARMED or FIRING only with the key switch ON: two places *)
(* (onInterlockChanged, tick) disarm, and onArm must not undo them.        *)
HotNeedsKey == gState.state \in Hot => gState.keySwitchOn

(* The state reported to the wrist and the gate pin, kept by two different *)
(* files, never contradict: FIRING has the gate HIGH, FIRED has it LOW,    *)
(* and ignitionActive mirrors the pin through every disarm and fault.      *)
GateMatchesState ==
    /\ gState.ignitionActive = igniter.active
    /\ gState.state = "FIRING" => igniter.active
    /\ gState.state = "FIRED" => ~igniter.active

(* faultCode explains the state: none while ARMED or FIRING, whatever was  *)
(* refused before, and always one in FAULT.                                *)
FaultReasonHonest ==
    /\ gState.state \in Hot => gState.faultCode = "NONE"
    /\ gState.state = "FAULT" => gState.faultCode # "NONE"

(* However commands, key changes and faults interleave with a pulse, the   *)
(* gate is never HIGH longer than the pulse and two passes of the loop.    *)
GateTimeBounded ==
    gateHighFor <= IGNITION_PULSE_DURATION_MS - 1 + 2 * MAX_ITER_MS

(* No reading of the clock cuts a pulse short: the gate falls after the    *)
(* full IGNITION_PULSE_DURATION_MS unless the launcher reboots.            *)
PulseRunsItsLength ==
    [][igniter.active /\ ~igniter'.active =>
          gateHighFor >= IGNITION_PULSE_DURATION_MS \/ Reboot]_vars

(* The gate rises only on a PRESENT reading no older than the sampling     *)
(* interval and two passes, also when the key was off in between.  That is *)
(* what the code ensures, by a reading of an earlier pass; it is less than *)
(* the fresh check the documents ask for (ContinuityCheckedBeforeFiring).  *)
IgnitionOnRecentContinuity ==
    [][~igniter.active /\ igniter'.active =>
          /\ gState.continuity = "PRESENT"
          /\ sampleAge <= CONTINUITY_CHECK_INTERVAL_MS - 1 + 2 * MAX_ITER_MS]_vars

(* At the end of every pass the last STATUS sent since boot says ARMED or  *)
(* FIRING exactly when the launcher is: comparing with gPrev misses no     *)
(* dangerous state, though it misses changes undone within a pass.         *)
ReportedHotIffHot ==
    pc = "top" => (reported \in Hot <=> gState.state \in Hot)

(* The periodic STATUS is never later than its interval and two passes,    *)
(* through every wrap of the clock.                                        *)
StatusFresh ==
    pc # "halted" =>
      Elapsed(millis, gLastStatusTxMs)
        <= STATUS_BROADCAST_INTERVAL_MS - 1 + 2 * MAX_ITER_MS

(* An accepting FIRE_ACK names a command that did start or join a pulse    *)
(* and was not acknowledged before, though one slot holds the token while  *)
(* other commands come and are refused.                                    *)
NoPhantomAck ==
    [][\A i \in DOMAIN sent' :
          sent'[i].msgType = "FIRE_ACK" /\ sent'[i].accepted =>
            sent'[i].requestToken \in openFires]_vars

(* The firmware implements the abstract authority over the gate.           *)
Authority == INSTANCE IgnitionAuthority
    WITH phase <- gState.state, key <- gState.keySwitchOn,
         gate <- igniter.active, continuity <- gState.continuity,
         request <- pendingFire.valid
AuthoritySpec == Authority!Spec

(* A pulse ends, whatever arrives during it.                               *)
PulseEnds == igniter.active ~> ~igniter.active

(* FIRED is left: the cooldown comparison cannot be missed for ever.       *)
FiredEnds == gState.state = "FIRED" ~> gState.state # "FIRED"

(* Every command that reaches a mailbox is taken out of it.                *)
CommandsDrained ==
    /\ pendingArm.valid ~> ~pendingArm.valid
    /\ pendingFire.valid ~> ~pendingFire.valid

(* FIRMWARE_ARCHITECTURE.md: the gate is only driven HIGH while FIRING.    *)
GateOnlyWhileFiring == igniter.active => gState.state = "FIRING"

(* FIRMWARE_ARCHITECTURE.md:1036: "always perform a fresh continuity check *)
(* immediately before entering FIRING", so the reading that lets the gate  *)
(* rise is not older than a pass of loop().                                *)
ContinuityCheckedBeforeFiring ==
    [][~igniter.active /\ igniter'.active => sampleAge <= MAX_ITER_MS]_vars

(* config_shared.h: FIRED is held for POST_FIRE_COOLDOWN_MS after a pulse. *)
CooldownIsServed ==
    [][igniter.active /\ ~igniter'.active =>
          gState'.state = "FIRED" \/ Reboot]_vars
=============================================================================
