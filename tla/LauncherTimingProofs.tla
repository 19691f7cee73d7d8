------------------------ MODULE LauncherTimingProofs ------------------------
(***************************************************************************)
(* Theorems about the times Launcher keeps, for every clock width that     *)
(* holds an interval and two passes of the loop (TimingAssumption): what   *)
(* the unsigned differences of the code measure is the time that passed,   *)
(* through every wrap.                                                     *)
(***************************************************************************)
EXTENDS LauncherProofs

(* millis is never more than a pass ahead of the `now` of the loop.        *)
PassInv == Elapsed(millis, now) <= MAX_ITER_MS

\* stamp was taken no later than now.
Before(stamp, t) ==
  Elapsed(millis, stamp) = Elapsed(t, stamp) + Elapsed(millis, t)

(* The gate was measured HIGH for the time since the pulse began.  Until   *)
(* stage 3 the pulse may be due and served late by a pass; afterwards it   *)
(* is not due at `now`, or it began after `now` was read.                  *)
GateInv ==
  /\ ~igniter.active => gateHighFor = 0
  /\ igniter.active =>
       LET start == igniter.pulseStartMs
       IN  /\ gateHighFor = IF Elapsed(millis, start) < GHOST_CAP
                            THEN Elapsed(millis, start) ELSE GHOST_CAP
           /\ \/ /\ Before(start, now)
                 /\ Elapsed(now, start) <
                      IGNITION_PULSE_DURATION_MS
                        + (IF pc = "service" THEN MAX_ITER_MS ELSE 0)
              \/ /\ pc # "service"
                 /\ Elapsed(millis, start) <= Elapsed(millis, now)

\* A timer of the given interval that the end of each pass finds over or not.
ServedTimer(stamp, interval) ==
  /\ Before(stamp, now)
  /\ Elapsed(now, stamp) < interval + (IF pc = "top" THEN 0 ELSE MAX_ITER_MS)

BroadcastInv ==
  pc # "halted" => ServedTimer(gLastStatusTxMs, STATUS_BROADCAST_INTERVAL_MS)

(* A reading that says PRESENT was taken while monitoring and is sampled   *)
(* anew in time, and the state machine believes no other.                  *)
SampleInv ==
  /\ continuity.state = "PRESENT" =>
       /\ continuity.monitoring
       /\ sampleAge <= Elapsed(millis, continuity.lastSampleMs)
       /\ ServedTimer(continuity.lastSampleMs, CONTINUITY_CHECK_INTERVAL_MS)
  /\ pc = "top" => gState.continuity = continuity.state
  /\ gState.keySwitchOn /\ gState.continuity = "PRESENT" =>
       continuity.state = "PRESENT"

(* The clock stops at MAX_ITER_MS past `now` until a new pass reads it.    *)
LEMMA PassStep == TypeOK /\ PassInv /\ [Next]_vars => PassInv'
  <1> SUFFICES ASSUME TypeOK, PassInv, [Next]_vars PROVE PassInv'
    OBVIOUS
  <1>0. millis \in Millis /\ now \in Millis /\ 0 \in Millis
    BY ClockAssumption DEF TypeOK, Millis
  <1> USE DEF PassInv
  <1>1. CASE Tick
    <2>1. Elapsed(millis, now) + 1 <= MAX_ITER_MS
      BY <1>0, <1>1, ElapsedType, TimingAssumption DEF Tick
    <2>2. Elapsed(millis, now) + 1 < CLOCK_WRAP
      BY <1>0, <2>1, ElapsedType, TimingAssumption, ClockAssumption
    <2>3. QED
      BY <1>0, <1>1, <2>1, <2>2, ElapsedGrows DEF Tick, loopVars
  <1>2. ASSUME NEW level \in BOOLEAN, ReadInterlock(level) PROVE PassInv'
    BY <1>0, <1>2, ElapsedSelf, TimingAssumption DEF ReadInterlock
  <1>3. CASE Reboot
    BY <1>0, <1>3, ElapsedSelf, TimingAssumption DEF Reboot
  <1>4. CASE UNCHANGED <<millis, now>>
    BY <1>4
  <1>5. ASSUME \/ TickStateMachine \/ CompletePulse \/ SkipArm \/ ProcessArm
               \/ SkipFire \/ AcceptFire \/ RejectFire
               \/ \E raw \in RawReadings : Report(raw)
               \/ \E arm \in BOOLEAN : RecvArm(arm)
               \/ \E token \in Tokens : RecvFire(token)
               \/ UNCHANGED vars
        PROVE  UNCHANGED <<millis, now>>
    BY <1>5 DEF TickStateMachine, CompletePulse, SkipArm, ProcessArm, SkipFire,
                AcceptFire, RejectFire, Report, RecvArm, RecvFire, vars, loopVars
  <1>6. QED
    BY <1>1, <1>2, <1>3, <1>4, <1>5 DEF Next, LoopStep
-----------------------------------------------------------------------------
(* The measured time of the gate is the difference igniter_service         *)
(* computes, while every other stage leaves pulse and `now` as they were.  *)
LEMMA GateStep == TypeOK /\ PassInv /\ GateInv /\ [Next]_vars => GateInv'
  <1> SUFFICES ASSUME TypeOK, PassInv, GateInv, [Next]_vars PROVE GateInv'
    OBVIOUS
  <1> DEFINE D     == IGNITION_PULSE_DURATION_MS
             start == igniter.pulseStartMs
  <1>0. /\ millis \in Millis /\ now \in Millis /\ start \in Millis
        /\ igniter.active \in BOOLEAN /\ pc \in Stages \cup {"halted"}
        /\ 0 \in Millis /\ igniter \in Igniter
    BY ClockAssumption DEF TypeOK, Millis, Igniter
  <1>1. /\ D \in Nat \ {0} /\ MAX_ITER_MS \in Nat /\ CLOCK_WRAP \in Nat
        /\ D + 2 * MAX_ITER_MS <= CLOCK_WRAP /\ GHOST_CAP \in Nat
    BY TimingAssumption, ClockAssumption, LauncherAssumption
  <1>2. /\ Elapsed(millis, start) \in Nat /\ Elapsed(now, start) \in Nat
        /\ Elapsed(millis, now) \in Nat
        /\ Elapsed(millis, start) < CLOCK_WRAP
    BY <1>0, ElapsedType
  <1>3. CASE Tick
    <2>1. /\ UNCHANGED <<pc, now, igniter>> /\ millis' = NextMillis(millis)
          /\ Elapsed(millis, now) < MAX_ITER_MS
          /\ gateHighFor' = IF igniter.active THEN Aged(gateHighFor) ELSE 0
      BY <1>3 DEF Tick, loopVars
    <2>2. Elapsed(millis', now) = Elapsed(millis, now) + 1
      BY <1>0, <1>1, <1>2, <2>1, ElapsedGrows
    <2>3. ASSUME igniter.active
          PROVE  Elapsed(millis', start) = Elapsed(millis, start) + 1
      <3>1. Elapsed(millis, start) + 1 < CLOCK_WRAP
        BY <1>1, <1>2, <2>1, <2>3 DEF GateInv, Before
      <3>2. QED  BY <1>0, <2>1, <3>1, ElapsedGrows
    <2>4. QED
      BY <1>1, <1>2, <2>1, <2>2, <2>3 DEF GateInv, Before, Aged
  <1>4. ASSUME NEW level \in BOOLEAN, ReadInterlock(level) PROVE GateInv'
    <2>1. /\ UNCHANGED <<millis, igniter, gateHighFor>>
          /\ now' = millis /\ pc = "top" /\ pc' = "service"
      BY <1>4 DEF ReadInterlock
    <2>2. Elapsed(millis, millis) = 0
      BY <1>0, ElapsedSelf
    <2>3. QED
      BY <1>1, <1>2, <2>1, <2>2 DEF GateInv, Before, PassInv
  <1>5. CASE TickStateMachine
    BY <1>0, <1>1, <1>2, <1>5
       DEF TickStateMachine, PulseOver, GateInv, Before
  <1>6. CASE CompletePulse
    BY <1>0, <1>6 DEF CompletePulse, igniter_forceOff, Igniter, GateInv
  <1>7. CASE AcceptFire
    <2>1. /\ UNCHANGED <<millis, now, gateHighFor>> /\ pc' = "report" /\ pc = "fire"
          /\ igniter' = igniter_startPulse(igniter, millis)
      BY <1>7 DEF AcceptFire
    <2>2. CASE igniter.active
      BY <1>1, <2>1, <2>2 DEF igniter_startPulse, GateInv, Before
    <2>3. CASE ~igniter.active
      <3>1. igniter' = [active |-> TRUE, pulseStartMs |-> millis]
        BY <2>1, <2>3 DEF igniter_startPulse
      <3>2. Elapsed(millis, millis) = 0
        BY <1>0, ElapsedSelf
      <3>3. gateHighFor = 0
        BY <2>3 DEF GateInv
      <3>4. QED
        BY <1>1, <1>2, <2>1, <3>1, <3>2, <3>3 DEF GateInv
    <2>4. QED  BY <2>2, <2>3
  <1>8. CASE Reboot
    BY <1>8 DEF Reboot, igniter_init, GateInv
  <1>9. CASE /\ UNCHANGED <<millis, now, igniter, gateHighFor>>
             /\ pc' = "service" => pc = "service"
             /\ pc = "service" => pc' = "service"
    BY <1>9 DEF GateInv, Before
  <1>10. ASSUME \/ SkipArm \/ ProcessArm \/ SkipFire \/ RejectFire
                \/ \E raw \in RawReadings : Report(raw)
                \/ \E arm \in BOOLEAN : RecvArm(arm)
                \/ \E token \in Tokens : RecvFire(token)
                \/ UNCHANGED vars
         PROVE  /\ UNCHANGED <<millis, now, igniter, gateHighFor>>
                /\ pc' = "service" => pc = "service"
                /\ pc = "service" => pc' = "service"
    BY <1>10 DEF SkipArm, ProcessArm, SkipFire, RejectFire, Report, RecvArm,
                 RecvFire, vars, loopVars, ghostVars
  <1>11. QED
    BY <1>3, <1>4, <1>5, <1>6, <1>7, <1>8, <1>9, <1>10 DEF Next, LoopStep
-----------------------------------------------------------------------------
(* Stage 9 restarts the timer when it is due, so no pass finds it older    *)
(* than an interval and a pass.                                            *)
LEMMA BroadcastStep ==
  TypeOK /\ PassInv /\ BroadcastInv /\ [Next]_vars => BroadcastInv'
  <1> SUFFICES ASSUME TypeOK, PassInv, BroadcastInv, [Next]_vars
               PROVE  BroadcastInv'
    OBVIOUS
  <1> DEFINE I    == STATUS_BROADCAST_INTERVAL_MS
             last == gLastStatusTxMs
  <1>0. /\ millis \in Millis /\ now \in Millis /\ last \in Millis
        /\ 0 \in Millis /\ pc \in Stages \cup {"halted"}
    BY ClockAssumption DEF TypeOK, Millis
  <1>1. /\ I \in Nat \ {0} /\ MAX_ITER_MS \in Nat /\ CLOCK_WRAP \in Nat
        /\ I + 2 * MAX_ITER_MS <= CLOCK_WRAP
    BY TimingAssumption, ClockAssumption
  <1>2. /\ Elapsed(millis, last) \in Nat /\ Elapsed(now, last) \in Nat
        /\ Elapsed(millis, now) \in Nat
    BY <1>0, ElapsedType
  <1> USE DEF BroadcastInv, ServedTimer, Before
  <1>3. CASE Tick
    <2>1. /\ UNCHANGED <<pc, now, gLastStatusTxMs>> /\ pc # "halted"
          /\ millis' = NextMillis(millis) /\ Elapsed(millis, now) < MAX_ITER_MS
      BY <1>3 DEF Tick, loopVars
    <2>2. /\ Elapsed(millis', now) = Elapsed(millis, now) + 1
          /\ Elapsed(millis', last) = Elapsed(millis, last) + 1
      BY <1>0, <1>1, <1>2, <2>1, ElapsedGrows
    <2>3. QED  BY <1>1, <1>2, <2>1, <2>2
  <1>4. ASSUME NEW level \in BOOLEAN, ReadInterlock(level) PROVE BroadcastInv'
    BY <1>0, <1>1, <1>2, <1>4, ElapsedSelf DEF ReadInterlock, PassInv
  <1>5. ASSUME NEW raw \in RawReadings, Report(raw) PROVE BroadcastInv'
    BY <1>0, <1>1, <1>2, <1>5, ElapsedSelf DEF Report, StatusDue
  <1>6. CASE Reboot
    BY <1>0, <1>1, <1>6, ElapsedSelf DEF Reboot
  <1>7. CASE /\ UNCHANGED <<millis, now, gLastStatusTxMs>>
             /\ pc' = "top" <=> pc = "top"
             /\ pc' = "halted" <=> pc = "halted"
    BY <1>7
  <1>8. ASSUME \/ TickStateMachine \/ CompletePulse \/ SkipArm \/ ProcessArm
               \/ SkipFire \/ AcceptFire \/ RejectFire
               \/ \E arm \in BOOLEAN : RecvArm(arm)
               \/ \E token \in Tokens : RecvFire(token)
               \/ UNCHANGED vars
        PROVE  /\ UNCHANGED <<millis, now, gLastStatusTxMs>>
               /\ pc' = "top" <=> pc = "top"
               /\ pc' = "halted" <=> pc = "halted"
    BY <1>8 DEF TickStateMachine, CompletePulse, SkipArm, ProcessArm, SkipFire,
                AcceptFire, RejectFire, RecvArm, RecvFire, vars, loopVars
  <1>9. QED
    BY <1>3, <1>4, <1>5, <1>6, <1>7, <1>8 DEF Next, LoopStep
-----------------------------------------------------------------------------
\* What SampleInv reads apart from the clock.
Believed == <<gState.continuity, gState.keySwitchOn, continuity, sampleAge>>

(* Between the key switch and the continuity sample of a pass no stage     *)
(* touches the reading, the belief in it or the key.                       *)
LEMMA MidPassKeepsBelief ==
  ASSUME TypeOK, SafetyInv,
         \/ TickStateMachine \/ CompletePulse \/ SkipArm \/ ProcessArm
         \/ SkipFire \/ AcceptFire \/ RejectFire
  PROVE  UNCHANGED <<millis, now, Believed>> /\ pc # "top" /\ pc' # "top"
  <1>0. /\ gState \in LauncherRuntimeState /\ now \in Millis /\ millis \in Millis
        /\ SafeState(gState) /\ pendingArm.arm \in BOOLEAN
    BY DEF TypeOK, SafetyInv, SafeState, HotNeedsKey, FaultReasonHonest
  <1>1. CASE TickStateMachine
    BY <1>0, <1>1, TickEffect DEF TickStateMachine, Believed
  <1>2. CASE CompletePulse
    BY <1>0, <1>2, PulseEndState DEF CompletePulse, Believed
  <1>3. CASE ProcessArm
    BY <1>0, <1>3, ArmEffect DEF ProcessArm, Believed
  <1>4. CASE AcceptFire
    BY <1>0, <1>4, FireEffect DEF AcceptFire, Believed
  <1>5. CASE RejectFire
    BY <1>0, <1>5, FireEffect DEF RejectFire, Believed
  <1>6. CASE SkipArm \/ SkipFire
    BY <1>6 DEF SkipArm, SkipFire, Believed
  <1>7. QED  BY <1>1, <1>2, <1>3, <1>4, <1>5, <1>6

(* A PRESENT reading is replaced or renewed when the interval is over, is  *)
(* dropped when monitoring ends, and reaches the state machine in the same *)
(* pass.                                                                   *)
LEMMA SampleStep ==
  TypeOK /\ SafetyInv /\ PassInv /\ SampleInv /\ [Next]_vars => SampleInv'
  <1> SUFFICES ASSUME TypeOK, SafetyInv, PassInv, SampleInv, [Next]_vars
               PROVE  SampleInv'
    OBVIOUS
  <1> DEFINE C    == CONTINUITY_CHECK_INTERVAL_MS
             last == continuity.lastSampleMs
  <1>0. /\ gState \in LauncherRuntimeState /\ SafeState(gState)
        /\ millis \in Millis /\ now \in Millis /\ last \in Millis
        /\ continuity \in Continuity /\ sampleAge \in Nat /\ 0 \in Millis
    BY ClockAssumption, LauncherAssumption
       DEF TypeOK, Millis, Continuity, SafetyInv, SafeState, HotNeedsKey,
           FaultReasonHonest
  <1>1. /\ C \in Nat \ {0} /\ MAX_ITER_MS \in Nat /\ CLOCK_WRAP \in Nat
        /\ C + 2 * MAX_ITER_MS <= CLOCK_WRAP /\ GHOST_CAP \in Nat
    BY TimingAssumption, ClockAssumption, LauncherAssumption
  <1>2. /\ Elapsed(millis, last) \in Nat /\ Elapsed(now, last) \in Nat
        /\ Elapsed(millis, now) \in Nat
    BY <1>0, ElapsedType
  <1>3. CASE Tick
    <2>1. /\ UNCHANGED <<pc, now, continuity, gState>>
          /\ millis' = NextMillis(millis) /\ Elapsed(millis, now) < MAX_ITER_MS
          /\ sampleAge' = Aged(sampleAge)
      BY <1>3 DEF Tick, loopVars
    <2>2. ASSUME continuity.state = "PRESENT"
          PROVE  /\ sampleAge' <= Elapsed(millis', last)
                 /\ ServedTimer(last, C)'
      <3>1. /\ Elapsed(millis', now) = Elapsed(millis, now) + 1
            /\ Elapsed(millis', last) = Elapsed(millis, last) + 1
        BY <1>0, <1>1, <1>2, <2>1, <2>2, ElapsedGrows
           DEF SampleInv, ServedTimer, Before
      <3>2. QED
        BY <1>0, <1>1, <1>2, <2>1, <2>2, <3>1
           DEF SampleInv, ServedTimer, Before, Aged
    <2>3. QED  BY <2>1, <2>2 DEF SampleInv
  <1>4. ASSUME NEW level \in BOOLEAN, ReadInterlock(level) PROVE SampleInv'
    <2>1. /\ UNCHANGED <<millis, sampleAge>> /\ now' = millis
          /\ pc = "top" /\ pc' = "service"
          /\ continuity' = continuity_setMonitoringEnabled(continuity, level)
      BY <1>4 DEF ReadInterlock
    <2>2. gState'.keySwitchOn = level /\ gState'.continuity = gState.continuity
      BY <1>0, <1>4, InterlockEffect DEF ReadInterlock
    <2>3. ASSUME continuity'.state = "PRESENT"
          PROVE  /\ continuity.state = "PRESENT" /\ continuity'.monitoring
                 /\ continuity'.lastSampleMs = last
      BY <1>0, <2>1, <2>3
         DEF continuity_setMonitoringEnabled, Continuity, SampleInv
    <2>4. ASSUME continuity.state = "PRESENT", level
          PROVE  continuity'.state = "PRESENT"
      BY <1>0, <2>1, <2>4
         DEF continuity_setMonitoringEnabled, Continuity, SampleInv
    <2>5. ASSUME continuity.state = "PRESENT"
          PROVE  /\ Before(last, millis) /\ Elapsed(millis, last) < C + MAX_ITER_MS
                 /\ sampleAge <= Elapsed(millis, last)
      BY <1>0, <1>1, <1>2, <2>1, <2>5, ElapsedSelf
         DEF SampleInv, ServedTimer, Before, PassInv
    <2>6. ASSUME continuity'.state = "PRESENT"
          PROVE  /\ sampleAge' <= Elapsed(millis, continuity'.lastSampleMs)
                 /\ ServedTimer(continuity.lastSampleMs, C)'
      BY <1>1, <1>2, <2>1, <2>3, <2>5, <2>6 DEF ServedTimer, Before
    <2>7. QED
      BY <2>1, <2>2, <2>3, <2>4, <2>6 DEF SampleInv
  <1>5. ASSUME NEW raw \in RawReadings, Report(raw) PROVE SampleInv'
    <2>1. /\ UNCHANGED <<millis, now>> /\ pc = "report" /\ pc' = "top"
          /\ continuity' = continuity_tick(continuity, now, raw)
          /\ sampleAge' = IF SampleDue(continuity, now) THEN 0 ELSE sampleAge
      BY <1>5 DEF Report
    <2>2. continuity'.state \in ContinuityState
      BY <1>0, <2>1, DriverType DEF TypeOK, Continuity
    <2>3. gState'.continuity = continuity'.state
      BY <1>0, <1>5, <2>2, ContinuityEffect DEF Report
    <2>4. CASE SampleDue(continuity, now)
      <3>1. continuity'.lastSampleMs = now /\ continuity'.monitoring
        BY <1>0, <2>1, <2>4 DEF continuity_tick, SampleDue, Continuity
      <3>2. Elapsed(now, now) = 0
        BY <1>0, ElapsedSelf
      <3>3. QED
        BY <1>1, <1>2, <2>1, <2>3, <2>4, <3>1, <3>2
           DEF SampleInv, ServedTimer, Before
    <2>5. CASE ~SampleDue(continuity, now)
      <3>1. continuity' = continuity
        BY <2>1, <2>5 DEF continuity_tick
      <3>2. continuity.monitoring => Elapsed(now, last) < C
        BY <1>1, <1>2, <2>5 DEF SampleDue
      <3>3. QED
        BY <1>1, <1>2, <2>1, <2>3, <2>5, <3>1, <3>2
           DEF SampleInv, ServedTimer, Before
    <2>6. QED  BY <2>4, <2>5
  <1>6. CASE Reboot
    BY <1>6 DEF Reboot, continuity_init, launcherState_init, SampleInv
  <1>7. CASE /\ UNCHANGED <<millis, now, Believed>>
             /\ pc' = "top" <=> pc = "top"
    BY <1>7 DEF Believed, SampleInv, ServedTimer, Before
  <1>8. ASSUME \/ \E arm \in BOOLEAN : RecvArm(arm)
               \/ \E token \in Tokens : RecvFire(token)
               \/ UNCHANGED vars
        PROVE  UNCHANGED <<millis, now, Believed, pc>>
    BY <1>8 DEF RecvArm, RecvFire, vars, loopVars, ghostVars, Believed
  <1>9. QED
    BY <1>3, <1>4, <1>5, <1>6, <1>7, <1>8, MidPassKeepsBelief
       DEF Next, LoopStep
-----------------------------------------------------------------------------
TimingInv == PassInv /\ GateInv /\ BroadcastInv /\ SampleInv

(* The measurements agree with the clock in every reachable state.         *)
THEOREM TimingHolds == Spec => []TimingInv
  <1>1. Init => TimingInv
    <2> SUFFICES ASSUME Init PROVE TimingInv
      OBVIOUS
    <2>1. /\ millis = 0 /\ now = 0 /\ gLastStatusTxMs = 0
          /\ pc = "top" \/ pc = "halted"
          /\ Elapsed(0, 0) = 0
      BY InitialType, ElapsedSelf DEF Init
    <2>2. /\ MAX_ITER_MS \in Nat
          /\ STATUS_BROADCAST_INTERVAL_MS \in Nat \ {0}
      BY TimingAssumption
    <2>3. PassInv /\ BroadcastInv
      BY <2>1, <2>2 DEF PassInv, BroadcastInv, ServedTimer, Before
    <2>4. GateInv /\ SampleInv
      BY DEF Init, GateInv, SampleInv, igniter_init, continuity_init,
             launcherState_init
    <2>5. QED  BY <2>3, <2>4 DEF TimingInv
  <1>2. TypeOK /\ SafetyInv /\ TimingInv /\ [Next]_vars => TimingInv'
    BY PassStep, GateStep, BroadcastStep, SampleStep DEF TimingInv
  <1>3. QED  BY <1>1, <1>2, TypeCorrect, SafetyHolds, PTL DEF Spec

(* However commands, key changes, refusals and reboots interleave with a   *)
(* pulse, the gate is never HIGH longer than the pulse and two passes.     *)
THEOREM GateTimeBoundedHolds == Spec => []GateTimeBounded
  <1>1. TypeOK /\ TimingInv => GateTimeBounded
    <2> SUFFICES ASSUME TypeOK, TimingInv PROVE GateTimeBounded
      OBVIOUS
    <2> DEFINE start == igniter.pulseStartMs
    <2>1. /\ IGNITION_PULSE_DURATION_MS \in Nat \ {0} /\ MAX_ITER_MS \in Nat
          /\ GHOST_CAP \in Nat
      BY TimingAssumption, LauncherAssumption
    <2>2. CASE ~igniter.active
      BY <2>1, <2>2 DEF TimingInv, GateInv, GateTimeBounded
    <2>3. CASE igniter.active
      <3>1. /\ Elapsed(millis, start) \in Nat /\ Elapsed(now, start) \in Nat
            /\ Elapsed(millis, now) \in Nat
        BY ElapsedType DEF TypeOK, Igniter
      <3>2. Elapsed(millis, start)
              <= IGNITION_PULSE_DURATION_MS - 1 + 2 * MAX_ITER_MS
        BY <2>1, <2>3, <3>1 DEF TimingInv, GateInv, Before, PassInv
      <3>3. gateHighFor <= Elapsed(millis, start)
        BY <2>1, <2>3, <3>1 DEF TimingInv, GateInv
      <3>4. gateHighFor \in Nat
        BY <2>1 DEF TypeOK
      <3>5. QED  BY <2>1, <3>1, <3>2, <3>3, <3>4 DEF GateTimeBounded
    <2>4. QED  BY <2>2, <2>3
  <1>2. QED  BY <1>1, TimingHolds, TypeCorrect, PTL

(* A periodic STATUS is never later than its interval and two passes, at   *)
(* any moment and through every wrap of the clock.                         *)
THEOREM StatusFreshHolds == Spec => []StatusFresh
  <1>1. TypeOK /\ TimingInv => StatusFresh
    <2> SUFFICES ASSUME TypeOK, TimingInv, pc # "halted"
                 PROVE  Elapsed(millis, gLastStatusTxMs)
                          <= STATUS_BROADCAST_INTERVAL_MS - 1 + 2 * MAX_ITER_MS
      BY DEF StatusFresh
    <2>1. STATUS_BROADCAST_INTERVAL_MS \in Nat \ {0} /\ MAX_ITER_MS \in Nat
      BY TimingAssumption
    <2>2. /\ Elapsed(now, gLastStatusTxMs) \in Nat
          /\ Elapsed(millis, now) \in Nat
      BY ElapsedType DEF TypeOK
    <2>3. QED
      BY <2>1, <2>2 DEF TimingInv, PassInv, BroadcastInv, ServedTimer, Before
  <1>2. QED  BY <1>1, TimingHolds, TypeCorrect, PTL

(* The gate falls only after the whole pulse or by a reboot: no reading of *)
(* the clock, however old, cuts a pulse short.  The observer's measurement *)
(* must not saturate below the pulse.                                      *)
THEOREM PulseRunsItsLengthHolds ==
  ASSUME GHOST_CAP >= IGNITION_PULSE_DURATION_MS
  PROVE  Spec => PulseRunsItsLength
  <1>1. TypeOK /\ TimingInv /\ [Next]_vars =>
          [igniter.active /\ ~igniter'.active =>
             gateHighFor >= IGNITION_PULSE_DURATION_MS \/ Reboot]_vars
    <2> SUFFICES ASSUME TypeOK, TimingInv, Next, igniter.active,
                        ~igniter'.active, ~Reboot
                 PROVE  gateHighFor >= IGNITION_PULSE_DURATION_MS
      OBVIOUS
    <2> DEFINE start == igniter.pulseStartMs
    <2>1. /\ igniter' = igniter
             \/ igniter' = igniter_startPulse(igniter, millis)
             \/ CompletePulse
      BY DEF Next, LoopStep, ReadInterlock, TickStateMachine, SkipArm,
             ProcessArm, SkipFire, AcceptFire, RejectFire, Report, Tick,
             RecvArm, RecvFire, loopVars
    <2>2. CompletePulse
      BY <2>1 DEF igniter_startPulse
    <2>3. /\ pc = "service"
          /\ Elapsed(now, start) >= IGNITION_PULSE_DURATION_MS
      BY <2>2 DEF CompletePulse, PulseOver
    <2>4. /\ Elapsed(now, start) \in Nat /\ Elapsed(millis, now) \in Nat
          /\ Elapsed(millis, start) \in Nat
          /\ GHOST_CAP \in Nat /\ IGNITION_PULSE_DURATION_MS \in Nat
      BY ElapsedType, TimingAssumption, LauncherAssumption DEF TypeOK, Igniter
    <2>5. Elapsed(millis, start) >= IGNITION_PULSE_DURATION_MS
      BY <2>3, <2>4 DEF TimingInv, GateInv, Before
    <2>6. QED
      BY <2>4, <2>5 DEF TimingInv, GateInv
  <1>2. QED
    BY <1>1, TimingHolds, TypeCorrect, PTL DEF Spec, PulseRunsItsLength

(* The gate rises only on a PRESENT reading of the igniter that is no      *)
(* older than the sampling interval and two passes.                        *)
THEOREM IgnitionOnRecentContinuityHolds == Spec => IgnitionOnRecentContinuity
  <1>1. TypeOK /\ SafetyInv /\ TimingInv /\ [Next]_vars =>
          [~igniter.active /\ igniter'.active =>
             /\ gState.continuity = "PRESENT"
             /\ sampleAge <=
                  CONTINUITY_CHECK_INTERVAL_MS - 1 + 2 * MAX_ITER_MS]_vars
    <2> SUFFICES ASSUME TypeOK, SafetyInv, TimingInv, Next,
                        ~igniter.active, igniter'.active
                 PROVE  /\ gState.continuity = "PRESENT"
                        /\ sampleAge <=
                             CONTINUITY_CHECK_INTERVAL_MS - 1 + 2 * MAX_ITER_MS
      OBVIOUS
    <2> DEFINE last == continuity.lastSampleMs
    <2>1. AcceptFire
      BY DEF Next, LoopStep, ReadInterlock, TickStateMachine, CompletePulse,
             SkipArm, ProcessArm, SkipFire, RejectFire, Report, Tick, RecvArm,
             RecvFire, Reboot, loopVars, igniter_forceOff, igniter_init,
             TypeOK, Igniter
    <2>2. gState \in LauncherRuntimeState /\ SafeState(gState)
      BY DEF TypeOK, SafetyInv, SafeState, HotNeedsKey, FaultReasonHonest
    <2>3. gState.keySwitchOn /\ gState.continuity = "PRESENT"
      BY <2>1, <2>2, FireEffect DEF AcceptFire
    <2>4. sampleAge <= Elapsed(millis, last)
          /\ ServedTimer(last, CONTINUITY_CHECK_INTERVAL_MS)
      BY <2>3 DEF TimingInv, SampleInv
    <2>5. /\ Elapsed(now, last) \in Nat /\ Elapsed(millis, now) \in Nat
          /\ Elapsed(millis, last) \in Nat /\ sampleAge \in Nat
          /\ CONTINUITY_CHECK_INTERVAL_MS \in Nat /\ MAX_ITER_MS \in Nat
      BY ElapsedType, TimingAssumption, LauncherAssumption
         DEF TypeOK, Continuity
    <2>6. QED
      BY <2>3, <2>4, <2>5 DEF TimingInv, PassInv, ServedTimer, Before
  <1>2. QED
    BY <1>1, TimingHolds, SafetyHolds, TypeCorrect, PTL
       DEF Spec, IgnitionOnRecentContinuity
=============================================================================
