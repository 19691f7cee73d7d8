------------------------------- MODULE TacCom -------------------------------
(***************************************************************************)
(* Both units over the radio: the loops of src/launcher/main.cpp and       *)
(* src/wrist/main.cpp, coarser than in modules Launcher and Wrist: a pass  *)
(* of each is one step.  Time is left out: each pass picks whether its     *)
(* timers have run out, by a `now` of a clock of two values, and each      *)
(* stamp a value of that clock.  Of the stratagem engine only one bit is   *)
(* left, whether the player has confirmed (inputState FIRING): once armed, *)
(* the player may enter a stratagem and confirm it at any moment.  The     *)
(* wrist's copy of the continuity reading is left out: its final gate may  *)
(* find it either way.                                                     *)
(*                                                                         *)
(* ESP-NOW (external) keeps the order of the packets of one unit, and may  *)
(* lose or repeat any of them; a packet sent while the queue is full is    *)
(* lost.  A unit that reboots takes the packets under way with it.         *)
(***************************************************************************)
EXTENDS LauncherState, Sequences

CONSTANTS
    Readings,        \* what the continuity monitor may report with the key ON
    UPLINK,          \* bound: packets under way to the launcher
    DOWNLINK,        \* bound: packets under way to the wrist
    MAX_REQUESTS     \* bound: FIRE_CMDs the wrist sends

ASSUME TacComAssumption ==
    /\ Readings \subseteq ContinuityState
    /\ UPLINK \in Nat /\ DOWNLINK \in Nat /\ MAX_REQUESTS \in Nat

VARIABLES            \* the launcher
    gState, igniter,
    gAck,            \* gFireAckPending, gPendingFireToken
    pendingArm,      \* s_pendingArm: <<>> or <<arm>>
    pendingFire      \* s_pendingFire: <<>> or <<requestToken>>

VARIABLES            \* the wrist
    gLink,           \* online, armed
    lastAck,         \* lastAckToken, lastAckAccepted
    confirmed,       \* gEngine.inputState is FIRING
    gWasArmed,
    requests         \* FIRE_CMDs sent

VARIABLES            \* the radio: packets under way, oldest first
    toLauncher, toWrist

\* What an observer would record; read by properties only, but for the two that
\* RadioSettles reads.
VARIABLES
    outcome,         \* what became of each request
    raises,          \* how often each request raised the gate, up to twice
    unarmed,         \* a pulse has begun that nobody armed for
    repeated,        \* requests that reached the launcher more than once
    armSent,         \* ARM_SET(true) sent since the last pulse began, or boot
    missed,          \* the newest STATUS is lost, or not sent yet
    lingering,       \* packets under way since before the pulse began
    settled          \* a pass of loop() has begun without any of them

launcherVars == <<gState, igniter, gAck, pendingArm, pendingFire>>
wristVars == <<gLink, lastAck, confirmed, gWasArmed, requests>>
radioVars == <<toLauncher, toWrist>>
ghostVars == <<outcome, raises, unarmed, repeated, armSent, missed, lingering, settled>>
vars == <<launcherVars, wristVars, radioVars, ghostVars>>

Requests == 1 .. MAX_REQUESTS
\* A request raises the gate or joins a pulse that is on; both see its end, or
\* the launcher reboots.
Outcomes == {"none", "raised", "joined", "done", "shared", "cut"}
-----------------------------------------------------------------------------
(* Packets.  A token stands for the request: the observer numbers requests *)
(* across reboots of the wrist, as neither unit compares tokens.           *)
ArmSet(arm) == [msgType |-> "ARM_SET", arm |-> arm]
\* The token is read before it is counted up.
FireCmdBeforeIncrement(request) == [msgType |-> "FIRE_CMD", token |-> request - 1]
FireCmd(request) == [msgType |-> "FIRE_CMD", token |-> request]
Status(s) == [msgType |-> "STATUS", armed |-> s.state = "ARMED"]
FireAck(request, accepted) ==
    [msgType |-> "FIRE_ACK", token |-> request, accepted |-> accepted]

\* esp_now_send of one packet after the other; a full queue refuses.
Post(queue, packets, capacity) ==
    LET all == queue \o packets
    IN  SubSeq(all, 1, IF Len(all) < capacity THEN Len(all) ELSE capacity)
-----------------------------------------------------------------------------
WristBoot ==
    [gLink |-> [online |-> FALSE, armed |-> FALSE],
     lastAck |-> [token |-> 0, accepted |-> FALSE]]

Init ==
    /\ gState = launcherState_init /\ igniter = igniter_init
    /\ gAck = [pending |-> FALSE, token |-> 0] /\ pendingArm = <<>> /\ pendingFire = <<>>
    /\ gLink = WristBoot.gLink /\ lastAck = WristBoot.lastAck
    /\ confirmed = FALSE /\ gWasArmed = FALSE /\ requests = 0
    /\ toLauncher = <<>> /\ toWrist = <<>>
    /\ outcome = [r \in Requests |-> "none"] /\ repeated = {}
    /\ raises = [r \in Requests |-> 0] /\ unarmed = FALSE
    /\ armSent = FALSE /\ missed = TRUE /\ lingering = 0 /\ settled = TRUE

\* A brown-out of the launcher, in mid-pulse too.
LauncherReboot ==
    /\ gState' = launcherState_init /\ igniter' = igniter_init
    /\ gAck' = [pending |-> FALSE, token |-> 0] /\ pendingArm' = <<>> /\ pendingFire' = <<>>
    /\ toLauncher' = <<>> /\ toWrist' = <<>>
    /\ outcome' = [r \in Requests |->
                     IF outcome[r] \in {"raised", "joined"} THEN "cut"
                     ELSE outcome[r]]
    /\ armSent' = FALSE /\ missed' = TRUE /\ lingering' = 0 /\ settled' = TRUE
    /\ UNCHANGED <<wristVars, repeated, raises, unarmed>>

WristReboot ==
    /\ gLink' = WristBoot.gLink /\ lastAck' = WristBoot.lastAck
    /\ confirmed' = FALSE /\ gWasArmed' = FALSE
    /\ toLauncher' = <<>> /\ toWrist' = <<>>
    /\ missed' = TRUE /\ lingering' = 0
    /\ UNCHANGED <<launcherVars, requests, outcome, raises, unarmed, repeated,
                   armSent, settled>>
-----------------------------------------------------------------------------
(* The launcher. *)

\* Assumption on time: a pulse lasts longer than a packet is under way and than
\* the pass that serves it.
RadioSettles(over) == over => settled

\* What the stages of a pass hand on: the state, the igniter, the slot of the
\* ack and the packets sent so far.
Pass(s, ig, ack, packets) ==
    [gState |-> s, igniter |-> ig, gAck |-> ack, packets |-> packets]

\* Stages 1 to 4: the key switch, the end of the pulse, the cooldown.
Timed(level, now, stamp) ==
    LET keyed == IF level # gState.keySwitchOn
                 THEN launcherState_onInterlockChanged(gState, level) ELSE gState
        pulsed == launcherState_onIgnitionComplete(keyed, stamp)
        ack == IF gAck.pending THEN <<FireAck(gAck.token, TRUE)>> ELSE <<>>
    IN  IF PulseOver(igniter, now)
        THEN Pass(launcherState_tick(pulsed, now), igniter_forceOff(igniter),
                  [gAck EXCEPT !.pending = FALSE], Append(ack, Status(pulsed)))
        ELSE Pass(launcherState_tick(keyed, now), igniter, gAck, <<>>)

\* Stage 5: a pending ARM_SET.
AfterArm(p) ==
    LET s == launcherState_onArm(p.gState, pendingArm[1])
    IN  IF pendingArm = <<>> THEN p
        ELSE [p EXCEPT !.gState = s, !.packets = Append(@, Status(s))]

\* Stage 6: a pending FIRE_CMD.  A refused one keeps, or loses, its place as the
\* one to acknowledge.
RefuseKeepsAck(p, s, token) ==
    Pass(s, p.igniter, [pending |-> TRUE, token |-> token],
         p.packets \o <<FireAck(token, FALSE), Status(s)>>)
Accept(p, s, token) ==
    Pass(s, igniter_startPulse(p.igniter, 0), [pending |-> TRUE, token |-> token],
         p.packets)
Refuse(p, s, token) ==
    Pass(s, p.igniter, [pending |-> FALSE, token |-> token],
         p.packets \o <<FireAck(token, FALSE), Status(s)>>)
AfterFire(p) ==
    LET s == launcherState_onFireCmd(p.gState)
    IN  IF pendingFire = <<>> THEN p
        ELSE IF s.state = "FIRING" THEN Accept(p, s, pendingFire[1])
        ELSE Refuse(p, s, pendingFire[1])

\* A change is only pushed while the launcher is hot, or whatever it is; gPrev* is
\* the state at the end of the pass before.
ChangedWhileHot(s) ==
    /\ s.state \in Hot
    /\ s.state # gState.state \/ s.continuity # gState.continuity
stateChanged(s) ==
    \/ s.state # gState.state
    \/ s.keySwitchOn # gState.keySwitchOn
    \/ s.continuity # gState.continuity

\* Stages 7 to 9: a continuity reading, STATUS on change and from time to time.
Reported(p, reading, periodic) ==
    LET s == launcherState_onContinuityChanged(p.gState, reading)
    IN  [p EXCEPT !.gState = s,
           !.packets = @ \o (IF stateChanged(s) THEN <<Status(s)>> ELSE <<>>)
                         \o (IF periodic THEN <<Status(s)>> ELSE <<>>)]

\* Each command is left in its mailbox, or taken out of it.
KeepArm(mailbox) == mailbox
KeepFire(mailbox) == mailbox
ConsumeArm(mailbox) == <<>>
ConsumeFire(mailbox) == <<>>

\* What an observer notes of a pass in which the pulse is over and, in the end,
\* a pulse begins.
OutcomeAfter(over, accepted, igniterThen) ==
    [r \in Requests |->
       CASE accepted /\ pendingFire = <<r>> ->
              IF igniterThen.active THEN "joined" ELSE "raised"
         [] ~(accepted /\ pendingFire = <<r>>) /\ over /\ outcome[r] = "raised" ->
              "done"
         [] ~(accepted /\ pendingFire = <<r>>) /\ over /\ outcome[r] = "joined" ->
              "shared"
         [] OTHER -> outcome[r]]

\* The end of a pass, whose stages 5, 6 and 9 handed on armed, fired and p.
EndOfPass(now, armed, fired, p) ==
    LET over == PulseOver(igniter, now)
        accepted == pendingFire # <<>> /\ fired.gState.state = "FIRING"
        rises == ~armed.igniter.active /\ fired.igniter.active
    IN  /\ RadioSettles(over)
        /\ gState' = p.gState /\ igniter' = p.igniter /\ gAck' = p.gAck
        /\ pendingArm' = ConsumeArm(pendingArm)
        /\ pendingFire' = ConsumeFire(pendingFire)
        /\ toWrist' = Post(toWrist, p.packets, DOWNLINK)
        /\ missed' = IF p.packets = <<>> THEN missed
                     ELSE Len(toWrist) + Len(p.packets) > DOWNLINK
        /\ outcome' = OutcomeAfter(over, accepted, armed.igniter)
        /\ lingering' = IF rises THEN Len(toLauncher) ELSE lingering
        /\ settled' = (lingering = 0 /\ ~rises)
        /\ raises' = IF rises /\ raises[pendingFire[1]] < 2
                     THEN [raises EXCEPT ![pendingFire[1]] = @ + 1] ELSE raises
        /\ unarmed' = (unarmed \/ (rises /\ ~armSent))
        /\ armSent' = (armSent /\ ~rises)
        /\ UNCHANGED <<wristVars, toLauncher, repeated>>

\* One pass of loop().
LauncherPass(level, now, stamp, reading, periodic) ==
    \E armed \in {AfterArm(Timed(level, now, stamp))} :
    \E fired \in {AfterFire(armed)} :
    \E p \in {Reported(fired, reading, periodic)} : EndOfPass(now, armed, fired, p)
-----------------------------------------------------------------------------
(* The wrist. *)

\* A pass of loop() up to the touch screen: the timeout (taken when `late`), the
\* console, the edges of online && armed, which both reset the engine, and the
\* final gate, which resets it as well.
WristPass(late, typed, continuityOk) ==
    LET link == IF late THEN WristBoot.gLink ELSE gLink
        currentlyArmed == link.online /\ link.armed
        ready == confirmed /\ currentlyArmed = gWasArmed
        sends == ready /\ currentlyArmed /\ continuityOk
    IN  /\ gLink' = link /\ gWasArmed' = currentlyArmed
        /\ confirmed' = FALSE
        /\ requests' = IF sends THEN requests + 1 ELSE requests
        /\ toLauncher' = Post(toLauncher,
             typed \o IF sends THEN <<FireCmd(requests')>> ELSE <<>>, UPLINK)
        /\ armSent' = (armSent \/ typed = <<ArmSet(TRUE)>>)
        /\ UNCHANGED <<launcherVars, lastAck, toWrist, outcome, raises, unarmed,
                       repeated, missed, lingering, settled>>

\* The player confirms: stratagemEngine_onConfirm after a whole entry.
Confirm ==
    /\ gWasArmed /\ ~confirmed
    /\ requests < MAX_REQUESTS
    /\ confirmed' = TRUE
    /\ UNCHANGED <<launcherVars, gLink, lastAck, gWasArmed, requests, radioVars,
                   ghostVars>>
-----------------------------------------------------------------------------
(* The radio. *)

\* The packet is delivered, and stays under way when it is to be repeated.
Rest(queue, again) == IF again THEN queue ELSE Tail(queue)

ToLauncher(again) ==
    /\ toLauncher # <<>>
    /\ LET p == Head(toLauncher)
       IN  /\ pendingArm' = IF p.msgType = "ARM_SET" THEN <<p.arm>> ELSE pendingArm
           /\ pendingFire' = IF p.msgType = "FIRE_CMD" THEN <<p.token>>
                             ELSE pendingFire
           /\ repeated' = IF again /\ p.msgType = "FIRE_CMD"
                          THEN repeated \cup {p.token} ELSE repeated
    /\ toLauncher' = Rest(toLauncher, again)
    /\ lingering' = IF again \/ lingering = 0 THEN lingering ELSE lingering - 1
    /\ UNCHANGED <<gState, igniter, gAck, wristVars, toWrist,
                   outcome, raises, unarmed, armSent, missed, settled>>

LoseToLauncher ==
    /\ toLauncher # <<>>
    /\ toLauncher' = Tail(toLauncher)
    /\ lingering' = IF lingering = 0 THEN 0 ELSE lingering - 1
    /\ UNCHANGED <<launcherVars, wristVars, toWrist, outcome, raises, unarmed, repeated,
                   armSent, missed, settled>>

ToWrist(again) ==
    /\ toWrist # <<>>
    /\ LET p == Head(toWrist)
       IN  /\ gLink' = IF p.msgType = "STATUS"
                       THEN [online |-> TRUE, armed |-> p.armed] ELSE gLink
           /\ lastAck' = IF p.msgType = "FIRE_ACK"
                         THEN [token |-> p.token, accepted |-> p.accepted]
                         ELSE lastAck
    /\ toWrist' = Rest(toWrist, again)
    /\ UNCHANGED <<launcherVars, confirmed, gWasArmed, requests, toLauncher, ghostVars>>

LoseToWrist ==
    /\ toWrist # <<>>
    /\ toWrist' = Tail(toWrist)
    /\ missed' = (missed \/ /\ Head(toWrist).msgType = "STATUS"
                            /\ \A i \in 2 .. Len(toWrist) :
                                  toWrist[i].msgType # "STATUS")
    /\ UNCHANGED <<launcherVars, wristVars, toLauncher, outcome, raises, unarmed,
                   repeated, armSent, lingering, settled>>
-----------------------------------------------------------------------------
Typed == {<<>>, <<ArmSet(TRUE)>>, <<ArmSet(FALSE)>>}    \* on the serial console

\* The clock readings of a pass that make a difference, and what the continuity
\* monitor may report.
Nows == IF igniter.active \/ gState.state = "FIRED" THEN Millis ELSE {0}
Stamps == IF igniter.active THEN Millis ELSE {0}
ReadingsAt(level) == IF level THEN Readings ELSE {"UNKNOWN"}

Next ==
    \/ \E level, periodic \in BOOLEAN, now \in Nows, stamp \in Stamps :
          \E reading \in ReadingsAt(level) :
             LauncherPass(level, now, stamp, reading, periodic)
    \/ \E late \in {FALSE, gLink.online}, typed \in Typed,
          continuityOk \in {FALSE, confirmed} : WristPass(late, typed, continuityOk)
    \/ Confirm
    \/ \E again \in BOOLEAN : ToLauncher(again) \/ ToWrist(again)
    \/ LoseToLauncher \/ LoseToWrist
    \/ LauncherReboot
    \/ WristReboot

Spec == Init /\ [][Next]_vars
-----------------------------------------------------------------------------
(* Type correctness of both units and of the radio between them.           *)
TypeOK ==
    /\ gState \in LauncherRuntimeState /\ igniter \in Igniter
    /\ gAck \in [pending : BOOLEAN, token : 0 .. MAX_REQUESTS]
    /\ pendingArm \in {<<>>, <<TRUE>>, <<FALSE>>}
    /\ pendingFire \in {<<>>} \cup {<<r>> : r \in Requests}
    /\ gLink \in [online : BOOLEAN, armed : BOOLEAN]
    /\ lastAck \in [token : 0 .. MAX_REQUESTS, accepted : BOOLEAN]
    /\ confirmed \in BOOLEAN /\ gWasArmed \in BOOLEAN
    /\ requests \in 0 .. MAX_REQUESTS
    /\ Len(toLauncher) <= UPLINK /\ Len(toWrist) <= DOWNLINK
    /\ raises \in [Requests -> 0 .. 2]
    /\ outcome \in [Requests -> Outcomes] /\ repeated \subseteq Requests
    /\ lingering <= Len(toLauncher)

(* One confirmation of the player raises the gate at most once, although a *)
(* FIRE_CMD may be repeated on its way, wait in the mailbox, be refused    *)
(* before it is accepted, and join the pulse of another before it raises.  *)
OnePulsePerRequest == \A r \in Requests : raises[r] <= 1

(* Each pulse needs an arming of its own: an ARM_SET(true) sent since the  *)
(* pulse before it began, and since the launcher last booted.              *)
EachPulseIsArmed == ~unarmed

(* What the wrist can tell from the last FIRE_ACK: an accepted request had *)
(* its pulse, to the end, and a refused one none, although the acks of     *)
(* other requests use the same slot and either unit may reboot.  Only a    *)
(* repeated FIRE_CMD breaks this: its copy is refused while the pulse is   *)
(* on (main.cpp:157), or raises the gate after it joined another's pulse.  *)
AckIsTruthful ==
    lastAck.token # 0 /\ lastAck.token \notin repeated =>
      outcome[lastAck.token] \in
        IF lastAck.accepted THEN {"done", "shared"} ELSE {"none"}

(* FIRMWARE_ARCHITECTURE.md: "STATUS is the source of truth for launcher   *)
(* state".  Once the newest STATUS has arrived, the wrist shows ARMED for  *)
(* no cold launcher and sees every ARMED one: no change of either kind     *)
(* goes unreported.                                                        *)
Agreement ==
    toWrist = <<>> /\ ~missed /\ gLink.online =>
      /\ gLink.armed => gState.state \in Hot /\ gState.keySwitchOn
      /\ gState.state = "ARMED" => gLink.armed
=============================================================================
