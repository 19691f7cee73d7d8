-------------------------------- MODULE Wrist --------------------------------
(***************************************************************************)
(* The wrist firmware: setup() and loop() of src/wrist/main.cpp with the   *)
(* stratagem engine and the launcher link, run by the Arduino loop task,   *)
(* and the ESP-NOW receive callback of launcher_link.cpp, run by the WiFi  *)
(* task of the other core.                                                 *)
(*                                                                         *)
(* LauncherLinkState is shared without a lock and is not volatile, so each *)
(* field is read and written on its own and in any order the compiler may  *)
(* choose: the callback stores the fields of a STATUS one by one while the *)
(* loop loads the fields of a condition, or clears them, one by one.       *)
(*                                                                         *)
(* A STATUS may be lost, repeated or late, so any STATUS may arrive at any *)
(* time.  The touch screen is still to be written (main.cpp, "service      *)
(* touch input"); it is modelled from the engine's interface: it offers    *)
(* arrows while isInputEnabled and the prompt while confirmVisible.        *)
(* LauncherLinkState is reduced to the fields that loop() reads; the rest, *)
(* FIRE_ACK's fields included, is stored for the console and the screens.  *)
(***************************************************************************)
EXTENDS StratagemEngine, Packets, Functions

CONSTANTS
    HEARTBEAT_INTERVAL_MS,
    LAUNCHER_TIMEOUT_MS,
    MAX_ITER_MS,     \* bound: the longest pass of loop(), in clock units
    MAX_RX_MS,       \* bound: the longest run of the receive callback
    GHOST_CAP        \* bound: where the measured durations saturate

ASSUME WristAssumption == GHOST_CAP \in Nat

\* No timeout, a pass of loop() added, comes near a wrap of the clock (seconds
\* against 49.7 days), and storing a STATUS takes no longer than the timeout.
ASSUME WristTimingAssumption ==
    /\ LAUNCHER_TIMEOUT_MS \in Nat /\ POST_MATCH_LOCKOUT_MS \in Nat
    /\ MAX_ITER_MS \in Nat /\ MAX_RX_MS \in 0 .. LAUNCHER_TIMEOUT_MS
    /\ LAUNCHER_TIMEOUT_MS + MAX_ITER_MS < CLOCK_WRAP
    /\ POST_MATCH_LOCKOUT_MS + MAX_ITER_MS < CLOCK_WRAP

VARIABLES
    millis,          \* the hardware clock
    pc,              \* the part of loop() that runs next
    now,             \* loop()'s local of that name
    gEngine,         \* StratagemEngineState
    gLink,           \* LauncherLinkState
    todo,            \* its fields the current statement of loop() still accesses
    rx,              \* what the callback has still to store: field |-> value
    gWasArmed,
    gFireToken,
    sent             \* packets the last step gave to esp_now_send

\* What an observer would record; read by properties only.
VARIABLES
    statusAge,       \* how long ago the last STATUS arrived
    sinceMatch,      \* how long ago the sequence was completed
    lapse,           \* what became of armed in memory since the entry began
    told,            \* what the launcher's last STATUS claimed
    heard            \* ... and every STATUS whose fields loop() may have loaded

loopVars == <<pc, now, todo, gEngine, gWasArmed, gFireToken>>
linkVars == <<gLink, rx>>
ghostVars == <<statusAge, sinceMatch, lapse, told, heard>>
vars == <<millis, loopVars, linkVars, sent, ghostVars>>

Stages == {"top", "link", "drop", "console", "edge", "fire", "touch"}

LauncherLinkState ==
    [online : BOOLEAN, armed : BOOLEAN, continuityOk : BOOLEAN,
     lastStatusRxMs : Millis, lastHeartbeatSentMs : Millis]
StatusFields == {"online", "armed", "continuityOk", "lastStatusRxMs"}

Init ==
    /\ millis = 0 /\ now = 0
    /\ pc \in {"top", "halted"}          \* halted: esp_now_init failed
    /\ gEngine = stratagemEngine_init
    /\ gLink = [online |-> FALSE, armed |-> FALSE, continuityOk |-> FALSE,
                lastStatusRxMs |-> 0, lastHeartbeatSentMs |-> 0]
    /\ todo = {} /\ rx = <<>>
    /\ gWasArmed = FALSE /\ gFireToken = 0
    /\ sent = <<>>
    /\ statusAge = 0 /\ sinceMatch = 0 /\ lapse = "none"
    /\ told = {} /\ heard = {}

\* The arming an entry began in goes on, has ended, or has ended and another has
\* begun, while the engine was never IDLE.  Both stores of armed have reached
\* memory then; once edge detection begins to look at it, they are missed.
Lapses == {"none", "disarmed", "rearmed", "missed"}
LapseStored(f) ==
    IF f = "armed" /\ gEngine.inputState # "IDLE" /\ lapse # "missed"
    THEN CASE ~rx[f] -> "disarmed"
           [] rx[f] /\ lapse = "disarmed" -> "rearmed"
           [] OTHER -> lapse
    ELSE lapse
LapseIn(engine) == IF engine.inputState = "IDLE" THEN "none" ELSE lapse

\* The observer forgets all but the last STATUS when neither task is in the
\* middle of using the fields.
HeardAt(stage, storing) ==
    IF stage # "fire" /\ DOMAIN storing = {} THEN told ELSE heard
-----------------------------------------------------------------------------
(* Time and the receive callback. *)

Aged(n) == IF n < GHOST_CAP THEN n + 1 ELSE n

\* The stamp of the STATUS being stored.
RxStamp == IF "lastStatusRxMs" \in DOMAIN rx
           THEN rx.lastStatusRxMs ELSE gLink.lastStatusRxMs

Tick ==
    /\ pc # "halted"
    /\ Elapsed(millis, now) < MAX_ITER_MS
    /\ DOMAIN rx # {} => Elapsed(millis, RxStamp) < MAX_RX_MS
    /\ millis' = NextMillis(millis)
    /\ statusAge' = Aged(statusAge)
    /\ sinceMatch' = IF gEngine.inputState = "MATCHED" THEN Aged(sinceMatch) ELSE 0
    /\ sent' = <<>>
    /\ UNCHANGED <<loopVars, linkVars, lapse, told, heard>>

\* The checks of onRecv, without and with the CRC.
AcceptedUnchecked(p) ==
    /\ p.mac = "LAUNCHER"
    /\ p.magic = PACKET_MAGIC /\ p.version = PROTOCOL_VERSION
    /\ p.msgType = "STATUS" /\ p.len = PacketSize("STATUS")
Accepted(p) ==
    /\ p.mac = "LAUNCHER"
    /\ p.len >= HeaderSize + 4
    /\ p.magic = PACKET_MAGIC /\ p.version = PROTOCOL_VERSION
    /\ p.intact
    /\ p.msgType = "STATUS" /\ p.len = PacketSize("STATUS")

\* The stores of applyStatusPayload.
applyStatusPayload(payload, t) ==
    [online         |-> TRUE,
     lastStatusRxMs |-> t,
     continuityOk   |-> payload.continuityState = "PRESENT",
     armed          |-> payload.launcherState = "ARMED"]

\* What the wrist tests for; one other state and reading stand for the rest.
Claims == {"ARMED", "PRESENT"}
StatusPackets ==
    {Packet("LAUNCHER", "STATUS", payload) :
       payload \in [launcherState : {"ARMED", "DISARMED"},
                    continuityState : {"PRESENT", "OPEN"}]}
\* What the radio may hand to onRecv; a packet that is not accepted changes
\* nothing.
Air == StatusPackets \cup (UNION {Deviations(p) : p \in StatusPackets})

\* onRecv reads the clock and begins to store a STATUS.  An observer only
\* counts what the launcher really said.
RecvStatus(p) ==
    /\ pc # "halted" /\ DOMAIN rx = {}
    /\ Accepted(p)
    /\ rx' = applyStatusPayload(p.payload, millis)
    /\ IF p \in StatusPackets
       THEN /\ statusAge' = 0
            /\ told' = Claims \cap {p.payload.launcherState,
                                   p.payload.continuityState}
            /\ heard' = heard \cup told'
       ELSE UNCHANGED <<statusAge, told, heard>>
    /\ sent' = <<>>
    /\ UNCHANGED <<millis, loopVars, gLink, sinceMatch, lapse>>

\* One field arrives in memory.
RxStore(f) ==
    /\ f \in DOMAIN rx
    /\ gLink' = [gLink EXCEPT ![f] = rx[f]]
    /\ rx' = Restrict(rx, DOMAIN rx \ {f})
    /\ heard' = HeardAt(pc, rx')
    /\ lapse' = LapseStored(f)
    /\ sent' = <<>>
    /\ UNCHANGED <<millis, loopVars, statusAge, sinceMatch, told>>
-----------------------------------------------------------------------------
(* One pass of loop(). *)

\* The final gate asks for continuity only, or for all three fields.
FireGateIgnoringLink(e) ==
    IF stratagemEngine_readyToFire(e) THEN {"continuityOk"} ELSE {}
FireGate(e) ==
    IF stratagemEngine_readyToFire(e) THEN {"online", "armed", "continuityOk"}
    ELSE {}

ReadClock ==
    /\ pc = "top"
    /\ now' = millis
    /\ pc' = "link"
    /\ sent' = <<>>
    /\ UNCHANGED <<millis, todo, gEngine, linkVars, gWasArmed, gFireToken, ghostVars>>

\* The timeout is only looked at when a heartbeat is due.
TimeoutWithHeartbeat(ls, t) ==
    /\ ls.online /\ ls.lastStatusRxMs # 0
    /\ Elapsed(t, ls.lastStatusRxMs) > LAUNCHER_TIMEOUT_MS
    /\ Elapsed(t, ls.lastHeartbeatSentMs) >= HEARTBEAT_INTERVAL_MS
LauncherTimedOut(ls, t) ==
    /\ ls.online /\ ls.lastStatusRxMs # 0
    /\ Elapsed(t, ls.lastStatusRxMs) > LAUNCHER_TIMEOUT_MS

\* launcher_link_tick: heartbeat, then the test of the timeout.  (The callback
\* only ever sets online, so two loads here see what one load can see.)
LinkTick ==
    /\ pc = "link"
    /\ LET due  == Elapsed(now, gLink.lastHeartbeatSentMs) >= HEARTBEAT_INTERVAL_MS
           lost == LauncherTimedOut(gLink, now)
       IN  /\ gLink' = [gLink EXCEPT !.lastHeartbeatSentMs = IF due THEN now ELSE @]
           /\ sent' = IF due THEN <<[msgType |-> "HEARTBEAT"]>> ELSE <<>>
           /\ todo' = IF lost THEN {"online", "armed"} ELSE {}
           /\ pc' = IF lost THEN "drop" ELSE "console"
    /\ UNCHANGED <<millis, now, gEngine, rx, gWasArmed, gFireToken, ghostVars>>

\* The timeout clears online and armed, while the callback may be setting them.
DropField(f) ==
    /\ pc = "drop" /\ f \in todo
    /\ gLink' = [gLink EXCEPT ![f] = FALSE]
    /\ todo' = todo \ {f}
    /\ pc' = IF todo' = {} THEN "console" ELSE "drop"
    /\ sent' = <<>>
    /\ UNCHANGED <<millis, now, gEngine, rx, gWasArmed, gFireToken, ghostVars>>

\* handleSerialConsole: "arm", "disarm" or nothing that sends a packet.
ServeConsole ==
    /\ pc = "console"
    /\ sent' \in {<<>>} \cup {<<[msgType |-> "ARM_SET", arm |-> arm]>> :
                              arm \in BOOLEAN}
    /\ pc' = "edge" /\ todo' = {"online", "armed"}
    /\ lapse' = IF lapse = "rearmed" THEN "missed" ELSE lapse
    /\ UNCHANGED <<millis, now, gEngine, linkVars, gWasArmed, gFireToken,
                   statusAge, sinceMatch, told, heard>>

\* A condition of the loop on gLink loads a field that is TRUE: the others
\* decide.  It is TRUE once all are loaded, FALSE with the first that is FALSE.
LoadField(f) ==
    /\ pc \in {"edge", "fire"} /\ f \in todo
    /\ gLink[f]
    /\ todo' = todo \ {f}
    /\ sent' = <<>>
    /\ UNCHANGED <<millis, pc, now, gEngine, linkVars, gWasArmed, gFireToken, ghostVars>>

AllLoaded == todo = {}
OneIsFalse == \E f \in todo : ~gLink[f]

\* The edges of gLink.online && gLink.armed.
AfterEdge(armed) ==
    CASE armed /\ ~gWasArmed -> stratagemEngine_selectRandom(gEngine)
      [] ~armed /\ gWasArmed -> {stratagemEngine_reset(gEngine)}
      [] OTHER -> {gEngine}

\* Parts 2 and 3: edge detection, then stratagemEngine_tick.
ServiceEngine ==
    /\ pc = "edge" /\ (AllLoaded \/ OneIsFalse)
    /\ LET currentlyArmed == AllLoaded
       IN  /\ \E e \in AfterEdge(currentlyArmed) :
                gEngine' = stratagemEngine_tick(e, now)
           /\ gWasArmed' = currentlyArmed
    /\ lapse' = LapseIn(gEngine')
    /\ pc' = "fire" /\ todo' = FireGate(gEngine')
    /\ sent' = <<>>
    /\ UNCHANGED <<millis, now, linkVars, gFireToken, statusAge, sinceMatch,
                   told, heard>>

\* Part 4, three outcomes: nothing to fire, the final gate open or closed.
SkipFire ==
    /\ pc = "fire" /\ ~stratagemEngine_readyToFire(gEngine)
    /\ pc' = "touch" /\ heard' = HeardAt(pc', rx)
    /\ sent' = <<>>
    /\ UNCHANGED <<millis, now, todo, gEngine, linkVars, gWasArmed, gFireToken,
                   statusAge, sinceMatch, lapse, told>>

\* The request stays in the engine, to be tried again.
AfterAttemptRetry(e) == e
AfterAttempt(e) == stratagemEngine_reset(e)

SendFireCmd ==
    /\ pc = "fire" /\ stratagemEngine_readyToFire(gEngine)
    /\ AllLoaded
    /\ gFireToken' = NextMillis(gFireToken)       \* a uint32_t as well
    /\ sent' = <<[msgType |-> "FIRE_CMD", stratagemId |-> Ids(gEngine.def),
                  inputLength |-> IF gEngine.def = NoDef THEN 0
                                  ELSE Len(Sequence(gEngine.def)),
                  requestToken |-> gFireToken',
                  matchedAtMs |-> gEngine.matchedAtMs]>>
    /\ gEngine' = AfterAttempt(gEngine)
    /\ lapse' = LapseIn(gEngine')
    /\ pc' = "touch" /\ heard' = HeardAt(pc', rx)
    /\ UNCHANGED <<millis, now, todo, linkVars, gWasArmed, statusAge, sinceMatch, told>>

BlockFire ==
    /\ pc = "fire" /\ stratagemEngine_readyToFire(gEngine)
    /\ OneIsFalse
    /\ gEngine' = AfterAttempt(gEngine)
    /\ lapse' = LapseIn(gEngine')
    /\ pc' = "touch" /\ heard' = HeardAt(pc', rx) /\ todo' = {}
    /\ sent' = <<>>
    /\ UNCHANGED <<millis, now, linkVars, gWasArmed, gFireToken, statusAge, sinceMatch, told>>

\* Part 6, the touch screen: nothing, an arrow or the confirm button.
NoTouch ==
    /\ pc = "touch" /\ pc' = "top"
    /\ sent' = <<>>
    /\ UNCHANGED <<millis, now, todo, gEngine, linkVars, gWasArmed, gFireToken, ghostVars>>

TouchArrow(d) ==
    /\ pc = "touch" /\ pc' = "top"
    /\ stratagemEngine_isInputEnabled(gEngine, gLink.online /\ gLink.armed)
    /\ gEngine' = stratagemEngine_onDirection(gEngine, d, now)
    /\ sinceMatch' = 0
    /\ lapse' = LapseIn(gEngine')
    /\ sent' = <<>>
    /\ UNCHANGED <<millis, now, todo, linkVars, gWasArmed, gFireToken, statusAge,
                   told, heard>>

TouchConfirm ==
    /\ pc = "touch" /\ pc' = "top"
    /\ gEngine.confirmVisible
    /\ gEngine' = stratagemEngine_onConfirm(gEngine)
    /\ sent' = <<>>
    /\ UNCHANGED <<millis, now, todo, linkVars, gWasArmed, gFireToken, ghostVars>>
-----------------------------------------------------------------------------
LoopStep ==
    \/ ReadClock
    \/ LinkTick
    \/ \E f \in StatusFields : DropField(f) \/ LoadField(f)
    \/ ServeConsole
    \/ ServiceEngine
    \/ SkipFire
    \/ SendFireCmd
    \/ BlockFire
    \/ NoTouch
    \/ \E d \in Direction : TouchArrow(d)
    \/ TouchConfirm

\* A power cycle: RAM is lost and setup() runs again.
Reboot ==
    /\ millis' = 0 /\ now' = 0
    /\ pc' \in {"top", "halted"}
    /\ gEngine' = stratagemEngine_init
    /\ gLink' = [online |-> FALSE, armed |-> FALSE, continuityOk |-> FALSE,
                 lastStatusRxMs |-> 0, lastHeartbeatSentMs |-> 0]
    /\ todo' = {} /\ rx' = <<>>
    /\ gWasArmed' = FALSE /\ gFireToken' = 0
    /\ sent' = <<>>
    /\ statusAge' = 0 /\ sinceMatch' = 0 /\ lapse' = "none"
    /\ told' = {} /\ heard' = {}

Next ==
    \/ LoopStep
    \/ Tick
    \/ \E p \in Air : RecvStatus(p)
    \/ \E f \in StatusFields : RxStore(f)
    \/ Reboot

Spec == Init /\ [][Next]_vars

\* The FreeRTOS loop task is never starved for ever, a callback that began ends
\* and the clock never stops.
FairSpec ==
    /\ Spec /\ WF_vars(LoopStep) /\ WF_vars(Tick)
    /\ WF_vars(\E f \in StatusFields : RxStore(f))
-----------------------------------------------------------------------------
(* Type correctness of every variable the code keeps. *)
TypeOK ==
    /\ millis \in Millis /\ now \in Millis /\ pc \in Stages \cup {"halted"}
    /\ gEngine \in StratagemEngineState
    /\ gLink \in LauncherLinkState
    /\ todo \subseteq StatusFields
    /\ \A f \in DOMAIN rx : rx[f] \in IF f = "lastStatusRxMs" THEN Millis ELSE BOOLEAN
    /\ gWasArmed \in BOOLEAN /\ gFireToken \in Millis
    /\ statusAge \in 0 .. GHOST_CAP /\ sinceMatch \in 0 .. GHOST_CAP
    /\ lapse \in Lapses
    /\ told \subseteq Claims /\ heard \subseteq Claims

(* The buffer always tells how far the player got with the stratagem that  *)
(* is active now: re-rolls, timeouts, wrong arrows, disarms and fire       *)
(* attempts never leave arrows of another entry behind.                    *)
EntryMatchesActive ==
    LET e == gEngine IN
    /\ e.inputState = "IDLE" => e.buffer = <<>>
    /\ e.inputState # "IDLE" =>
         /\ e.def # NoDef
         /\ isPrefixMatch(e.buffer, e.def)
         /\ e.inputState = "INPUTTING" <=> ~isFullMatch(e.buffer, e.def)
    /\ e.confirmVisible <=> e.inputState = "CONFIRMING"

(* The prompt opens only after the lockout, of which the stamp of an arrow *)
(* (the clock at the start of the pass) can hide at most one pass.  The    *)
(* bound is tight, and weaker than FIRMWARE_ARCHITECTURE.md:471, 482 and   *)
(* 1695, which ask for 2000 ms at least: the last pass before the match is *)
(* missing from them (README, section 4).                                  *)
LockoutServed ==
    [][gEngine.inputState = "MATCHED" /\ gEngine'.inputState = "CONFIRMING" =>
          sinceMatch >= POST_MATCH_LOCKOUT_MS - MAX_ITER_MS]_vars

(* online is never older news than the timeout and two passes, except when *)
(* the last STATUS came exactly at millis() = 0: the code takes that stamp *)
(* for "none yet" (launcher_link.cpp:154) and then stays online for ever,  *)
(* against FIRMWARE_ARCHITECTURE.md:372 (README, section 4).               *)
OnlineMeansRecent ==
    gLink.online =>
      \/ statusAge <= LAUNCHER_TIMEOUT_MS + 2 * MAX_ITER_MS
      \/ RxStamp = 0

(* A FIRE_CMD carries the stratagem the player completed and confirmed;    *)
(* ARMED and PRESENT were both claimed by the last STATUS or by one that   *)
(* came while the gate was read, never by an older or a damaged one; and   *)
(* the last STATUS came no longer ago than the timeout and a pass, with    *)
(* one exception.  When it came exactly at millis() = 0 the FIRE_CMD may   *)
(* rest on a STATUS of any age: launcher_link.cpp:154 never times it out,  *)
(* against FIRMWARE_ARCHITECTURE.md:159, 372 and 1696 (README, section 4). *)
FireIsJustified ==
    [][\A i \in DOMAIN sent' : sent'[i].msgType = "FIRE_CMD" =>
          /\ \E def \in DOMAIN STRATAGEM_DB :
                /\ STRATAGEM_DB[def].id = sent'[i].stratagemId
                /\ Sequence(def) = gEngine.buffer
                /\ sent'[i].inputLength = Len(gEngine.buffer)
          /\ {"ARMED", "PRESENT"} \subseteq heard
          /\ \/ statusAge <= LAUNCHER_TIMEOUT_MS + MAX_ITER_MS
             \/ RxStamp = 0]_vars

(* Stored field by field and cleared field by field at the same time, the  *)
(* link never ends up ARMED or PRESENT against the launcher's last word.   *)
LinkMirrorsStatus ==
    DOMAIN rx = {} =>
      /\ gLink.online /\ gLink.armed => "ARMED" \in told
      /\ gLink.continuityOk <=> "PRESENT" \in told

(* A confirmed request is sent or refused before the player can touch the  *)
(* screen again: one confirmation, at most one FIRE_CMD.                   *)
ConfirmIsAnswered == pc = "touch" => gEngine.inputState # "FIRING"

(* The wrist implements the three-step fire sequence of FireSequence.      *)
ThreeSteps ==
    INSTANCE FireSequence WITH
       Arrows <- Direction,
       Targets <- {Sequence(def) : def \in DOMAIN STRATAGEM_DB},
       step <- gEngine.inputState,
       entered <- gEngine.buffer,
       target <- IF gEngine.def = NoDef THEN <<>> ELSE Sequence(gEngine.def),
       commanded <- \E i \in DOMAIN sent : sent[i].msgType = "FIRE_CMD"

(* PROJECT_SPEC.md, "Fire Sequence (3-step, no shortcuts)": no interleaving *)
(* of touches, timeouts, disarms, re-rolls and reboots makes loop() send a *)
(* FIRE_CMD that the player has not completed, been asked for and confirmed *)
(* once.                                                                   *)
ThreeStepSpec == ThreeSteps!Spec

(* An entry that stops is cleared.                                         *)
EntryEnds == gEngine.inputState = "INPUTTING" ~> gEngine.inputState # "INPUTTING"

(* The lockout ends.                                                       *)
LockoutEnds == gEngine.inputState = "MATCHED" ~> gEngine.inputState # "MATCHED"

(* config_shared.h: the launcher is OFFLINE after LAUNCHER_TIMEOUT_MS of   *)
(* silence, not before.                                                    *)
OfflineMeansSilence ==
    [][gLink.online /\ ~gLink'.online =>
          statusAge >= LAUNCHER_TIMEOUT_MS \/ Reboot]_vars

(* FIRMWARE_ARCHITECTURE.md:1697, the wrist "must reset to IDLE on link    *)
(* loss or disarm": an entry that began in one arming, which the launcher  *)
(* has since reported over and then replaced by another, is not fired in   *)
(* the new one.                                                            *)
NoFireAcrossDisarm ==
    [][\A i \in DOMAIN sent' : sent'[i].msgType = "FIRE_CMD" => lapse # "missed"]_vars
=============================================================================
