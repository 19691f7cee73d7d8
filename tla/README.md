# TLA+ models of the TAC-COM launcher and wrist firmware

Two ESP32 units talk over ESP-NOW. The **wrist** shows a random arrow sequence
(a "stratagem") once the launcher is armed; when the player has entered it,
waited out a lockout and confirmed, the wrist sends `FIRE_CMD`. The **launcher**
drives a MOSFET gate for one pulse if its key switch, its state and its
continuity reading allow it. This directory models both firmware loops, the
memory each shares with its receive callback and the radio between them, checks
them with TLC and proves the main safety properties with TLAPS.

Paths below are relative to the repository root.

## 1. The system

| Component | State it keeps | Operations | Modelled in |
|---|---|---|---|
| Launcher state machine `lib/launcher_core/launcher_state.*` | `LauncherRuntimeState` | `tick`, `onArm`, `onFireCmd`, `onInterlockChanged`, `onContinuityChanged`, `onIgnitionComplete`, `canArm`, `canFire` | `LauncherState` |
| Igniter driver `igniter_driver.*` | `_active`, `_pulseStartMs`, gate pin | `init`, `startPulse`, `service`, `forceOff` | `LauncherState` |
| Continuity monitor `continuity.*` | `s_state`, `s_lastSampleMs`, `s_monitoringEnabled` | `setMonitoringEnabled`, `tick` | `LauncherState` |
| Launcher loop `src/launcher/main.cpp` | `gState`, `gPrev*`, `gLastStatusTxMs`, `gPendingFireToken`, `gFireAckPending` | `setup`, `loop`, `onIgnitionComplete` | `Launcher` |
| Launcher radio link `radio_link.*` | two one-place mailboxes | `onRecv`, `sendStatus`, `sendFireAck`, mailbox accessors | `RadioLink`, `Launcher` |
| Stratagem data `lib/common/stratagems.*` | `STRATAGEM_DB`, `LAUNCH_POOL` | `buildLaunchPool`, `isPrefixMatch`, `isFullMatch` | `Stratagems`, `StratagemEngine` |
| Stratagem engine `lib/wrist_core/stratagem_engine.*` | `StratagemEngineState` | `selectRandom`, `reset`, `tick`, `onDirection`, `onConfirm`, ... | `StratagemEngine` |
| Wrist link `launcher_link.*` | `LauncherLinkState` | `onRecv`, `launcher_link_tick`, send functions | `Wrist`, `TacCom` |
| Wrist loop `src/wrist/main.cpp` | `gWasArmed`, `gFireToken` | `setup`, `loop`, `handleSerialConsole` | `Wrist` |
| Packet format, CRC `include/common/protocol.h`, `lib/common/crc32.cpp` | none | `fillHeader`, validation steps of `onRecv` | `Packets` (partly) |
| Both units over the radio | packets under way | the loops and callbacks above | `TacCom` |

**Interaction.** Each unit runs two tasks: the Arduino loop task and the WiFi
task, which calls `onRecv`. They share the mailboxes (launcher) or the whole
link state (wrist), without a lock. Between the units there are five packets:
`HEARTBEAT`, `ARM_SET`, `FIRE_CMD` one way and `STATUS`, `FIRE_ACK` the other;
none is retried by this code, and any may be lost, late or repeated.

**What is hard.**
- *Time.* Every interval is an unsigned difference with a `now` read at the top
  of `loop()`, while stamps are taken later, by the callback or by another
  `millis()`; a stamp later than `now` underflows. 0 also means "never" in two
  places, and the clock wraps.
- *Order within a pass.* Key, pulse end, cooldown, `ARM_SET`, `FIRE_CMD` and the
  continuity sample are served in a fixed order once per pass, so events that
  arrive in one order are handled in another.
- *Two tasks.* A packet can arrive between any two steps of a pass.
- *State kept three times.* Launcher state, `ignitionActive` and the gate pin
  live in different files; the wrist has its own copy of the launcher's state.
- *Resets.* The igniter's current can brown out the launcher in mid-pulse.

**What makes each part correct.** Launcher: the gate rises only for a request,
with key, ARMED and a recent PRESENT reading, and falls in time; the state, the
fault code and the packets never contradict the gate. Wrist: a `FIRE_CMD` only
after a whole entry of the active stratagem, the lockout, one confirmation and a
recent ARMED and PRESENT status. Together: a confirmation raises the gate at most
once, each pulse has an arming of its own, acknowledgements are true and the wrist
agrees with the launcher once it has the newest STATUS.

## 2. Modules

- **`Clock`** - what both units read with `millis()`: times modulo `CLOCK_WRAP`
  (2^32 in the code) and `Elapsed`, the unsigned difference every timer of the
  code is built on.
- **`LauncherState`** - the pure functions of the launcher's three libraries,
  from the value of a C++ static before the call to its value after. `batteryPct`,
  sequence numbers and `bootSessionId` are constant or unread and left out.
- **`Launcher`** - `setup()` and `loop()`. One pass is split at each mailbox
  access and each `millis()`: `ReadInterlock` (stages 1-2), `TickStateMachine`
  or `CompletePulse` (3-4), `SkipArm` or `ProcessArm` (5), `SkipFire`,
  `AcceptFire` or `RejectFire` (6), `Report` (7-9). `RecvArm` and `RecvFire` are
  the receive callback, `Tick` the clock, `Reboot` a power cycle at any moment.
  `sent` holds the packets the last step gave to `esp_now_send`. Four variables
  record what an observer would see and are read by properties only:
  `gateHighFor`, `sampleAge`, `reported`, `openFires`.
- **`IgnitionAuthority`** - the abstract specification of the launcher: five
  variables, no clock, no radio. `Launcher` implements it under the mapping
  `Authority` (state, key, gate, continuity, "a request is waiting").
- **`Packets`** - what a receiver can tell of a packet: sender, length, magic,
  version, type, whether the CRC fits, payload. `Deviations` are the packets with
  one thing wrong; each receiver's `Accepted` is its list of checks.
- **`RadioLink`** - the launcher's two mailboxes, one memory access per step.
  `Recv` starts `onRecv`, `RxStore` performs its next store; `hasPending`,
  `getPending`, `consumePending` are the accessors in the order `loop()` calls
  them; `MemsetField` is the `memset` of `radio_link_init`, which runs after the
  callback is registered. A mailbox is its flag and the one field that decides
  anything. `newest`, `early` (whether the newest command began to arrive before the
  memset ended) and `unprocessed` are the observer's.
- **`Stratagems`** - the table of `stratagems.cpp` as shipped.
- **`StratagemEngine`** - the engine and the matching functions; the database is
  a constant. `Picks` allows every result of the random draw, a repeat included,
  as five retries may all repeat.
- **`Wrist`** - `setup()` and `loop()`: `ReadClock`, `LinkTick` with `DropField`
  (the timeout clears its fields one by one), `ServeConsole`, `ServiceEngine`
  (edge detection and engine tick), `SkipFire`, `SendFireCmd` or `BlockFire`, then
  the touch screen. A condition on several link fields loads them one by one
  (`LoadField`; `todo` holds those left). `RecvStatus` begins the receive callback
  and `RxStore` stores a field (`rx` holds those left). `statusAge`, `sinceMatch`,
  `lapse`, `told` and `heard` are the observer's; `lapse` follows what is stored in
  `armed` while an entry is open: a disarm, a re-arm after it, and then an edge
  detection that begins with both of them in memory.
- **`FireSequence`** - the abstract specification of the wrist: the three steps of
  `docs/PROJECT_SPEC.md`, four variables, no clock, no link. `Wrist` implements it
  under the mapping `ThreeSteps` (input state, buffer, the active sequence, "a
  `FIRE_CMD` was just sent").
- **`TacCom`** - the two units composed: `LauncherPass` and `WristPass` are one
  pass each, `Confirm` the player, `ToLauncher`, `ToWrist` and the two `Lose`
  actions the radio, and each unit may reboot. `LauncherPass` is written as the
  stages of `loop()` one after another (`Timed`, `AfterArm`, `AfterFire`,
  `Reported`) on the functions of `LauncherState`; `EndOfPass` assigns what they
  hand on and keeps the observer's records.
- **`ClockProofs`**, **`LauncherStateProofs`** - lemmas: what a wrapping clock's
  differences measure, and what each C++ function of the launcher can do to its
  state. **`LauncherProofs`**, **`LauncherTimingProofs`**, **`RadioLinkProofs`**,
  **`WristProofs`**, **`WristTimingProofs`**, **`TacComProofs`** - the theorems.
- **`MCLauncher`**, **`MCRadioLink`**, **`MCWrist`**, **`MCTacCom`** - values of the
  constants and state views for TLC.

Definitions placed right before a mapped one, with a comment that says what they
get wrong (`PulseOverLate`, `FireGateIgnoringLink`, ...), are plausible bugs; each
checked property is known to fail when the mapped definition is replaced by one.

### Assumptions made in modelling

- **The network.** In `Launcher`, `RadioLink` and `Wrist` any packet may arrive
  at any moment, which covers loss, repetition, delay and reordering. In `TacCom`
  the radio keeps the order of one unit's packets, may lose or repeat each, and
  drops what finds the send queue full; packets under way do not survive a reboot
  of either unit (they are milliseconds old, a boot takes much longer).
- **Shared memory.** The mailboxes are `volatile`, so `RadioLink` keeps each task's
  accesses in program order. `LauncherLinkState` is not, so `Wrist` lets the stores
  of a callback, and the loads and stores of one statement of the loop, happen in
  any order; a field itself is stored or loaded whole. Statements stay in order: a
  compiler that merged two passes' loads would break every Arduino sketch.
  `Launcher` treats a mailbox as one variable, as a torn access gives what the
  network can give as well.
- **A damaged packet fails the CRC.**
- **`RadioSettles`** (`TacCom`): a pulse lasts longer than a packet is under way and
  the pass that serves it (500 to 1000 ms against some milliseconds). Without it a
  repeated `FIRE_CMD` could outlive the pulse it started.
- **Touch input is external.** `serviceTouchInput` is a commented-out TODO in
  `src/wrist/main.cpp:168`. It is modelled from the engine's own interface: an
  arrow when `isInputEnabled`, confirm when `confirmVisible`.
- **`POOL_BUILT`.** In the repository nothing calls `buildLaunchPool`, so the
  wrist never has a stratagem (section 4). The wrist runs set it to TRUE, to check
  the code that follows once it is called; the theorems hold for both values.
- **`MAX_ITER_MS`** bounds the time from one reading of `now` to the next, and
  `MAX_RX_MS` the time a callback takes to store a STATUS. The code has no such
  bounds; timing properties are stated in terms of it, and the
  runs take it as one unit (500 ms on the launcher, which has no blocking call,
  1 s on the wrist, whose console may block for the 1 s serial timeout).
- **No interval comes near a wrap** (`TimingAssumption` in `Launcher`,
  `WristTimingAssumption` in `Wrist`): each interval plus two passes (launcher),
  the link timeout and the lockout plus a pass (wrist) fit into `CLOCK_WRAP`, and
  storing a STATUS takes no longer than the link timeout. In the code the longest
  interval is `LAUNCHER_TIMEOUT_MS` of 5 s and the clock wraps after 49.7 days.
  `POST_FIRE_COOLDOWN_MS` and the wrist's input timeout need no such assumption.

## 3. Runs

One launcher unit is 500 ms (pulse 2, cooldown 4, continuity 1, status 2), one
wrist unit about 1 s with the long intervals shortened (input timeout 1, lockout 2,
launcher timeout 2, heartbeat 2; in `wrist_live` all 1 but the heartbeat), which
keeps their order relative to a pass. `launcher_stale_continuity` halves the launcher's
unit to 250 ms, so that the sampling interval (2) is longer than a pass (1).
`CLOCK_WRAP` is 8 or 10 of the launcher's 500 ms (16 of its 250 ms) and 4 on the wrist
(5 in its violation runs): larger than every
difference a comparison meets, so no wrap aliases that could not alias in the code, yet each run passes through many wraps.
(`wrist_live` has wrap 3 and the comparisons it needs stay below it.) `GHOST_CAP`
saturates measured durations above the largest bound a property compares them with
(0 where no property reads them). `TacCom` has no time: its clock of two values
lets each timer be found over or not.

| Run | Asks | Properties |
|---|---|---|
| `launcher` | any key movement, reading, packet and reboot at any moment | `TypeOK`, `HotNeedsKey`, `GateMatchesState`, `FaultReasonHonest`, `GateTimeBounded`, `PulseRunsItsLength`, `IgnitionOnRecentContinuity`, `ReportedHotIffHot`, `StatusFresh`, `NoPhantomAck`, `AuthoritySpec` |
| `launcher_live` | fair loop and clock | `PulseEnds`, `FiredEnds`, `CommandsDrained` |
| `wrist` | any STATUS, stored field by field, and any touch at any moment | `TypeOK`, `EntryMatchesActive`, `OnlineMeansRecent`, `ConfirmIsAnswered`, `LinkMirrorsStatus`, `LockoutServed`, `FireIsJustified`, `ThreeStepSpec` |
| `wrist_live` | fair loop and clock | `EntryEnds`, `LockoutEnds` |
| `radio_link` | both tasks access by access, with foreign and damaged packets and reboots | `TypeOK`, `NewestWins`, `OncePerPacket`, `MailboxesDrain` |
| `tac_com` | both units, lossy and repeating radio, reboots | `TypeOK`, `AckIsTruthful`, `Agreement`, `OnePulsePerRequest`, `EachPulseIsArmed` |
| `launcher_gate_after_disarm` | doc vs code | `GateOnlyWhileFiring` is violated |
| `launcher_cooldown_skipped` | doc vs code | `CooldownIsServed` is violated |
| `launcher_stale_continuity` | doc vs code | `ContinuityCheckedBeforeFiring` is violated |
| `radio_link_stale_command` | comment vs code | `OnlyPendingArms` is violated |
| `wrist_offline_too_early` | doc vs code | `OfflineMeansSilence` is violated |
| `wrist_entry_survives_disarm` | doc vs code | `NoFireAcrossDisarm` is violated |

**Bounds.** Two tokens are the least with which a refused request can disturb the
acknowledgement of an accepted one; three readings give a short, an open and a
present igniter (`UNKNOWN` occurs while monitoring is off). Two pool entries of
two arrows with a common first arrow give a re-roll that could be confused with
what was typed, a wrong arrow after a right one and a partial entry; a third,
unpooled, definition checks the filter of `buildLaunchPool`. Three tokens let a mailbox be overwritten twice. In `TacCom`
two requests are the least with which one can join the other's pulse or take its
ack; `UPLINK` 1 and `DOWNLINK` 2 (an ack and its STATUS) make both send queues
overflow, and the mailboxes hold two more commands. The 2^32 token counter wraps
with the clock's width in `Wrist`.

**Views.** The cfgs use a VIEW that drops values no later step reads before
overwriting them: a stamp outside the state that compares it, the payload of an
empty mailbox, `lastEvent`, `previousPoolIndex` (any pick is allowed), the age of
a STATUS while the link is offline, what became of a request that nothing names any
more (`TacCom`), and in the liveness and the violation runs the records of the
observer that the run's property does not read. The view of `launcher` also forgets
which of the two tokens is which (they are only compared with each other) and keeps
where the same one is found. Two states with the same view have the same
successors up to the view and satisfy the same properties (the type of a dropped
value apart, which the `TypeCorrect` theorems prove), and every step of a
fair action changes the view (`pc` or `millis`).

**Deadlock** is checked everywhere: a halted unit can still be rebooted.

**Fairness.** `WF(LoopStep)`: FreeRTOS runs the loop task again and again, and
nothing in `loop()` waits for ever. `WF(Tick)`: the clock does not stop. `WF(RxStore)`: a
callback that began ends; it is straight-line code on the other core. No
fairness is assumed of the player, the key, the radio or the network. A unit
whose `esp_now_init` failed (`halted`) has neither, and is covered since it has
no pulse, entry or command.

## 4. What the runs show

The safety and refinement properties hold, with these exceptions, where the code
differs from what the repository says of it:

1. **The gate outlives the disarm** (`GateOnlyWhileFiring`). Key OFF,
   `ARM_SET(false)` or a second `FIRE_CMD` in mid-pulse change the state, but
   nothing calls `igniter_forceOff`; the pulse runs to its end.
   `docs/FIRMWARE_ARCHITECTURE.md:981`, `:1706` and `docs/LAUNCHER_WIRING.md:180`
   require the gate to go LOW. What does hold is `GateTimeBounded`: the gate is
   never HIGH longer than one pulse and two passes. A disarm, re-arm and new fire
   within the pulse joins the old pulse rather than starting one.
2. **The cooldown can be skipped** (`CooldownIsServed`). The stamp is
   `millis()`, the comparison in the same pass uses the earlier `now`; if the
   clock advanced in between, the difference underflows and FIRED is left at once.
3. **A live link is dropped** (`OfflineMeansSilence`). A STATUS received after
   `loop()` read `now` makes the timeout underflow: the wrist goes OFFLINE and
   clears the entry just after hearing from the launcher.
4. **An entry survives a disarm** (`NoFireAcrossDisarm`). Edge detection looks at
   `armed` once per pass. When a STATUS that is not ARMED and the next ARMED one are both
   stored between two edge detections, for instance while the console holds the
   pass, `loop()` never sees the disarm, no new stratagem is drawn, and the entry
   of the old arming is confirmed and fired in the new one.
   `docs/FIRMWARE_ARCHITECTURE.md:1697`: the wrist "must reset to IDLE on link loss
   or disarm" (`:476` and `:493` say the same of MATCHED and CONFIRMING).
5. **A disarm is processed as an arm** (`OnlyPendingArms`). `onRecv` sets `valid`
   before it stores `arm`; if `loop()` on the other core tests, reads and clears the
   mailbox between the two stores, it processes the previous `arm` and erases the
   new one. `OncePerPacket` still holds: something did arrive. Storing `valid` last
   would remove it.
6. **No fresh continuity check** (`ContinuityCheckedBeforeFiring`). A `FIRE_CMD` is
   judged by the reading that `continuity_tick` took in an earlier pass, up to 500 ms
   and two passes old; `docs/FIRMWARE_ARCHITECTURE.md:1003`, `:1036` and `:1705` ask
   for a check immediately before FIRING. What does hold is
   `IgnitionOnRecentContinuity`: the reading is PRESENT and no older than that.

Four more differences have no run of their own. The first three are exceptions
written into a property that holds, and the property's comment names them.

- **The lockout is up to a pass short** (`LockoutServed`). `matchedAtMs` is the `now`
  of the pass, read before the arrow was touched, so the prompt may open
  `POST_MATCH_LOCKOUT_MS` less one pass after the last arrow.
  `docs/FIRMWARE_ARCHITECTURE.md:471` ("at least 2000 ms"), `:482` ("2-second
  minimum") and `:1695` ask for the whole. A pass is short unless the console
  blocks; and touch input is not written yet (`src/wrist/main.cpp:168`), so a later
  version may pass a fresh `millis()`. The bound of the property is tight.
- **A STATUS received exactly at `millis() = 0` never grows old** (`OnlineMeansRecent`,
  `FireIsJustified`). `launcher_link.cpp:154` takes the stamp 0 for "none yet": silence
  after it is not noticed, and a `FIRE_CMD` may then rest on a STATUS of any age,
  against `docs/FIRMWARE_ARCHITECTURE.md:159`, `:372` and `:1696` ("must block fire if
  launcher status is stale (>5 s)"). It takes a STATUS in the one millisecond in
  49.7 days of uptime at which the clock wraps, and silence after it.
- **The memset of `radio_link_init` can half wipe a command** (`NewestWins`). The
  callback is registered before it (`radio_link.cpp:117`), so a command that begins to
  arrive before it ends may be left with its flag set and its value wiped, and is
  then processed as 0: an `ARM_SET` that disarms or a `FIRE_CMD` that names no request.
  `lib/launcher_core/radio_link.cpp:15-17` mentions no loss but an overwrite. The safe
  half is what the property states: nothing but 0, and only for such a command.
- **The launch pool is never built** (`POOL_BUILT`). `buildLaunchPool` is static and
  nothing calls it (`lib/common/stratagems.cpp:107`), although `:101` calls the pool
  "Populated at runtime". As shipped the wrist draws no stratagem and sends no
  `FIRE_CMD`: `stratagemEngine_selectRandom` finds only null entries.

Two consequences of repeated packets (no receiver looks at `seq`) are stated inside
`AckIsTruthful` and `OnePulsePerRequest`: the copy of a `FIRE_CMD` that arrives while
the first one fires is answered "refused" and puts the launcher in FAULT until the
gate falls, and the true ack is then never sent (`launcher/main.cpp:157`); and a
request that joined the end of another's pulse may, repeated together with its
`ARM_SET`, raise the gate once more. What holds is that no request raises it twice.

The two mailboxes lose the order in which an `ARM_SET` and a `FIRE_CMD` arrived: a
`FIRE_CMD` sent to a disarmed launcher just before an `ARM_SET(true)` can fire.
Nothing in the repository promises otherwise, so no run checks it.

## 5. What is proved

Every invariant, every action property and both refinements that the passing
runs check are theorems, for every value of the constants the assumptions allow.

**Launcher** (`LauncherProofs`, `LauncherTimingProofs`; assumptions
`ClockAssumption`, `LauncherAssumption`, and for the second module
`TimingAssumption`).

| Theorem | Says |
|---|---|
| `TypeCorrect` | `Spec => []TypeOK` |
| `SafetyHolds` | the inductive invariant `SafetyInv` |
| `HotNeedsKeyHolds`, `GateMatchesStateHolds`, `FaultReasonHonestHolds` | its three parts |
| `LauncherImplementsAuthority` | `Spec => AuthoritySpec` |
| `ReportedHotIffHotHolds` | `[]ReportedHotIffHot` |
| `NoPhantomAckHolds` | the action property `NoPhantomAck` |
| `TimingHolds` | the inductive invariant `TimingInv` |
| `GateTimeBoundedHolds`, `StatusFreshHolds` | the gate is never HIGH too long, the broadcast never late |
| `PulseRunsItsLengthHolds`, `IgnitionOnRecentContinuityHolds` | action properties: no pulse is cut short, none starts on an old reading |

*Safety.* `TypeOK` is inductive once each C++ function is shown to keep its
type. `SafetyInv` needs its parts together: that `FIRED` has the gate LOW rests on
`PulseOver` needing an active pulse, and that a fire sets flag and pin together on
their agreement before. One lemma per function (`TickEffect`, `ArmEffect`, ...)
says what it can do to the state, so each case of `SafetyStep` is short.
*Refinement:* `AuthorityStep` maps every action to one of the abstract actions or
a stutter, using `HotNeedsKey` for the key-off step and `SafetyInv` for the
pulse end. *Reports:* `ReportedHotIffHot` is not inductive; `ReportInv` adds what
holds in mid-pass: the last STATUS agrees with the state unless `gPrev` shows a
difference that stage 8 will notice. *Acknowledgements:* `AckInv` says that a
pending ack's token is open; a packet sequence is then examined piece by piece.

*Time.* `ClockProofs` settles the arithmetic of a wrapping clock once: differences
of up to `CLOCK_WRAP` add up (`ElapsedAdds`, `ElapsedThrough`) and grow with each
tick (`ElapsedGrows`). `TimingInv` has four parts. `PassInv`: `millis` is at most a
pass ahead of `now`. `GateInv`: the gate was HIGH for as long as the difference to
the pulse's stamp says, and either that stamp came no later than `now`, and then the
pulse is not yet due at `now` (by a pass, before stage 3 served it), or it was taken
after `now`, and then the pulse is younger than the pass; the second case is the
underflow that `igniter_service` would meet if it ran twice in a pass.
`BroadcastInv`: the STATUS timer is at most a pass overdue. `SampleInv`: a PRESENT
reading was taken while monitoring and is as young as its stamp says, and
`gState.continuity` is PRESENT under the key only while the monitor's is. The one
hypothesis of a theorem, `GHOST_CAP >= IGNITION_PULSE_DURATION_MS` of
`PulseRunsItsLengthHolds`, is about the observer: its measurement must not saturate
below the pulse.

**Mailboxes** (`RadioLinkProofs`), for every set of positive tokens
(`RadioLinkAssumption`).

| Theorem | Says |
|---|---|
| `TypeCorrect` | `Spec => []TypeOK` |
| `MailInvHolds` | the inductive invariant `MailInv` |
| `NewestWinsHolds` | `[]NewestWins` |
| `OncePerPacketHolds` | the action property `OncePerPacket` |

*Argument.* `OnlyGenuineAccepted`: each packet of `Air` that the wrist did not send
fails a check of `onRecv` (`DeviationRefused` takes them one by one), so `Recv`
stores a value of the wrist. `NewestWins` and `OncePerPacket` speak of moments
between stores and are not inductive. `ValueInv` adds what holds in the middle of a
store: unless one is pending, the mailbox `Holds` the newest value, or the 0 the memset
wrote over a command that came before it ended; a pending store is of the newest;
`FlagInv` that a flag that is set, about to be set, or already tested by `loop()`
stands for a packet not yet processed. One lemma per action (`RecvMail`,
`RxStoreMail`, `LookMail`, `MemsetMail`, `ConsumeMail`) preserves both.

**Wrist** (`WristProofs`, `WristTimingProofs`), for every table of stratagems and pool
size, built or not (`EngineAssumption`), every clock and duration
(`ClockAssumption`, `WristAssumption`, and for the second module
`WristTimingAssumption`).

| Theorem | Says |
|---|---|
| `TypeCorrect` | `Spec => []TypeOK` |
| `EntryMatchesActiveHolds` | `[]EntryMatchesActive` |
| `ConfirmIsAnsweredHolds` | `[]ConfirmIsAnswered` |
| `LinkMirrorsStatusHolds` | `[]LinkMirrorsStatus` |
| `ThreeStepSpecHolds` | `Spec => ThreeStepSpec` |
| `WristInvHolds` | the inductive invariant `WristInv` |
| `OnlineMeansRecentHolds` | `[]OnlineMeansRecent` |
| `LockoutServedHolds`, `FireIsJustifiedHolds` | the action properties |

*Engine.* `PoolPlaceFilled` shows that every place of the pool has a definition, by
the least index up to which enough are marked (a cardinality argument), so that
`CHOOSE` in `buildLaunchPool` finds one and a selection keeps its type.
`EntryMatchesActive` is inductive with the type: one lemma per function of the
engine, of which `DirectionEffect` (an arrow extends a prefix, completes it, or
drops it) carries the weight. *Refinement:* `ThreeStep` maps each step to one of
`FireSequence`'s actions or a stutter; that an arrow can only extend the active
sequence is `EntryMatchesActive`. *Link:* `LinkMirrorsStatus` speaks of moments between
callbacks; `MirrorInv` says the same of the value a field *will* have once the
callback has stored it, and `DropInv` that the timeout clears nothing but `online`
and `armed`, so the mirror is only ever weakened. *Time:* `OnlineInv` is the heart:
the stamp of an online launcher is either later than `now`, and then younger than
the pass, or within the timeout of `now` (a pass more until the pass has tested it).
`StoreInv` supplies what holds between two stores of one STATUS. `LockInv` ties the
lockout's stamp to the observer's `sinceMatch`, with the pass by which the stamp may
be early. `EvidenceInv` says that each flag the gate has already found TRUE was
claimed by a STATUS the observer counts as evidence, and that the launcher is still
online. `LockoutServedHolds` assumes `GHOST_CAP >= POST_MATCH_LOCKOUT_MS -
MAX_ITER_MS`, again about the observer only.

**Both units** (`TacComProofs`), for every number of requests, every capacity of the
queues, every clock and duration (`TacComAssumption`, `ClockAssumption`).

| Theorem | Says |
|---|---|
| `TypeCorrect` | `Spec => [](TypeOK /\ RadioInv)` |
| `EachPulseIsArmedHolds` | `[]EachPulseIsArmed` |
| `OnePulsePerRequestHolds` | `[]OnePulsePerRequest` |
| `AgreementHolds` | `[]Agreement` |
| `AckIsTruthfulHolds` | `[]AckIsTruthful` |

*Argument.* A pass of the launcher is first summarised: one lemma per stage
(`TimedEffect`, `ArmStage`, `FireStage`, `ReportStage`), put together by `PassSummary`
to `PassEffect`, which is all the later proofs know of it. `RadioInv`: no packet,
mailbox or ack names a request that was not sent. `PulsesInv` proves both properties
of pulses: `SettledInv` (a pulse that ends, or has not begun, has nothing older under
way) is what `RadioSettles` buys; `ArmInv` says that an `ARM_SET(true)` sent before the
last pulse can only be among the first `lingering` packets or in a mailbox still to be
emptied during the pulse, so none of them arms a launcher whose gate is LOW; `PulseInv`
says the same of every copy of a `FIRE_CMD` that has raised the gate. `Agreement` speaks
of an empty queue; `AgreementInv` carries it along the radio: the newest STATUS under
way, or the last to have arrived, agrees with the launcher. `AckIsTruthful` needs `AckInv`:
a request that the radio did not repeat is in one place only (under way, in the
mailbox, owed an ack, or told), and each answer under way tells what became of it.

**Only model-checked:** the liveness properties (`PulseEnds`, `FiredEnds`,
`CommandsDrained`, `EntryEnds`, `LockoutEnds`, `MailboxesDrain`): temporal fairness and
`ENABLED` are outside the prover's reach. That the shipped table has the shape the
engine takes for granted (`ShippedTable`) is evaluated by TLC in every wrist run.

## 6. Not modelled

- The byte layout and the CRC's arithmetic (pure functions over bytes; a damaged
  packet is assumed to fail the check), and `validatePacket`, which nothing calls.
- The averaging of eight ADC samples (any averaged reading may come), logging, the
  console's text, `getStratagemById` and `directionToArrow`.
- The display, LVGL, battery, power manager and indicators, TODOs in the code.
- Fields only logged or printed: `batteryPct`, `linkQuality`, `seq`, `lastEvent` and
  the like on the wrist. `FIRE_ACK`'s fields are modelled in `TacCom`, which asks
  what a screen could conclude from them.
- `esp_now_add_peer` failing (packets are then lost) and `esp_now_send` failing,
  which only logs and equals a loss.

## 7. Plan

1. Done: `LauncherState`, `Launcher`, `IgnitionAuthority`, `Packets`, `RadioLink`,
   `Stratagems`, `StratagemEngine`, `Wrist`, `FireSequence`, `TacCom` and their runs.
2. Done: proofs of every invariant, action property and refinement of those runs.
3. Left: theorems about the two abstract specifications themselves (what any
   implementation of `IgnitionAuthority` and `FireSequence` inherits), and the
   conditions under which what the violation runs refute does hold (for instance
   the cooldown of a pass in which the clock did not advance).
