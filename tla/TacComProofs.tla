----------------------------- MODULE TacComProofs -----------------------------
(***************************************************************************)
(* Theorems about TacCom, for every number of requests, every capacity of  *)
(* the two queues, every clock and every duration.                         *)
(***************************************************************************)
EXTENDS TacCom, LauncherStateProofs, SequenceTheorems

UpPackets ==
  [msgType : {"ARM_SET"}, arm : BOOLEAN] \cup
  [msgType : {"FIRE_CMD"}, token : Requests]
DownPackets ==
  [msgType : {"STATUS"}, armed : BOOLEAN] \cup
  [msgType : {"FIRE_ACK"}, token : Requests, accepted : BOOLEAN]

\* What TypeOK leaves open: the packets under way, and that neither a packet, a
\* mailbox nor an ack names a request that was not sent.
Sent == 1 .. requests
RadioInv ==
  /\ toLauncher \in Seq(UpPackets) /\ toWrist \in Seq(DownPackets)
  /\ lingering \in Nat
  /\ confirmed => requests < MAX_REQUESTS
  /\ \A i \in DOMAIN toLauncher :
        toLauncher[i].msgType = "FIRE_CMD" => toLauncher[i].token \in Sent
  /\ \A i \in DOMAIN toWrist :
        toWrist[i].msgType = "FIRE_ACK" => toWrist[i].token \in Sent
  /\ pendingFire # <<>> => pendingFire[1] \in Sent
  /\ gAck.pending => gAck.token \in Sent
  /\ lastAck.token # 0 => lastAck.token \in Sent
  /\ \A r \in Requests \ Sent : raises[r] = 0 /\ outcome[r] = "none"
  /\ repeated \subseteq Sent
  /\ SafeState(gState)

\* A pulse ends only when nothing is under way since before it began, and a
\* pulse that has not begun leaves nothing either.
SettledInv ==
  /\ settled => lingering = 0
  /\ ~igniter.active => settled

\* An ARM_SET(true) that was sent before the last pulse began is one of the
\* first `lingering` packets, or waits in the mailbox while they are not all
\* gone; it arms no launcher whose gate is LOW.
ArmInv ==
  ~armSent =>
    /\ \A i \in DOMAIN toLauncher :
          i > lingering => toLauncher[i] # ArmSet(TRUE)
    /\ settled => pendingArm # <<TRUE>>
    /\ ~igniter.active => gState.state # "ARMED"

\* So is every copy of a FIRE_CMD that has raised the gate.
PulseInv ==
  \A r \in Requests : raises[r] # 0 =>
    /\ raises[r] = 1
    /\ \A i \in DOMAIN toLauncher : i > lingering => toLauncher[i] # FireCmd(r)
    /\ settled => pendingFire # <<r>>

\* A FIRE_CMD is under way once, unless the radio repeats it, and no longer
\* after its answer.  Each answer tells what became of the request.
UnderWay(r) == \E i \in DOMAIN toLauncher : toLauncher[i] = FireCmd(r)
Told(r, accepted) ==
  \/ \E i \in DOMAIN toWrist : toWrist[i] = FireAck(r, accepted)
  \/ lastAck = [token |-> r, accepted |-> accepted]
Owed(r) == gAck.pending /\ gAck.token = r
AckFacts(r) ==
  /\ pendingFire = <<r>> => ~UnderWay(r)
  /\ outcome[r] # "none" \/ Owed(r) \/ Told(r, TRUE) \/ Told(r, FALSE)
       => ~UnderWay(r) /\ pendingFire # <<r>>
  /\ Owed(r) => outcome[r] \in {"raised", "joined"}
  /\ Told(r, TRUE) => outcome[r] \in {"done", "shared"}
  /\ Told(r, FALSE) => outcome[r] = "none"
AckInv ==
  /\ \A i, j \in DOMAIN toLauncher :
        toLauncher[i].msgType = "FIRE_CMD" /\ toLauncher[j] = toLauncher[i] => i = j
  /\ \A r \in Requests : outcome[r] \in {"raised", "joined"} => igniter.active
  /\ \A r \in Requests \ repeated : AckFacts(r)

\* The newest STATUS, under way or arrived, agrees with the launcher.
Agrees(armed, s) ==
  /\ armed => s.state \in Hot /\ s.keySwitchOn
  /\ s.state = "ARMED" => armed
IsStatus(i) == i \in DOMAIN toWrist /\ toWrist[i].msgType = "STATUS"
AgreementInv ==
  ~missed =>
    /\ \A i \in DOMAIN toWrist :
          IsStatus(i) /\ (\A j \in DOMAIN toWrist : j > i => ~IsStatus(j))
            => Agrees(toWrist[i].armed, gState)
    /\ (\A i \in DOMAIN toWrist : ~IsStatus(i)) /\ gLink.online
         => Agrees(gLink.armed, gState)
-----------------------------------------------------------------------------
(* The radio takes as many of the packets, in order, as the queue holds.   *)
LEMMA PostEffect ==
  ASSUME NEW S, NEW queue \in Seq(S), NEW packets \in Seq(S),
         NEW capacity \in Nat, NEW r, r = Post(queue, packets, capacity)
  PROVE  /\ r \in Seq(S) /\ Len(r) <= capacity
         /\ Len(r) <= Len(queue) + Len(packets)
         /\ \A i \in 1 .. Len(r) :
               r[i] = IF i <= Len(queue) THEN queue[i] ELSE packets[i - Len(queue)]
         /\ Len(queue) + Len(packets) <= capacity =>
               Len(r) = Len(queue) + Len(packets)
         /\ Len(queue) <= capacity => Len(r) >= Len(queue)
  <1> DEFINE all == queue \o packets
             n   == IF Len(all) < capacity THEN Len(all) ELSE capacity
  <1>1. /\ all \in Seq(S) /\ Len(all) = Len(queue) + Len(packets)
        /\ \A i \in 1 .. Len(all) :
              all[i] = IF i <= Len(queue) THEN queue[i] ELSE packets[i - Len(queue)]
    OBVIOUS
  <1> HIDE DEF all
  <1>2. n \in 0 .. Len(all) /\ n <= capacity
        /\ (n = Len(all) \/ n = capacity)
    BY <1>1
  <1>3. r = SubSeq(all, 1, n)
    BY DEF Post, all
  <1> HIDE DEF n
  <1>4. /\ r \in Seq(S) /\ Len(r) = n
        /\ \A i \in 1 .. n : r[i] = all[i]
    BY <1>1, <1>2, <1>3
  <1>5. \A i \in 1 .. Len(r) :
          r[i] = IF i <= Len(queue) THEN queue[i] ELSE packets[i - Len(queue)]
    BY <1>1, <1>2, <1>4
  <1>6. Len(queue) \in Nat /\ Len(packets) \in Nat
    OBVIOUS
  <1>7. QED  BY <1>1, <1>2, <1>4, <1>5, <1>6

(* The packets the two units build, and what tells them apart.             *)
LEMMA PacketType ==
  /\ \A s : Status(s) \in DownPackets
  /\ \A s : /\ Status(s).msgType = "STATUS"
            /\ Status(s).armed <=> s.state = "ARMED"
  /\ \A r \in Requests, accepted \in BOOLEAN : FireAck(r, accepted) \in DownPackets
  /\ \A r, accepted : FireAck(r, accepted).msgType = "FIRE_ACK"
  /\ \A r \in Requests : FireCmd(r) \in UpPackets
  /\ \A arm \in BOOLEAN : ArmSet(arm) \in UpPackets
  BY DEF Status, FireAck, FireCmd, ArmSet, DownPackets, UpPackets

\* What the wrist will make of the packets of a pass that ends in state s.
EndsInStatus(packets, s) ==
  packets # <<>> => /\ packets[Len(packets)].msgType = "STATUS"
                    /\ Agrees(packets[Len(packets)].armed, s)
Acks(packets) ==
  {packets[i] : i \in {j \in DOMAIN packets : packets[j].msgType = "FIRE_ACK"}}

(* Another STATUS at the end: it alone is the newest, and no ack is added. *)
LEMMA SendStatus ==
  ASSUME NEW packets \in Seq(DownPackets), NEW s, SafeState(s),
         NEW r, r = Append(packets, Status(s))
  PROVE  /\ r \in Seq(DownPackets) /\ r # <<>>
         /\ EndsInStatus(r, s)
         /\ Acks(r) = Acks(packets)
  <1> DEFINE x == Status(s)
  <1>1. x \in DownPackets /\ x.msgType = "STATUS" /\ (x.armed <=> s.state = "ARMED")
    BY PacketType
  <1> HIDE DEF x
  <1>2. /\ r \in Seq(DownPackets) /\ Len(r) = Len(packets) + 1 /\ r # <<>>
        /\ r[Len(r)] = x
        /\ \A i \in DOMAIN packets : r[i] = packets[i]
        /\ DOMAIN r = DOMAIN packets \cup {Len(r)}
    BY <1>1 DEF x
  <1>3. Agrees(x.armed, s)
    BY <1>1 DEF Agrees, SafeState, Hot
  <1>4. Acks(r) = Acks(packets)
    BY <1>1, <1>2 DEF Acks
  <1>5. QED  BY <1>1, <1>2, <1>3, <1>4 DEF EndsInStatus

(* Another FIRE_ACK adds that ack and no other.                            *)
LEMMA SendAck ==
  ASSUME NEW packets \in Seq(DownPackets), NEW token \in Requests,
         NEW accepted \in BOOLEAN,
         NEW r, r = Append(packets, FireAck(token, accepted))
  PROVE  /\ r \in Seq(DownPackets)
         /\ Acks(r) = Acks(packets) \cup {FireAck(token, accepted)}
  <1> DEFINE x == FireAck(token, accepted)
  <1>1. x \in DownPackets /\ x.msgType = "FIRE_ACK"
    BY PacketType
  <1> HIDE DEF x
  <1>2. /\ r \in Seq(DownPackets) /\ Len(r) = Len(packets) + 1
        /\ r[Len(r)] = x
        /\ \A i \in DOMAIN packets : r[i] = packets[i]
        /\ DOMAIN r = DOMAIN packets \cup {Len(r)}
    BY <1>1 DEF x
  <1>3. Acks(r) = Acks(packets) \cup {x}
    BY <1>1, <1>2 DEF Acks
  <1>4. QED  BY <1>2, <1>3 DEF x

(* A pass begins with nothing to send.                                     *)
LEMMA NoPackets ==
  <<>> \in Seq(DownPackets) /\ Acks(<<>>) = {} /\ \A s : EndsInStatus(<<>>, s)
  BY EmptySeq DEF Acks, EndsInStatus

\* What the stages of a pass hand on.
Passes ==
  [gState : LauncherRuntimeState, igniter : Igniter,
   gAck : [pending : BOOLEAN, token : 0 .. MAX_REQUESTS],
   packets : Seq(DownPackets)]

(* Stages 2 to 4: a pulse that is over completes, with its ack and a       *)
(* STATUS; without one the state stays or becomes DISARMED.                *)
LEMMA TimedEffect ==
  ASSUME TypeOK, RadioInv, NEW level \in BOOLEAN, NEW now \in Millis,
         NEW stamp \in Millis, NEW p, p = Timed(level, now, stamp)
  PROVE  LET over == PulseOver(igniter, now)
         IN  /\ p \in Passes /\ SafeState(p.gState)
             /\ p.igniter.active <=> igniter.active /\ ~over
             /\ ~over => /\ p.gState.state \in {gState.state, "DISARMED"}
                         /\ p.gAck = gAck /\ p.packets = <<>>
             /\ over => /\ p.gState.state \in {"FIRED", "DISARMED"}
                        /\ p.gAck = [gAck EXCEPT !.pending = FALSE]
                        /\ p.packets # <<>> /\ EndsInStatus(p.packets, p.gState)
                        /\ Acks(p.packets) = IF gAck.pending
                                             THEN {FireAck(gAck.token, TRUE)} ELSE {}
  <1> DEFINE keyed == IF level # gState.keySwitchOn
                      THEN launcherState_onInterlockChanged(gState, level) ELSE gState
             pulsed == launcherState_onIgnitionComplete(keyed, stamp)
             ack == IF gAck.pending THEN <<FireAck(gAck.token, TRUE)>> ELSE <<>>
             over == PulseOver(igniter, now)
  <1>0. /\ gState \in LauncherRuntimeState /\ SafeState(gState)
        /\ igniter \in Igniter
        /\ gAck \in [pending : BOOLEAN, token : 0 .. MAX_REQUESTS]
        /\ gAck.pending => gAck.token \in Requests
    BY TacComAssumption DEF TypeOK, RadioInv, Sent, Requests
  <1>1. keyed \in LauncherRuntimeState /\ SafeState(keyed)
        /\ keyed.state \in {gState.state, "DISARMED"}
    BY <1>0, StateMachineType, InterlockEffect DEF ContinuityState
  <1> HIDE DEF keyed
  <1>2. pulsed \in LauncherRuntimeState
    BY <1>1, StateMachineType DEF ContinuityState
  <1>3. pulsed.state = "FIRED"
    BY <1>1 DEF launcherState_onIgnitionComplete, LauncherRuntimeState
  <1>4. SafeState(pulsed)
    BY <1>3 DEF SafeState, Hot
  <1>5. /\ ack \in Seq(DownPackets)
        /\ Acks(ack) = IF gAck.pending THEN {FireAck(gAck.token, TRUE)} ELSE {}
    <2>1. CASE gAck.pending
      <3> DEFINE x == FireAck(gAck.token, TRUE)
      <3>1. ack = <<x>>
        BY <2>1
      <3>2. <<x>> = Append(<<>>, x)
        <4> HIDE DEF x
        <4>1. QED  OBVIOUS
      <3>3. <<x>> \in Seq(DownPackets) /\ Acks(<<x>>) = Acks(<<>>) \cup {x}
        <4>1. gAck.token \in Requests /\ <<>> \in Seq(DownPackets)
              /\ TRUE \in BOOLEAN
          BY <1>0, <2>1, NoPackets
        <4>2. QED  BY <3>2, <4>1, SendAck, Zenon
      <3>4. QED  BY <2>1, <3>1, <3>3, NoPackets
    <2>2. CASE ~gAck.pending
      <3>1. ack = <<>>
        BY <2>2
      <3>2. QED  BY <2>2, <3>1, NoPackets
    <2>3. QED  BY <2>1, <2>2
  <1>6. p = IF over
            THEN Pass(launcherState_tick(pulsed, now), igniter_forceOff(igniter),
                      [gAck EXCEPT !.pending = FALSE], Append(ack, Status(pulsed)))
            ELSE Pass(launcherState_tick(keyed, now), igniter, gAck, <<>>)
    BY DEF Timed, keyed
  <1> HIDE DEF pulsed, ack, over
  <1>7. CASE ~over
    <2>1. /\ p.gState = launcherState_tick(keyed, now) /\ p.igniter = igniter
          /\ p.gAck = gAck /\ p.packets = <<>>
          /\ p = Pass(p.gState, p.igniter, p.gAck, p.packets)
      BY <1>6, <1>7 DEF Pass
    <2>2. /\ p.gState \in LauncherRuntimeState /\ SafeState(p.gState)
          /\ p.gState.state \in {gState.state, "DISARMED"}
      BY <1>1, <2>1, StateMachineType, TickEffect DEF ContinuityState
    <2>3. p.packets \in Seq(DownPackets) /\ p.igniter \in Igniter
          /\ p.gAck \in [pending : BOOLEAN, token : 0 .. MAX_REQUESTS]
      BY <1>0, <2>1
    <2>4. p \in Passes
      BY <2>1, <2>2, <2>3 DEF Passes, Pass
    <2>5. QED  BY <1>0, <1>7, <2>1, <2>2, <2>4 DEF over
  <1>8. CASE over
    <2>1. /\ p.gState = launcherState_tick(pulsed, now)
          /\ p.igniter = igniter_forceOff(igniter)
          /\ p.gAck = [gAck EXCEPT !.pending = FALSE]
          /\ p.packets = Append(ack, Status(pulsed))
          /\ p = Pass(p.gState, p.igniter, p.gAck, p.packets)
      BY <1>6, <1>8 DEF Pass
    <2>2. /\ p.gState \in LauncherRuntimeState /\ SafeState(p.gState)
          /\ p.gState.state \in {"FIRED", "DISARMED"}
      <3>1. p.gState \in LauncherRuntimeState
        BY <1>2, <2>1, StateMachineType DEF ContinuityState
      <3>2. /\ SafeState(p.gState)
            /\ p.gState.state # pulsed.state => p.gState.state = "DISARMED"
        BY <1>2, <1>4, <2>1, TickEffect
      <3>3. QED  BY <1>3, <3>1, <3>2
    <2>3. p.igniter \in Igniter /\ ~p.igniter.active
      BY <1>0, <2>1 DEF igniter_forceOff, Igniter
    <2>4. /\ p.packets \in Seq(DownPackets) /\ p.packets # <<>>
          /\ EndsInStatus(p.packets, pulsed) /\ Acks(p.packets) = Acks(ack)
      BY <1>4, <1>5, <2>1, SendStatus
    <2>5. p.gAck \in [pending : BOOLEAN, token : 0 .. MAX_REQUESTS]
      BY <1>0, <2>1
    <2>6. p \in Passes
      BY <2>1, <2>2, <2>3, <2>4, <2>5 DEF Passes, Pass
    <2>7. EndsInStatus(p.packets, p.gState)
      BY <1>3, <2>2, <2>4 DEF EndsInStatus, Agrees, Hot
    <2>8. QED
      BY <1>5, <1>8, <2>1, <2>2, <2>3, <2>4, <2>6, <2>7 DEF over
  <1>9. QED  BY <1>7, <1>8

(* Stage 5: armed only by the ARM_SET(true) in the mailbox, and a STATUS   *)
(* tells.                                                                  *)
LEMMA ArmStage ==
  ASSUME TypeOK, NEW p \in Passes, SafeState(p.gState), NEW q, q = AfterArm(p)
  PROVE  /\ q \in Passes /\ SafeState(q.gState)
         /\ q.igniter = p.igniter /\ q.gAck = p.gAck
         /\ Acks(q.packets) = Acks(p.packets)
         /\ \/ q.gState.state = p.gState.state
            \/ q.gState.state = "DISARMED"
            \/ q.gState.state = "ARMED" /\ pendingArm = <<TRUE>>
         /\ IF pendingArm = <<>> THEN q = p
            ELSE q.packets # <<>> /\ EndsInStatus(q.packets, q.gState)
  <1>1. CASE pendingArm = <<>>
    BY <1>1 DEF AfterArm
  <1>2. CASE pendingArm # <<>>
    <2> DEFINE arm == pendingArm[1]
               s   == launcherState_onArm(p.gState, arm)
    <2>a. pendingArm = <<TRUE>> \/ pendingArm = <<FALSE>>
      BY <1>2 DEF TypeOK
    <2>b. arm \in BOOLEAN /\ (arm => pendingArm = <<TRUE>>)
      <3>1. CASE pendingArm = <<TRUE>>
        BY <3>1
      <3>2. CASE pendingArm = <<FALSE>>
        BY <3>2
      <3>3. QED  BY <2>a, <3>1, <3>2
    <2>0. /\ arm \in BOOLEAN /\ (arm => pendingArm = <<TRUE>>)
          /\ p.gState \in LauncherRuntimeState /\ p.packets \in Seq(DownPackets)
          /\ p.igniter \in Igniter
          /\ p.gAck \in [pending : BOOLEAN, token : 0 .. MAX_REQUESTS]
      BY <2>b DEF Passes
    <2>1. q = [p EXCEPT !.gState = s, !.packets = Append(p.packets, Status(s))]
      BY <1>2 DEF AfterArm
    <2> HIDE DEF arm
    <2>2. /\ s \in LauncherRuntimeState /\ SafeState(s)
          /\ \/ s.state = p.gState.state
             \/ s.state = "DISARMED"
             \/ s.state = "ARMED" /\ arm
      <3>1. s \in LauncherRuntimeState
        BY <2>0, ClockType, StateMachineType DEF ContinuityState
      <3>2. QED  BY <2>0, <3>1, ArmEffect
    <2> HIDE DEF s
    <2>3. /\ q.gState = s /\ q.igniter = p.igniter /\ q.gAck = p.gAck
          /\ q.packets = Append(p.packets, Status(s))
          /\ q = [gState |-> q.gState, igniter |-> q.igniter, gAck |-> q.gAck,
                  packets |-> q.packets]
      BY <2>1 DEF Passes
    <2>4. /\ q.packets \in Seq(DownPackets) /\ q.packets # <<>>
          /\ EndsInStatus(q.packets, s) /\ Acks(q.packets) = Acks(p.packets)
      BY <2>0, <2>2, <2>3, SendStatus
    <2>5. q \in Passes
      BY <2>0, <2>2, <2>3, <2>4 DEF Passes
    <2>6. QED  BY <1>2, <2>0, <2>2, <2>3, <2>4, <2>5
  <1>3. QED  BY <1>1, <1>2

\* The FIRE_CMD of the mailbox is accepted in state s, or refused.
LEMMA FireStage ==
  ASSUME TypeOK, NEW q \in Passes, SafeState(q.gState), pendingFire # <<>>,
         EndsInStatus(q.packets, q.gState), NEW r, r = AfterFire(q)
  PROVE  /\ r \in Passes /\ SafeState(r.gState)
         /\ EndsInStatus(r.packets, r.gState)
         /\ \/ /\ q.gState.state = "ARMED" /\ r.gState.state = "FIRING"
               /\ r.igniter.active /\ r.packets = q.packets
               /\ r.gAck = [pending |-> TRUE, token |-> pendingFire[1]]
            \/ /\ r.gState.state = "FAULT" /\ r.igniter = q.igniter
               /\ r.packets # <<>>
               /\ Acks(r.packets) = Acks(q.packets)
                                      \cup {FireAck(pendingFire[1], FALSE)}
               /\ r.gAck = [pending |-> FALSE, token |-> pendingFire[1]]
  <1> DEFINE s     == launcherState_onFireCmd(q.gState)
             token == pendingFire[1]
  <1>0. /\ token \in Requests /\ token \in 0 .. MAX_REQUESTS
        /\ q.gState \in LauncherRuntimeState /\ q.packets \in Seq(DownPackets)
        /\ q.igniter \in Igniter
    BY TacComAssumption DEF TypeOK, Passes, Requests
  <1>1. r = IF s.state = "FIRING" THEN Accept(q, s, token) ELSE Refuse(q, s, token)
    BY DEF AfterFire
  <1> HIDE DEF token
  <1>2. /\ s \in LauncherRuntimeState /\ SafeState(s)
        /\ \/ s.state = "FAULT"
           \/ s.state = "FIRING" /\ q.gState.state = "ARMED"
    <2>1. s \in LauncherRuntimeState
      BY <1>0, ClockType, StateMachineType DEF ContinuityState
    <2>2. QED  BY <1>0, <2>1, FireEffect
  <1> HIDE DEF s
  <1>3. CASE s.state = "FIRING"
    <2>1. /\ r.gState = s /\ r.igniter = igniter_startPulse(q.igniter, 0)
          /\ r.packets = q.packets
          /\ r.gAck = [pending |-> TRUE, token |-> token]
          /\ r = Pass(r.gState, r.igniter, r.gAck, r.packets)
      BY <1>1, <1>3 DEF Accept, Pass
    <2>2. r.igniter \in Igniter /\ r.igniter.active
      BY <1>0, <2>1, ClockType DEF igniter_startPulse, Igniter
    <2>3. r.gAck \in [pending : BOOLEAN, token : 0 .. MAX_REQUESTS]
      BY <1>0, <2>1
    <2>4. r \in Passes
      BY <1>0, <1>2, <2>1, <2>2, <2>3 DEF Passes, Pass
    <2>5. EndsInStatus(r.packets, s)
      BY <1>2, <1>3, <2>1 DEF EndsInStatus, Agrees, SafeState, Hot
    <2>6. QED  BY <1>2, <1>3, <2>1, <2>2, <2>4, <2>5 DEF token
  <1>4. CASE s.state # "FIRING"
    <2> DEFINE acked == Append(q.packets, FireAck(token, FALSE))
    <2>1. /\ r.gState = s /\ r.igniter = q.igniter
          /\ r.packets = q.packets \o <<FireAck(token, FALSE), Status(s)>>
          /\ r.gAck = [pending |-> FALSE, token |-> token]
          /\ r = Pass(r.gState, r.igniter, r.gAck, r.packets)
      BY <1>1, <1>4 DEF Refuse, Pass
    <2>2. r.packets = Append(acked, Status(s))
      <3> DEFINE x == FireAck(token, FALSE)
                 y == Status(s)
      <3>1. x \in DownPackets /\ y \in DownPackets
        <4>1. FALSE \in BOOLEAN
          OBVIOUS
        <4>2. QED  BY <1>0, <4>1, PacketType, Zenon
      <3> HIDE DEF x, y
      <3>2. q.packets \o <<x, y>> = Append(Append(q.packets, x), y)
        BY <1>0, <3>1
      <3>3. QED  BY <2>1, <3>2 DEF x, y
    <2>3. /\ acked \in Seq(DownPackets)
          /\ Acks(acked) = Acks(q.packets) \cup {FireAck(token, FALSE)}
      <3>1. FALSE \in BOOLEAN
        OBVIOUS
      <3>2. QED  BY <1>0, <3>1, SendAck, Zenon
    <2> HIDE DEF acked
    <2>4. /\ r.packets \in Seq(DownPackets) /\ r.packets # <<>>
          /\ EndsInStatus(r.packets, s) /\ Acks(r.packets) = Acks(acked)
      BY <1>2, <2>2, <2>3, SendStatus
    <2>5. r.gAck \in [pending : BOOLEAN, token : 0 .. MAX_REQUESTS]
      BY <1>0, <2>1
    <2>6. r \in Passes
      BY <1>0, <1>2, <2>1, <2>4, <2>5 DEF Passes, Pass
    <2>7. QED  BY <1>2, <1>4, <2>1, <2>3, <2>4, <2>6 DEF token
  <1>5. QED  BY <1>3, <1>4

(* Stages 7 to 9 change the reading only, and what they leave unsaid the   *)
(* newest STATUS said already.                                             *)
LEMMA ReportStage ==
  ASSUME TypeOK, NEW r \in Passes, SafeState(r.gState),
         EndsInStatus(r.packets, r.gState),
         NEW reading \in ContinuityState, NEW periodic \in BOOLEAN,
         NEW z, z = Reported(r, reading, periodic)
  PROVE  /\ z \in Passes /\ SafeState(z.gState)
         /\ z.gState.state = r.gState.state
         /\ z.igniter = r.igniter /\ z.gAck = r.gAck
         /\ EndsInStatus(z.packets, z.gState)
         /\ Acks(z.packets) = Acks(r.packets)
         /\ z.packets = <<>> => /\ z.gState.state = gState.state
                                /\ z.gState.keySwitchOn = gState.keySwitchOn
  <1> DEFINE s == launcherState_onContinuityChanged(r.gState, reading)
             changed  == IF stateChanged(s) THEN <<Status(s)>> ELSE <<>>
             fromTime == IF periodic THEN <<Status(s)>> ELSE <<>>
             first    == r.packets \o changed
  <1>0. /\ r.gState \in LauncherRuntimeState /\ r.packets \in Seq(DownPackets)
        /\ r.igniter \in Igniter
        /\ r.gAck \in [pending : BOOLEAN, token : 0 .. MAX_REQUESTS]
    BY DEF Passes
  <1>1. /\ s \in LauncherRuntimeState /\ SafeState(s)
        /\ s.state = r.gState.state /\ s.keySwitchOn = r.gState.keySwitchOn
    <2>1. s \in LauncherRuntimeState
      BY <1>0, ClockType, StateMachineType
    <2>2. QED  BY <1>0, <2>1, ContinuityEffect
  <1>2. z = [r EXCEPT !.gState = s, !.packets = first \o fromTime]
    BY DEF Reported
  <1> HIDE DEF s
  <1>3. EndsInStatus(r.packets, s)
    BY <1>1 DEF EndsInStatus, Agrees
  <1>4. ASSUME NEW packets \in Seq(DownPackets), EndsInStatus(packets, s),
               NEW more \in {<<>>, <<Status(s)>>}
        PROVE  /\ packets \o more \in Seq(DownPackets)
               /\ EndsInStatus(packets \o more, s)
               /\ Acks(packets \o more) = Acks(packets)
               /\ more # <<>> => packets \o more # <<>>
               /\ more = <<>> => packets \o more = packets
    <2>1. CASE more = <<>>
      <3>1. packets \o more = packets
        BY <2>1
      <3>2. QED  BY <1>4, <2>1, <3>1
    <2>2. CASE more = <<Status(s)>>
      <3> DEFINE x == Status(s)
      <3>1. more = <<x>> /\ x \in DownPackets
        BY <2>2, PacketType
      <3> HIDE DEF x
      <3>2. packets \o more = Append(packets, x) /\ more # <<>>
        BY <3>1
      <3>3. packets \o more = Append(packets, Status(s))
        BY <3>2 DEF x
      <3>4. QED  BY <1>1, <3>2, <3>3, SendStatus
    <2>3. QED  BY <1>4, <2>1, <2>2
  <1>5. changed \in {<<>>, <<Status(s)>>} /\ fromTime \in {<<>>, <<Status(s)>>}
        /\ (changed = <<>> => ~stateChanged(s))
    OBVIOUS
  <1> HIDE DEF changed, fromTime
  <1>6. /\ first \in Seq(DownPackets) /\ EndsInStatus(first, s)
        /\ Acks(first) = Acks(r.packets)
        /\ first = <<>> => ~stateChanged(s)
    BY <1>0, <1>3, <1>4, <1>5
  <1> HIDE DEF first
  <1>7. /\ first \o fromTime \in Seq(DownPackets)
        /\ EndsInStatus(first \o fromTime, s)
        /\ Acks(first \o fromTime) = Acks(r.packets)
        /\ first \o fromTime = <<>> => ~stateChanged(s)
    BY <1>4, <1>5, <1>6
  <1>8. /\ z.gState = s /\ z.igniter = r.igniter /\ z.gAck = r.gAck
        /\ z.packets = first \o fromTime
        /\ z = [gState |-> z.gState, igniter |-> z.igniter, gAck |-> z.gAck,
                packets |-> z.packets]
    BY <1>2 DEF Passes
  <1>9. z \in Passes
    BY <1>0, <1>1, <1>7, <1>8 DEF Passes
  <1>10. QED  BY <1>1, <1>7, <1>8, <1>9 DEF stateChanged

\* What a pass of the launcher's loop does, whichever stages it goes through, when
\* it sends these packets.
Over(now) == PulseOver(igniter, now)
Accepted == pendingFire # <<>> /\ gState'.state = "FIRING"
Refused == pendingFire # <<>> /\ gState'.state # "FIRING"
Rises(now) == Accepted /\ (Over(now) \/ ~igniter.active)
PassEffect(now, packets) ==
  /\ packets \in Seq(DownPackets)
  /\ gState' \in LauncherRuntimeState /\ SafeState(gState') /\ igniter' \in Igniter
  /\ Over(now) => igniter.active /\ settled
  /\ igniter'.active <=> Accepted \/ (igniter.active /\ ~Over(now))
  /\ gState'.state = "ARMED" \/ Accepted =>
       (gState.state = "ARMED" /\ ~Over(now)) \/ pendingArm = <<TRUE>>
  /\ Accepted => gAck' = [pending |-> TRUE, token |-> pendingFire[1]]
  /\ Refused => gAck' = [pending |-> FALSE, token |-> pendingFire[1]]
  /\ pendingFire = <<>> =>
       gAck' = IF Over(now) THEN [gAck EXCEPT !.pending = FALSE] ELSE gAck
  /\ Acks(packets) =
       (IF Over(now) /\ gAck.pending THEN {FireAck(gAck.token, TRUE)} ELSE {})
       \cup (IF Refused THEN {FireAck(pendingFire[1], FALSE)} ELSE {})
  /\ EndsInStatus(packets, gState')
  /\ packets = <<>> => /\ gState'.state = gState.state
                       /\ gState'.keySwitchOn = gState.keySwitchOn
  /\ toWrist' = Post(toWrist, packets, DOWNLINK)
  /\ missed' = IF packets = <<>> THEN missed
               ELSE Len(toWrist) + Len(packets) > DOWNLINK
  /\ outcome' = [r \in Requests |->
       IF Accepted /\ pendingFire = <<r>>
       THEN IF Rises(now) THEN "raised" ELSE "joined"
       ELSE IF Over(now) /\ outcome[r] = "raised" THEN "done"
       ELSE IF Over(now) /\ outcome[r] = "joined" THEN "shared"
       ELSE outcome[r]]
  /\ lingering' = IF Rises(now) THEN Len(toLauncher) ELSE lingering
  /\ settled' = (lingering = 0 /\ ~Rises(now))
  /\ raises' = IF Rises(now) /\ raises[pendingFire[1]] < 2
               THEN [raises EXCEPT ![pendingFire[1]] = @ + 1] ELSE raises
  /\ unarmed' = (unarmed \/ (Rises(now) /\ ~armSent))
  /\ armSent' = (armSent /\ ~Rises(now))
  /\ pendingArm' = <<>> /\ pendingFire' = <<>>
  /\ UNCHANGED <<gLink, lastAck, confirmed, gWasArmed, requests, toLauncher, repeated>>

(* A pass of the launcher's loop does what PassEffect says: the stages one *)
(* after another, and what the observer records of them.                   *)
LEMMA PassSummary ==
  ASSUME TypeOK, RadioInv,
         NEW level \in BOOLEAN, NEW periodic \in BOOLEAN,
         NEW now \in Millis, NEW stamp \in Millis, NEW reading \in ContinuityState,
         LauncherPass(level, now, stamp, reading, periodic)
  PROVE  \E packets : PassEffect(now, packets)
  <1> DEFINE timed == Timed(level, now, stamp)
             armed == AfterArm(timed)
             fired == AfterFire(armed)
             z     == Reported(fired, reading, periodic)
  <1>1. EndOfPass(now, armed, fired, z)
    BY DEF LauncherPass
  <1>2. /\ timed \in Passes /\ SafeState(timed.gState)
        /\ timed.igniter.active <=> igniter.active /\ ~Over(now)
        /\ ~Over(now) => /\ timed.gState.state \in {gState.state, "DISARMED"}
                         /\ timed.gAck = gAck /\ timed.packets = <<>>
        /\ Over(now) => /\ timed.gState.state \in {"FIRED", "DISARMED"}
                        /\ timed.gAck = [gAck EXCEPT !.pending = FALSE]
                        /\ timed.packets # <<>>
                        /\ EndsInStatus(timed.packets, timed.gState)
                        /\ Acks(timed.packets) = IF gAck.pending
                             THEN {FireAck(gAck.token, TRUE)} ELSE {}
    BY TimedEffect DEF Over
  <1> HIDE DEF timed
  <1>3. /\ armed \in Passes /\ SafeState(armed.gState)
        /\ armed.igniter = timed.igniter /\ armed.gAck = timed.gAck
        /\ Acks(armed.packets) = Acks(timed.packets)
        /\ \/ armed.gState.state = timed.gState.state
           \/ armed.gState.state = "DISARMED"
           \/ armed.gState.state = "ARMED" /\ pendingArm = <<TRUE>>
        /\ IF pendingArm = <<>> THEN armed = timed
           ELSE armed.packets # <<>> /\ EndsInStatus(armed.packets, armed.gState)
    BY <1>2, ArmStage
  <1>4. EndsInStatus(armed.packets, armed.gState)
    BY <1>2, <1>3, NoPackets
  <1> HIDE DEF armed
  <1>5. /\ fired \in Passes /\ SafeState(fired.gState)
        /\ EndsInStatus(fired.packets, fired.gState)
    <2>1. CASE pendingFire = <<>>
      BY <1>3, <1>4, <2>1 DEF AfterFire
    <2>2. CASE pendingFire # <<>>
      BY <1>3, <1>4, <2>2, FireStage
    <2>3. QED  BY <2>1, <2>2
  <1>6. pendingFire = <<>> => fired = armed
    BY DEF AfterFire
  <1>7. pendingFire # <<>> =>
          \/ /\ armed.gState.state = "ARMED" /\ fired.gState.state = "FIRING"
             /\ fired.igniter.active /\ fired.packets = armed.packets
             /\ fired.gAck = [pending |-> TRUE, token |-> pendingFire[1]]
          \/ /\ fired.gState.state = "FAULT" /\ fired.igniter = armed.igniter
             /\ fired.packets # <<>>
             /\ Acks(fired.packets) = Acks(armed.packets)
                                        \cup {FireAck(pendingFire[1], FALSE)}
             /\ fired.gAck = [pending |-> FALSE, token |-> pendingFire[1]]
    BY <1>3, <1>4, FireStage
  <1> HIDE DEF fired
  <1>8. /\ z \in Passes /\ SafeState(z.gState)
        /\ z.gState.state = fired.gState.state
        /\ z.igniter = fired.igniter /\ z.gAck = fired.gAck
        /\ EndsInStatus(z.packets, z.gState)
        /\ Acks(z.packets) = Acks(fired.packets)
        /\ z.packets = <<>> => /\ z.gState.state = gState.state
                               /\ z.gState.keySwitchOn = gState.keySwitchOn
    BY <1>5, ReportStage
  <1> HIDE DEF z
  <1> DEFINE over == PulseOver(igniter, now)
             accepted == pendingFire # <<>> /\ fired.gState.state = "FIRING"
             rises == ~armed.igniter.active /\ fired.igniter.active
  <1>9. /\ RadioSettles(over)
        /\ gState' = z.gState /\ igniter' = z.igniter /\ gAck' = z.gAck
        /\ pendingArm' = <<>> /\ pendingFire' = <<>>
        /\ toWrist' = Post(toWrist, z.packets, DOWNLINK)
        /\ missed' = IF z.packets = <<>> THEN missed
                     ELSE Len(toWrist) + Len(z.packets) > DOWNLINK
        /\ outcome' = OutcomeAfter(over, accepted, armed.igniter)
        /\ lingering' = IF rises THEN Len(toLauncher) ELSE lingering
        /\ settled' = (lingering = 0 /\ ~rises)
        /\ raises' = IF rises /\ raises[pendingFire[1]] < 2
                     THEN [raises EXCEPT ![pendingFire[1]] = @ + 1] ELSE raises
        /\ unarmed' = (unarmed \/ (rises /\ ~armSent))
        /\ armSent' = (armSent /\ ~rises)
        /\ UNCHANGED <<wristVars, toLauncher, repeated>>
    BY <1>1 DEF EndOfPass, ConsumeArm, ConsumeFire
  <1>10. /\ over <=> Over(now)
         /\ accepted <=> Accepted
         /\ rises <=> Rises(now)
         /\ armed.igniter.active <=> igniter.active /\ ~Over(now)
    <2>1. over <=> Over(now)
      BY DEF Over
    <2>2. accepted <=> Accepted
      BY <1>8, <1>9 DEF Accepted
    <2>3. armed.igniter.active <=> igniter.active /\ ~Over(now)
      BY <1>2, <1>3
    <2>4. rises <=> Rises(now)
      BY <1>6, <1>7, <2>2, <2>3 DEF Rises
    <2>5. QED  BY <2>1, <2>2, <2>3, <2>4
  <1> HIDE DEF over, accepted, rises
  <1>11. /\ z.packets \in Seq(DownPackets)
         /\ gState' \in LauncherRuntimeState /\ SafeState(gState')
         /\ igniter' \in Igniter
    BY <1>8, <1>9 DEF Passes
  <1>12. Over(now) => igniter.active /\ settled
    BY <1>9, <1>10 DEF RadioSettles, Over, PulseOver
  <1>13. igniter'.active <=> Accepted \/ (igniter.active /\ ~Over(now))
    BY <1>6, <1>7, <1>8, <1>9, <1>10 DEF Accepted
  <1>14. gState'.state = "ARMED" \/ Accepted =>
           (gState.state = "ARMED" /\ ~Over(now)) \/ pendingArm = <<TRUE>>
    <2>1. gState'.state = "ARMED" \/ Accepted => armed.gState.state = "ARMED"
      BY <1>6, <1>7, <1>8, <1>9 DEF Accepted
    <2>2. armed.gState.state = "ARMED" =>
            timed.gState.state = "ARMED" \/ pendingArm = <<TRUE>>
      BY <1>3
    <2>3. timed.gState.state = "ARMED" => gState.state = "ARMED" /\ ~Over(now)
      BY <1>2
    <2>4. QED  BY <2>1, <2>2, <2>3
  <1>15. /\ Accepted => gAck' = [pending |-> TRUE, token |-> pendingFire[1]]
         /\ Refused => gAck' = [pending |-> FALSE, token |-> pendingFire[1]]
         /\ pendingFire = <<>> =>
              gAck' = IF Over(now) THEN [gAck EXCEPT !.pending = FALSE] ELSE gAck
    BY <1>2, <1>3, <1>6, <1>7, <1>8, <1>9 DEF Accepted, Refused
  <1>16. Acks(z.packets) =
           (IF Over(now) /\ gAck.pending THEN {FireAck(gAck.token, TRUE)} ELSE {})
           \cup (IF Refused THEN {FireAck(pendingFire[1], FALSE)} ELSE {})
    <2>1. Acks(armed.packets) =
            IF Over(now) /\ gAck.pending THEN {FireAck(gAck.token, TRUE)} ELSE {}
      BY <1>2, <1>3, NoPackets
    <2>2. Acks(fired.packets) = Acks(armed.packets)
            \cup (IF Refused THEN {FireAck(pendingFire[1], FALSE)} ELSE {})
      BY <1>6, <1>7, <1>8, <1>9 DEF Refused
    <2>3. QED  BY <1>8, <2>1, <2>2
  <1>17. EndsInStatus(z.packets, gState')
         /\ (z.packets = <<>> => /\ gState'.state = gState.state
                                 /\ gState'.keySwitchOn = gState.keySwitchOn)
    BY <1>8, <1>9
  <1>18. outcome' = [r \in Requests |->
           IF Accepted /\ pendingFire = <<r>>
           THEN IF Rises(now) THEN "raised" ELSE "joined"
           ELSE IF Over(now) /\ outcome[r] = "raised" THEN "done"
           ELSE IF Over(now) /\ outcome[r] = "joined" THEN "shared"
           ELSE outcome[r]]
    <2>1. Accepted => (Rises(now) <=> ~armed.igniter.active)
      BY <1>10 DEF Rises
    <2>2. QED  BY <1>9, <1>10, <2>1 DEF OutcomeAfter
  <1>19. QED
    <2>1. PassEffect(now, z.packets)
      BY <1>9, <1>10, <1>11, <1>12, <1>13, <1>14, <1>15, <1>16, <1>17, <1>18
         DEF PassEffect, wristVars
    <2>2. QED  BY <2>1
-----------------------------------------------------------------------------
(* The head of a queue leaves it, unless the radio will repeat it.         *)
LEMMA RestEffect ==
  ASSUME NEW S, NEW queue \in Seq(S), queue # <<>>, NEW again \in BOOLEAN,
         NEW r, r = Rest(queue, again)
  PROVE  /\ r \in Seq(S) /\ Len(r) <= Len(queue)
         /\ Len(queue) \in Nat \ {0} /\ 1 \in DOMAIN queue
         /\ Head(queue) = queue[1] /\ queue[1] \in S
         /\ again => r = queue
         /\ ~again => /\ Len(r) = Len(queue) - 1
                      /\ \A i \in DOMAIN r : i + 1 \in DOMAIN queue
                                             /\ r[i] = queue[i + 1]
  <1>1. /\ Len(queue) \in Nat \ {0} /\ 1 \in DOMAIN queue
        /\ Head(queue) = queue[1] /\ queue[1] \in S
    OBVIOUS
  <1>2. CASE again
    BY <1>1, <1>2 DEF Rest
  <1>3. CASE ~again
    <2>1. r = Tail(queue)
      BY <1>3 DEF Rest
    <2>2. /\ r \in Seq(S) /\ Len(r) = Len(queue) - 1
          /\ \A i \in 1 .. Len(r) : r[i] = queue[i + 1]
      BY <1>1, <2>1
    <2>3. QED  BY <1>1, <1>3, <2>2
  <1>4. QED  BY <1>2, <1>3

\* An ack of the pass is that of the request it answers.
LEMMA PassAcks ==
  ASSUME TypeOK, RadioInv, NEW now, NEW packets, PassEffect(now, packets),
         NEW i \in DOMAIN packets, packets[i].msgType = "FIRE_ACK"
  PROVE  \/ /\ Over(now) /\ gAck.pending
            /\ packets[i] = FireAck(gAck.token, TRUE)
         \/ /\ Refused
            /\ packets[i] = FireAck(pendingFire[1], FALSE)
  <1>1. packets[i] \in Acks(packets)
    BY DEF Acks
  <1>2. Acks(packets) =
          (IF Over(now) /\ gAck.pending THEN {FireAck(gAck.token, TRUE)} ELSE {})
          \cup (IF Refused THEN {FireAck(pendingFire[1], FALSE)} ELSE {})
    BY DEF PassEffect
  <1>3. QED  BY <1>1, <1>2

\* The packets of the queue afterwards: those it held, then those of the pass.
LEMMA PassQueue ==
  ASSUME TypeOK, RadioInv, NEW now, NEW packets, PassEffect(now, packets)
  PROVE  /\ toWrist' \in Seq(DownPackets) /\ Len(toWrist') <= DOWNLINK
         /\ \A i \in DOMAIN toWrist' :
              \/ i \in DOMAIN toWrist /\ toWrist'[i] = toWrist[i]
              \/ /\ i - Len(toWrist) \in DOMAIN packets
                 /\ toWrist'[i] = packets[i - Len(toWrist)]
         /\ packets = <<>> => toWrist' = toWrist
         /\ packets # <<>> /\ ~missed' =>
              /\ Len(packets) \in Nat \ {0}
              /\ Len(toWrist') = Len(toWrist) + Len(packets)
              /\ Len(toWrist') \in DOMAIN toWrist'
              /\ toWrist'[Len(toWrist')] = packets[Len(packets)]
  <1>1. /\ packets \in Seq(DownPackets) /\ toWrist \in Seq(DownPackets)
        /\ DOWNLINK \in Nat /\ Len(toWrist) <= DOWNLINK
        /\ toWrist' = Post(toWrist, packets, DOWNLINK)
        /\ missed' = IF packets = <<>> THEN missed
                     ELSE Len(toWrist) + Len(packets) > DOWNLINK
    BY TacComAssumption DEF PassEffect, RadioInv, TypeOK
  <1>2. /\ toWrist' \in Seq(DownPackets) /\ Len(toWrist') <= DOWNLINK
        /\ Len(toWrist') <= Len(toWrist) + Len(packets)
        /\ \A i \in 1 .. Len(toWrist') :
             toWrist'[i] = IF i <= Len(toWrist) THEN toWrist[i]
                           ELSE packets[i - Len(toWrist)]
        /\ Len(toWrist) + Len(packets) <= DOWNLINK =>
             Len(toWrist') = Len(toWrist) + Len(packets)
    BY <1>1, PostEffect
  <1>3. /\ Len(toWrist) \in Nat /\ Len(packets) \in Nat /\ Len(toWrist') \in Nat
        /\ DOMAIN toWrist = 1 .. Len(toWrist) /\ DOMAIN packets = 1 .. Len(packets)
        /\ DOMAIN toWrist' = 1 .. Len(toWrist')
    BY <1>1, <1>2
  <1>4. \A i \in DOMAIN toWrist' :
          \/ i \in DOMAIN toWrist /\ toWrist'[i] = toWrist[i]
          \/ /\ i - Len(toWrist) \in DOMAIN packets
             /\ toWrist'[i] = packets[i - Len(toWrist)]
    <2> SUFFICES ASSUME NEW i \in 1 .. Len(toWrist')
                 PROVE  \/ i \in 1 .. Len(toWrist) /\ toWrist'[i] = toWrist[i]
                        \/ /\ i - Len(toWrist) \in 1 .. Len(packets)
                           /\ toWrist'[i] = packets[i - Len(toWrist)]
      BY <1>3
    <2>1. toWrist'[i] = IF i <= Len(toWrist) THEN toWrist[i]
                        ELSE packets[i - Len(toWrist)]
      BY <1>2
    <2>2. CASE i <= Len(toWrist)
      BY <1>3, <2>1, <2>2
    <2>3. CASE ~(i <= Len(toWrist))
      <3> DEFINE a == Len(toWrist)
                 b == Len(packets)
                 c == Len(toWrist')
      <3>1. a \in Nat /\ b \in Nat /\ c \in Nat /\ c <= a + b /\ i \in 1 .. c /\ ~(i <= a)
        BY <1>2, <1>3, <2>3
      <3> HIDE DEF a, b, c
      <3>2. i - a \in 1 .. b
        BY <3>1
      <3>3. QED  BY <2>1, <2>3, <3>2 DEF a, b
    <2>4. QED  BY <2>2, <2>3
  <1>5. packets = <<>> => toWrist' = toWrist
    <2>1. SUFFICES ASSUME packets = <<>>  PROVE toWrist' = toWrist
      OBVIOUS
    <2>2. Len(packets) = 0
      BY <2>1
    <2>3. Len(toWrist') = Len(toWrist)
      BY <1>1, <1>2, <1>3, <2>2
    <2>4. \A i \in 1 .. Len(toWrist) : i <= Len(toWrist) /\ toWrist'[i] = toWrist[i]
      <3>1. \A i \in 1 .. Len(toWrist) : i <= Len(toWrist)
        BY <1>3
      <3>2. QED  BY <1>2, <2>3, <3>1
    <2>5. QED  BY <1>1, <1>2, <2>3, <2>4, SeqEqual
  <1>6. packets # <<>> /\ ~missed' =>
          /\ Len(packets) \in Nat \ {0}
          /\ Len(toWrist') = Len(toWrist) + Len(packets)
          /\ Len(toWrist') \in DOMAIN toWrist'
          /\ toWrist'[Len(toWrist')] = packets[Len(packets)]
    <2>1. SUFFICES ASSUME packets # <<>>, ~missed'
                   PROVE  /\ Len(packets) \in Nat \ {0}
                          /\ Len(toWrist') = Len(toWrist) + Len(packets)
                          /\ Len(toWrist') \in DOMAIN toWrist'
                          /\ toWrist'[Len(toWrist')] = packets[Len(packets)]
      OBVIOUS
    <2>2. Len(packets) \in Nat \ {0}
      BY <1>1, <2>1
    <2>3. Len(toWrist') = Len(toWrist) + Len(packets)
      <3>1. ~(Len(toWrist) + Len(packets) > DOWNLINK)
        BY <1>1, <2>1, Zenon
      <3>2. Len(toWrist) + Len(packets) <= DOWNLINK
        BY <1>1, <1>3, <3>1
      <3>3. QED  BY <1>2, <3>2
    <2>4. Len(toWrist') \in 1 .. Len(toWrist') /\ ~(Len(toWrist') <= Len(toWrist))
          /\ Len(toWrist') - Len(toWrist) = Len(packets)
      BY <1>3, <2>2, <2>3
    <2>5. QED  BY <1>2, <1>3, <2>2, <2>3, <2>4
  <1>7. QED  BY <1>2, <1>4, <1>5, <1>6

\* A pass of the wrist sends what was typed, and then at most the next FIRE_CMD.
LEMMA WristSends ==
  ASSUME TypeOK, RadioInv, NEW late, NEW typed \in Typed, NEW continuityOk,
         WristPass(late, typed, continuityOk)
  PROVE  \E at \in Nat :
           /\ requests' \in {requests, requests + 1}
           /\ requests' # requests => confirmed
           /\ toLauncher' \in Seq(UpPackets) /\ Len(toLauncher') <= UPLINK
           /\ Len(toLauncher) <= Len(toLauncher')
           /\ \A i \in DOMAIN toLauncher' :
                \/ i \in DOMAIN toLauncher /\ toLauncher'[i] = toLauncher[i]
                \/ /\ i > Len(toLauncher)
                   /\ \/ toLauncher'[i] = ArmSet(FALSE)
                      \/ toLauncher'[i] = ArmSet(TRUE) /\ armSent'
                      \/ /\ toLauncher'[i] = FireCmd(requests') /\ i = at
                         /\ requests' = requests + 1
  <1> DEFINE link == IF late THEN WristBoot.gLink ELSE gLink
             currentlyArmed == link.online /\ link.armed
             ready == confirmed /\ currentlyArmed = gWasArmed
             sends == ready /\ currentlyArmed /\ continuityOk
             fire == IF sends THEN <<FireCmd(requests')>> ELSE <<>>
             packets == typed \o fire
             m == Len(toLauncher)
             n == Len(typed)
  <1>1. /\ requests' = IF sends THEN requests + 1 ELSE requests
        /\ toLauncher' = Post(toLauncher, packets, UPLINK)
        /\ armSent' = (armSent \/ typed = <<ArmSet(TRUE)>>)
        /\ sends => confirmed
    BY DEF WristPass
  <1>2. requests \in 0 .. MAX_REQUESTS /\ MAX_REQUESTS \in Nat /\ UPLINK \in Nat
        /\ toLauncher \in Seq(UpPackets) /\ m \in Nat /\ m <= UPLINK
        /\ (confirmed => requests < MAX_REQUESTS)
        /\ DOMAIN toLauncher = 1 .. m
    BY TacComAssumption DEF TypeOK, RadioInv
  <1> HIDE DEF sends
  <1>3. /\ requests' \in {requests, requests + 1}
        /\ sends <=> requests' = requests + 1
        /\ sends => requests' \in Requests
    BY <1>1, <1>2 DEF Requests
  <1>4. /\ typed \in Seq(UpPackets) /\ n \in Nat
        /\ \A k \in 1 .. n : \/ typed[k] = ArmSet(FALSE)
                             \/ typed[k] = ArmSet(TRUE) /\ armSent'
    <2>1. CASE typed = <<>>
      <3>1. n = 0
        BY <2>1
      <3>2. typed \in Seq(UpPackets)
        BY <2>1, EmptySeq, Zenon
      <3>3. QED  BY <3>1, <3>2
    <2>2. ASSUME NEW arm \in BOOLEAN, typed = <<ArmSet(arm)>>, arm => armSent'
          PROVE  /\ typed \in Seq(UpPackets) /\ n \in Nat
                 /\ \A k \in 1 .. n : \/ typed[k] = ArmSet(FALSE)
                                      \/ typed[k] = ArmSet(TRUE) /\ armSent'
      <3> DEFINE x == ArmSet(arm)
      <3>1. x \in UpPackets
        BY PacketType
      <3>2. typed = <<x>>
        BY <2>2
      <3> HIDE DEF x
      <3>3. typed \in Seq(UpPackets) /\ n = 1 /\ typed[1] = x
        BY <3>1, <3>2
      <3>4. x = ArmSet(FALSE) \/ (x = ArmSet(TRUE) /\ armSent')
        <4>1. CASE arm = TRUE
          BY <2>2, <4>1 DEF x
        <4>2. CASE arm = FALSE
          BY <4>2 DEF x
        <4>3. QED  BY <4>1, <4>2
      <3>5. n \in Nat /\ \A k \in 1 .. n : typed[k] = x
        BY <3>3
      <3>6. QED  BY <3>3, <3>4, <3>5, Zenon
    <2>3. CASE typed = <<ArmSet(TRUE)>>
      <3>1. armSent'
        BY <1>1, <2>3
      <3>2. TRUE \in BOOLEAN
        OBVIOUS
      <3>3. QED  BY <2>2, <2>3, <3>1, <3>2
    <2>4. CASE typed = <<ArmSet(FALSE)>>
      <3>1. FALSE \in BOOLEAN
        OBVIOUS
      <3>2. QED  BY <2>2, <2>4, <3>1
    <2>5. QED  BY <2>1, <2>3, <2>4 DEF Typed
  <1>5. /\ fire \in Seq(UpPackets)
        /\ \A k \in 1 .. Len(fire) : k = 1 /\ sends /\ fire[k] = FireCmd(requests')
    <2>1. CASE sends
      <3> DEFINE x == FireCmd(requests')
      <3>1. x \in UpPackets
        BY <1>3, <2>1, PacketType
      <3>2. fire = <<x>>
        BY <2>1
      <3> HIDE DEF x, fire
      <3>3. fire \in Seq(UpPackets) /\ Len(fire) = 1 /\ fire[1] = x
        BY <3>1, <3>2
      <3>4. QED  BY <2>1, <3>3 DEF x
    <2>2. CASE ~sends
      <3>1. fire = <<>>
        BY <2>2
      <3> HIDE DEF fire
      <3>2. fire \in Seq(UpPackets)
        BY <3>1, EmptySeq, Zenon
      <3>3. Len(fire) = 0
        BY <3>1
      <3>4. QED  BY <3>2, <3>3
    <2>3. QED  BY <2>1, <2>2
  <1> HIDE DEF fire, n
  <1>6. /\ packets \in Seq(UpPackets) /\ Len(packets) = n + Len(fire)
        /\ Len(fire) \in Nat
        /\ \A k \in 1 .. Len(packets) :
             packets[k] = IF k <= n THEN typed[k] ELSE fire[k - n]
    BY <1>4, <1>5 DEF n
  <1> HIDE DEF packets, m
  <1>7. \A k \in 1 .. Len(packets) :
          \/ packets[k] = ArmSet(FALSE)
          \/ packets[k] = ArmSet(TRUE) /\ armSent'
          \/ packets[k] = FireCmd(requests') /\ k = n + 1 /\ sends
    <2> SUFFICES ASSUME NEW k \in 1 .. Len(packets)
                 PROVE  \/ packets[k] = ArmSet(FALSE)
                        \/ packets[k] = ArmSet(TRUE) /\ armSent'
                        \/ packets[k] = FireCmd(requests') /\ k = n + 1 /\ sends
      OBVIOUS
    <2>1. CASE k <= n
      <3>1. k \in 1 .. n
        BY <1>4, <1>6, <2>1
      <3>2. packets[k] = typed[k]
        BY <1>6, <2>1
      <3>3. QED  BY <1>4, <3>1, <3>2
    <2>2. CASE ~(k <= n)
      <3>1. k - n \in 1 .. Len(fire)
        BY <1>4, <1>6, <2>2
      <3>2. k - n = 1 /\ sends /\ fire[k - n] = FireCmd(requests')
        BY <1>5, <3>1
      <3>3. packets[k] = fire[k - n]
        BY <1>6, <2>2
      <3>4. k = n + 1
        BY <1>4, <3>2
      <3>5. QED  BY <3>2, <3>3, <3>4
    <2>3. QED  BY <2>1, <2>2
  <1>8. /\ toLauncher' \in Seq(UpPackets) /\ Len(toLauncher') <= UPLINK
        /\ m <= Len(toLauncher') /\ Len(toLauncher') <= m + Len(packets)
        /\ \A i \in 1 .. Len(toLauncher') :
             toLauncher'[i] = IF i <= m THEN toLauncher[i] ELSE packets[i - m]
    BY <1>1, <1>2, <1>6, PostEffect DEF m
  <1>9. Len(toLauncher') \in Nat /\ DOMAIN toLauncher' = 1 .. Len(toLauncher')
        /\ Len(packets) \in Nat
    BY <1>6, <1>8
  <1>10. ASSUME NEW i \in 1 .. Len(toLauncher')
         PROVE  \/ i \in DOMAIN toLauncher /\ toLauncher'[i] = toLauncher[i]
                \/ /\ i > m
                   /\ \/ toLauncher'[i] = ArmSet(FALSE)
                      \/ toLauncher'[i] = ArmSet(TRUE) /\ armSent'
                      \/ /\ toLauncher'[i] = FireCmd(requests') /\ i = m + n + 1
                         /\ requests' = requests + 1
    <2>1. CASE i <= m
      <3>1. i \in DOMAIN toLauncher
        BY <1>2, <1>9, <2>1
      <3>2. toLauncher'[i] = toLauncher[i]
        BY <1>8, <2>1
      <3>3. QED  BY <3>1, <3>2
    <2>2. CASE ~(i <= m)
      <3>1. i - m \in 1 .. Len(packets) /\ i > m
        BY <1>2, <1>8, <1>9, <2>2
      <3>2. toLauncher'[i] = packets[i - m]
        BY <1>8, <2>2
      <3>3. \/ packets[i - m] = ArmSet(FALSE)
            \/ packets[i - m] = ArmSet(TRUE) /\ armSent'
            \/ packets[i - m] = FireCmd(requests') /\ i - m = n + 1 /\ sends
        BY <1>7, <3>1
      <3>4. i - m = n + 1 => i = m + n + 1
        BY <1>2, <1>4
      <3>5. QED  BY <1>3, <3>1, <3>2, <3>3, <3>4
    <2>3. QED  BY <2>1, <2>2
  <1>11. m + n + 1 \in Nat
    BY <1>2, <1>4
  <1>12. requests' # requests => confirmed
    BY <1>1
  <1>13. QED
    BY <1>3, <1>8, <1>9, <1>10, <1>11, <1>12 DEF m
-----------------------------------------------------------------------------
\* What the mailbox of a FIRE_CMD holds, as far as the proofs look into it.
LEMMA FireMailbox ==
  ASSUME TypeOK, RadioInv
  PROVE  /\ pendingFire = <<>> \/ (/\ pendingFire[1] \in Requests
                                   /\ pendingFire[1] \in Sent
                                   /\ pendingFire = <<pendingFire[1]>>)
         /\ \A r : pendingFire = <<r>> => pendingFire # <<>> /\ pendingFire[1] = r
         /\ Sent \subseteq Requests /\ requests \in 0 .. MAX_REQUESTS
         /\ 0 \notin Requests /\ Requests \subseteq 0 .. MAX_REQUESTS
         /\ MAX_REQUESTS \in Nat
  <1>1. pendingFire = <<>> \/ \E r \in Requests : pendingFire = <<r>>
    BY DEF TypeOK
  <1>2. pendingFire # <<>> => pendingFire[1] \in Sent
    BY DEF RadioInv
  <1>3. pendingFire = <<>> \/ (/\ pendingFire[1] \in Requests
                               /\ pendingFire = <<pendingFire[1]>>)
    BY <1>1
  <1>4. \A r : pendingFire = <<r>> => pendingFire # <<>> /\ pendingFire[1] = r
    OBVIOUS
  <1>5. requests \in 0 .. MAX_REQUESTS /\ MAX_REQUESTS \in Nat
    BY TacComAssumption DEF TypeOK
  <1>6. Sent \subseteq Requests /\ 0 \notin Requests
        /\ Requests \subseteq 0 .. MAX_REQUESTS
    BY <1>5 DEF Sent, Requests
  <1>7. QED  BY <1>2, <1>3, <1>4, <1>5, <1>6

(* A pass of the launcher names no request that was not sent.              *)
LEMMA TypePass ==
  ASSUME TypeOK, RadioInv, NEW now, NEW packets, PassEffect(now, packets)
  PROVE  TypeOK' /\ RadioInv'
  <1>1. /\ gAck \in [pending : BOOLEAN, token : 0 .. MAX_REQUESTS]
        /\ gAck.pending => gAck.token \in Sent
    BY DEF TypeOK, RadioInv
  <1>2. /\ gAck' \in [pending : BOOLEAN, token : 0 .. MAX_REQUESTS]
        /\ gAck'.pending => gAck'.token \in Sent
    <2>1. CASE pendingFire = <<>>
      <3>1. gAck' = IF Over(now) THEN [gAck EXCEPT !.pending = FALSE] ELSE gAck
        BY <2>1 DEF PassEffect
      <3>2. QED  BY <1>1, <3>1
    <2>2. CASE pendingFire # <<>>
      <3>1. /\ pendingFire[1] \in Sent /\ pendingFire[1] \in 0 .. MAX_REQUESTS
        BY <2>2, FireMailbox
      <3>2. \/ gAck' = [pending |-> TRUE, token |-> pendingFire[1]]
            \/ gAck' = [pending |-> FALSE, token |-> pendingFire[1]]
        BY <2>2 DEF PassEffect, Accepted, Refused
      <3> DEFINE t == pendingFire[1]
      <3> HIDE DEF t
      <3>3. CASE gAck' = [pending |-> TRUE, token |-> t]
        BY <3>1, <3>3 DEF t
      <3>4. CASE gAck' = [pending |-> FALSE, token |-> t]
        BY <3>1, <3>4 DEF t
      <3>5. QED  BY <3>2, <3>3, <3>4 DEF t
    <2>3. QED  BY <2>1, <2>2
  <1>3. /\ lingering' \in Nat /\ lingering' <= Len(toLauncher')
        /\ toLauncher' = toLauncher
    BY DEF PassEffect, TypeOK, RadioInv
  <1>4. /\ raises' \in [Requests -> 0 .. 2]
        /\ \A r \in Requests \ Sent : raises'[r] = 0
    <2>1. raises \in [Requests -> 0 .. 2]
          /\ \A r \in Requests \ Sent : raises[r] = 0
      BY DEF TypeOK, RadioInv
    <2>2. CASE Rises(now) /\ raises[pendingFire[1]] < 2
      <3>1. pendingFire[1] \in Requests /\ pendingFire[1] \in Sent
        BY <2>2, FireMailbox DEF Rises, Accepted
      <3>2. raises' = [raises EXCEPT ![pendingFire[1]] = @ + 1]
        BY <2>2 DEF PassEffect
      <3>3. QED  BY <2>1, <2>2, <3>1, <3>2
    <2>3. CASE ~(Rises(now) /\ raises[pendingFire[1]] < 2)
      <3>1. raises' = raises
        BY <2>3 DEF PassEffect
      <3>2. QED  BY <2>1, <3>1
    <2>4. QED  BY <2>2, <2>3
  <1>5. /\ outcome' \in [Requests -> Outcomes]
        /\ \A r \in Requests \ Sent : outcome'[r] = "none"
    <2>1. /\ outcome \in [Requests -> Outcomes]
          /\ \A r \in Requests \ Sent : outcome[r] = "none" /\ pendingFire # <<r>>
      BY FireMailbox DEF TypeOK, RadioInv
    <2>2. outcome' = [r \in Requests |->
            IF Accepted /\ pendingFire = <<r>>
            THEN IF Rises(now) THEN "raised" ELSE "joined"
            ELSE IF Over(now) /\ outcome[r] = "raised" THEN "done"
            ELSE IF Over(now) /\ outcome[r] = "joined" THEN "shared"
            ELSE outcome[r]]
      BY DEF PassEffect
    <2>3. QED  BY <2>1, <2>2 DEF Outcomes
  <1>6. \A i \in DOMAIN toWrist' :
          toWrist'[i].msgType = "FIRE_ACK" => toWrist'[i].token \in Sent
    <2> SUFFICES ASSUME NEW i \in DOMAIN toWrist', toWrist'[i].msgType = "FIRE_ACK"
                 PROVE  toWrist'[i].token \in Sent
      OBVIOUS
    <2>1. CASE i \in DOMAIN toWrist /\ toWrist'[i] = toWrist[i]
      BY <2>1 DEF RadioInv
    <2>2. CASE /\ i - Len(toWrist) \in DOMAIN packets
               /\ toWrist'[i] = packets[i - Len(toWrist)]
      <3>1. \/ /\ gAck.pending
               /\ toWrist'[i] = FireAck(gAck.token, TRUE)
            \/ /\ Refused
               /\ toWrist'[i] = FireAck(pendingFire[1], FALSE)
        BY <2>2, PassAcks
      <3>2. Refused => pendingFire[1] \in Sent
        BY FireMailbox DEF Refused
      <3>3. QED  BY <1>1, <3>1, <3>2 DEF FireAck
    <2>3. QED  BY <2>1, <2>2, PassQueue
  <1>7. /\ gState' \in LauncherRuntimeState /\ SafeState(gState') /\ igniter' \in Igniter
        /\ pendingArm' = <<>> /\ pendingFire' = <<>>
        /\ UNCHANGED <<gLink, lastAck, confirmed, gWasArmed, requests, toLauncher,
                       repeated>>
    BY DEF PassEffect
  <1>8. toWrist' \in Seq(DownPackets) /\ Len(toWrist') <= DOWNLINK
    BY PassQueue
  <1>9. TypeOK'
    BY <1>2, <1>3, <1>4, <1>5, <1>7, <1>8 DEF TypeOK
  <1>10. RadioInv'
    BY <1>2, <1>3, <1>4, <1>5, <1>6, <1>7, <1>8 DEF RadioInv, Sent
  <1>11. QED  BY <1>9, <1>10

(* A pass of the wrist sends at most one request, and counts it.           *)
LEMMA TypeWristPass ==
  ASSUME TypeOK, RadioInv, NEW late \in {FALSE, gLink.online}, NEW typed \in Typed,
         NEW continuityOk, WristPass(late, typed, continuityOk)
  PROVE  TypeOK' /\ RadioInv' /\ Sent \subseteq Sent'
  <1>1. PICK at \in Nat :
          /\ requests' \in {requests, requests + 1}
          /\ requests' # requests => confirmed
          /\ toLauncher' \in Seq(UpPackets) /\ Len(toLauncher') <= UPLINK
          /\ Len(toLauncher) <= Len(toLauncher')
          /\ \A i \in DOMAIN toLauncher' :
               \/ i \in DOMAIN toLauncher /\ toLauncher'[i] = toLauncher[i]
               \/ /\ i > Len(toLauncher)
                  /\ \/ toLauncher'[i] = ArmSet(FALSE)
                     \/ toLauncher'[i] = ArmSet(TRUE) /\ armSent'
                     \/ /\ toLauncher'[i] = FireCmd(requests') /\ i = at
                        /\ requests' = requests + 1
    BY WristSends
  <1>2. /\ requests \in 0 .. MAX_REQUESTS /\ MAX_REQUESTS \in Nat
        /\ confirmed => requests < MAX_REQUESTS
    BY TacComAssumption DEF TypeOK, RadioInv
  <1>3. /\ requests' \in 0 .. MAX_REQUESTS /\ Sent \subseteq Sent'
        /\ requests' = requests + 1 => requests' \in Sent'
    BY <1>1, <1>2 DEF Sent
  <1>4. \A i \in DOMAIN toLauncher' :
          toLauncher'[i].msgType = "FIRE_CMD" => toLauncher'[i].token \in Sent'
    <2> SUFFICES ASSUME NEW i \in DOMAIN toLauncher',
                        toLauncher'[i].msgType = "FIRE_CMD"
                 PROVE  toLauncher'[i].token \in Sent'
      OBVIOUS
    <2>1. CASE i \in DOMAIN toLauncher /\ toLauncher'[i] = toLauncher[i]
      BY <1>3, <2>1 DEF RadioInv
    <2>2. CASE toLauncher'[i] = FireCmd(requests') /\ requests' = requests + 1
      BY <1>3, <2>2 DEF FireCmd
    <2>3. CASE toLauncher'[i] \in {ArmSet(TRUE), ArmSet(FALSE)}
      BY <2>3 DEF ArmSet
    <2>4. QED  BY <1>1, <2>1, <2>2, <2>3
  <1>5. gLink' \in [online : BOOLEAN, armed : BOOLEAN] /\ gWasArmed' \in BOOLEAN
        /\ confirmed' = FALSE
    BY DEF WristPass, TypeOK, WristBoot
  <1>6. UNCHANGED <<launcherVars, lastAck, toWrist, outcome, raises, unarmed,
                    repeated, missed, lingering, settled>>
    BY DEF WristPass
  <1>7. lingering' \in Nat /\ lingering' <= Len(toLauncher')
    <2>1. lingering \in Nat /\ lingering <= Len(toLauncher) /\ Len(toLauncher) \in Nat
      BY DEF TypeOK, RadioInv
    <2>2. Len(toLauncher') \in Nat
      BY <1>1
    <2>3. QED  BY <1>1, <1>6, <2>1, <2>2
  <1>8. TypeOK'
    BY <1>1, <1>3, <1>5, <1>6, <1>7 DEF TypeOK, launcherVars
  <1>9. RadioInv'
    BY <1>1, <1>3, <1>4, <1>5, <1>6, <1>7 DEF RadioInv, launcherVars
  <1>10. QED  BY <1>3, <1>8, <1>9

\* What is left of the queue to the launcher, lost and delivered packets alike.
LEMMA UplinkRest ==
  ASSUME TypeOK, RadioInv, NEW again \in BOOLEAN, toLauncher # <<>>,
         toLauncher' = Rest(toLauncher, again),
         lingering' = IF again \/ lingering = 0 THEN lingering ELSE lingering - 1
  PROVE  /\ toLauncher' \in Seq(UpPackets) /\ Len(toLauncher') <= UPLINK
         /\ lingering' \in Nat /\ lingering' <= Len(toLauncher')
         /\ 1 \in DOMAIN toLauncher /\ Head(toLauncher) = toLauncher[1]
         /\ toLauncher[1] \in UpPackets
         /\ again => toLauncher' = toLauncher
         /\ \A i \in DOMAIN toLauncher' : \E j \in DOMAIN toLauncher :
              /\ toLauncher'[i] = toLauncher[j]
              /\ ~again => j = i + 1
              /\ i > lingering' => j > lingering
         /\ lingering = 0 => lingering' = 0
  <1>1. /\ toLauncher \in Seq(UpPackets) /\ Len(toLauncher) <= UPLINK
        /\ lingering \in Nat /\ lingering <= Len(toLauncher) /\ UPLINK \in Nat
    BY TacComAssumption DEF TypeOK, RadioInv
  <1>2. /\ toLauncher' \in Seq(UpPackets) /\ Len(toLauncher') <= Len(toLauncher)
        /\ Len(toLauncher) \in Nat \ {0} /\ 1 \in DOMAIN toLauncher
        /\ Head(toLauncher) = toLauncher[1] /\ toLauncher[1] \in UpPackets
        /\ again => toLauncher' = toLauncher
        /\ ~again => /\ Len(toLauncher') = Len(toLauncher) - 1
                     /\ \A i \in DOMAIN toLauncher' : i + 1 \in DOMAIN toLauncher
                           /\ toLauncher'[i] = toLauncher[i + 1]
    BY <1>1, RestEffect
  <1>3. DOMAIN toLauncher' = 1 .. Len(toLauncher') /\ Len(toLauncher') \in Nat
    BY <1>2
  <1>4. CASE again
    <2>1. toLauncher' = toLauncher /\ lingering' = lingering
      BY <1>2, <1>4
    <2>2. QED  BY <1>1, <1>2, <1>4, <2>1
  <1>5. CASE ~again
    <2>1. lingering' = IF lingering = 0 THEN lingering ELSE lingering - 1
      BY <1>5
    <2>2. /\ lingering' \in Nat /\ lingering' <= Len(toLauncher')
          /\ Len(toLauncher') <= UPLINK /\ (lingering = 0 => lingering' = 0)
          /\ \A i \in DOMAIN toLauncher' : i > lingering' => i + 1 > lingering
      BY <1>1, <1>2, <1>3, <1>5, <2>1
    <2>3. QED  BY <1>2, <1>5, <2>2
  <1>6. QED  BY <1>4, <1>5

(* What remains of the downlink after its first packet arrived, was lost   *)
(* or was repeated: the same packets one place earlier, or all of them.    *)
LEMMA DownlinkRest ==
  ASSUME TypeOK, RadioInv, NEW again \in BOOLEAN, toWrist # <<>>,
         toWrist' = Rest(toWrist, again)
  PROVE  /\ toWrist' \in Seq(DownPackets) /\ Len(toWrist') <= DOWNLINK
         /\ 1 \in DOMAIN toWrist /\ Head(toWrist) = toWrist[1]
         /\ toWrist[1] \in DownPackets
         /\ again => toWrist' = toWrist
         /\ ~again => /\ Len(toWrist') = Len(toWrist) - 1
                      /\ \A i \in DOMAIN toWrist' : i + 1 \in DOMAIN toWrist
                            /\ toWrist'[i] = toWrist[i + 1]
  <1>1. /\ toWrist \in Seq(DownPackets) /\ Len(toWrist) <= DOWNLINK /\ DOWNLINK \in Nat
    BY TacComAssumption DEF TypeOK, RadioInv
  <1>2. /\ toWrist' \in Seq(DownPackets) /\ Len(toWrist') <= Len(toWrist)
        /\ Len(toWrist) \in Nat \ {0} /\ 1 \in DOMAIN toWrist
        /\ Head(toWrist) = toWrist[1] /\ toWrist[1] \in DownPackets
        /\ again => toWrist' = toWrist
        /\ ~again => /\ Len(toWrist') = Len(toWrist) - 1
                     /\ \A i \in DOMAIN toWrist' : i + 1 \in DOMAIN toWrist
                           /\ toWrist'[i] = toWrist[i + 1]
    BY <1>1, RestEffect
  <1>3. Len(toWrist') \in Nat
    BY <1>2
  <1>4. Len(toWrist') <= DOWNLINK
    BY <1>1, <1>2, <1>3
  <1>5. QED  BY <1>2, <1>4

\* A packet to the launcher is a command, and one of either kind only.
LEMMA UpPacketKinds ==
  ASSUME NEW p \in UpPackets
  PROVE  \/ \E arm \in BOOLEAN : p = ArmSet(arm)
         \/ \E r \in Requests : p = FireCmd(r)
  BY DEF UpPackets, ArmSet, FireCmd

(* A packet that arrives fills its mailbox with what it carried.           *)
LEMMA TypeToLauncher ==
  ASSUME TypeOK, RadioInv, NEW again \in BOOLEAN, ToLauncher(again)
  PROVE  TypeOK' /\ RadioInv'
  <1> DEFINE p == toLauncher[1]
  <1>1. /\ toLauncher # <<>> /\ toLauncher' = Rest(toLauncher, again)
        /\ lingering' = IF again \/ lingering = 0 THEN lingering ELSE lingering - 1
    BY DEF ToLauncher
  <1>2. /\ toLauncher' \in Seq(UpPackets) /\ Len(toLauncher') <= UPLINK
        /\ lingering' \in Nat /\ lingering' <= Len(toLauncher')
        /\ 1 \in DOMAIN toLauncher /\ Head(toLauncher) = p /\ p \in UpPackets
        /\ \A i \in DOMAIN toLauncher' : \E j \in DOMAIN toLauncher :
              toLauncher'[i] = toLauncher[j]
    BY <1>1, UplinkRest
  <1>3. \A i \in DOMAIN toLauncher' :
          toLauncher'[i].msgType = "FIRE_CMD" => toLauncher'[i].token \in Sent
    BY <1>2 DEF RadioInv
  <1>4. p.msgType = "FIRE_CMD" => p.token \in Sent
    BY <1>2 DEF RadioInv
  <1>5. /\ pendingArm' = IF p.msgType = "ARM_SET" THEN <<p.arm>> ELSE pendingArm
        /\ pendingFire' = IF p.msgType = "FIRE_CMD" THEN <<p.token>> ELSE pendingFire
        /\ repeated' = IF again /\ p.msgType = "FIRE_CMD"
                       THEN repeated \cup {p.token} ELSE repeated
    BY <1>2 DEF ToLauncher
  <1>6. UNCHANGED <<gState, igniter, gAck, wristVars, toWrist, outcome, raises,
                    unarmed, armSent, missed, settled>>
    BY DEF ToLauncher
  <1>7. p.msgType = "ARM_SET" => p.arm \in BOOLEAN
    BY <1>2 DEF UpPackets
  <1> HIDE DEF p
  <1>8. pendingArm' \in {<<>>, <<TRUE>>, <<FALSE>>}
    BY <1>5, <1>7 DEF TypeOK
  <1>9. /\ pendingFire' \in {<<>>} \cup {<<r>> : r \in Requests}
        /\ pendingFire' # <<>> => pendingFire'[1] \in Sent
    BY <1>4, <1>5, FireMailbox DEF TypeOK
  <1>10. repeated' \subseteq Sent
    BY <1>4, <1>5 DEF RadioInv
  <1>11. TypeOK'
    BY <1>2, <1>6, <1>8, <1>9, <1>10, FireMailbox DEF TypeOK, wristVars
  <1>12. RadioInv'
    BY <1>2, <1>3, <1>6, <1>9, <1>10 DEF RadioInv, Sent, wristVars
  <1>13. QED  BY <1>11, <1>12

(* A lost packet only leaves the queue.                                    *)
LEMMA TypeLoseToLauncher ==
  ASSUME TypeOK, RadioInv, LoseToLauncher
  PROVE  TypeOK' /\ RadioInv'
  <1>1. /\ toLauncher # <<>> /\ toLauncher' = Rest(toLauncher, FALSE)
        /\ lingering' = IF FALSE \/ lingering = 0 THEN lingering ELSE lingering - 1
        /\ FALSE \in BOOLEAN
    BY DEF LoseToLauncher, Rest
  <1>2. /\ toLauncher' \in Seq(UpPackets) /\ Len(toLauncher') <= UPLINK
        /\ lingering' \in Nat /\ lingering' <= Len(toLauncher')
        /\ \A i \in DOMAIN toLauncher' : \E j \in DOMAIN toLauncher :
              toLauncher'[i] = toLauncher[j]
    BY <1>1, UplinkRest
  <1>3. \A i \in DOMAIN toLauncher' :
          toLauncher'[i].msgType = "FIRE_CMD" => toLauncher'[i].token \in Sent
    BY <1>2 DEF RadioInv
  <1>4. UNCHANGED <<launcherVars, wristVars, toWrist, outcome, raises, unarmed, repeated,
                    armSent, missed, settled>>
    BY DEF LoseToLauncher
  <1>5. TypeOK'
    BY <1>2, <1>4 DEF TypeOK, launcherVars, wristVars
  <1>6. RadioInv'
    BY <1>2, <1>3, <1>4 DEF RadioInv, Sent, launcherVars, wristVars
  <1>7. QED  BY <1>5, <1>6

(* A packet that arrives at the wrist changes its link or its last ack.    *)
LEMMA TypeToWrist ==
  ASSUME TypeOK, RadioInv, NEW again \in BOOLEAN, ToWrist(again)
  PROVE  TypeOK' /\ RadioInv'
  <1> DEFINE p == toWrist[1]
  <1>1. toWrist # <<>> /\ toWrist' = Rest(toWrist, again)
    BY DEF ToWrist
  <1>2. /\ toWrist' \in Seq(DownPackets) /\ Len(toWrist') <= DOWNLINK
        /\ 1 \in DOMAIN toWrist /\ Head(toWrist) = p /\ p \in DownPackets
        /\ again => toWrist' = toWrist
        /\ ~again => \A i \in DOMAIN toWrist' : i + 1 \in DOMAIN toWrist
                           /\ toWrist'[i] = toWrist[i + 1]
    BY <1>1, DownlinkRest
  <1>3. \A i \in DOMAIN toWrist' :
          toWrist'[i].msgType = "FIRE_ACK" => toWrist'[i].token \in Sent
    BY <1>2 DEF RadioInv
  <1>4. p.msgType = "FIRE_ACK" => p.token \in Sent
    BY <1>2 DEF RadioInv
  <1>5. /\ gLink' = IF p.msgType = "STATUS"
                    THEN [online |-> TRUE, armed |-> p.armed] ELSE gLink
        /\ lastAck' = IF p.msgType = "FIRE_ACK"
                      THEN [token |-> p.token, accepted |-> p.accepted] ELSE lastAck
    BY <1>2 DEF ToWrist
  <1>6. UNCHANGED <<launcherVars, confirmed, gWasArmed, requests, toLauncher, ghostVars>>
    BY DEF ToWrist
  <1>7. /\ p.msgType = "STATUS" => p.armed \in BOOLEAN
        /\ p.msgType = "FIRE_ACK" => p.token \in Requests /\ p.accepted \in BOOLEAN
    BY <1>2 DEF DownPackets
  <1> HIDE DEF p
  <1>8. gLink' \in [online : BOOLEAN, armed : BOOLEAN]
    BY <1>5, <1>7 DEF TypeOK
  <1>9. /\ lastAck' \in [token : 0 .. MAX_REQUESTS, accepted : BOOLEAN]
        /\ lastAck'.token # 0 => lastAck'.token \in Sent
    <2>1. CASE p.msgType = "FIRE_ACK"
      <3>1. lastAck' = [token |-> p.token, accepted |-> p.accepted]
        BY <1>5, <2>1
      <3>2. p.token \in 0 .. MAX_REQUESTS /\ p.accepted \in BOOLEAN
        BY <1>7, <2>1, FireMailbox
      <3>3. lastAck' \in [token : 0 .. MAX_REQUESTS, accepted : BOOLEAN]
        BY <3>1, <3>2
      <3>4. lastAck'.token = p.token
        BY <3>1
      <3>5. QED  BY <1>4, <2>1, <3>3, <3>4
    <2>2. CASE p.msgType # "FIRE_ACK"
      <3>1. lastAck' = lastAck
        BY <1>5, <2>2
      <3>2. QED  BY <3>1 DEF TypeOK, RadioInv
    <2>3. QED  BY <2>1, <2>2
  <1>10. TypeOK'
    BY <1>2, <1>6, <1>8, <1>9 DEF TypeOK, launcherVars, ghostVars
  <1>11. RadioInv'
    BY <1>2, <1>3, <1>6, <1>9 DEF RadioInv, Sent, launcherVars, ghostVars
  <1>12. QED  BY <1>10, <1>11

(* A lost packet only leaves the queue, on the way down as well.           *)
LEMMA TypeLoseToWrist ==
  ASSUME TypeOK, RadioInv, LoseToWrist
  PROVE  TypeOK' /\ RadioInv'
  <1>1. toWrist # <<>> /\ toWrist' = Rest(toWrist, FALSE) /\ FALSE \in BOOLEAN
    BY DEF LoseToWrist, Rest
  <1>2. /\ toWrist' \in Seq(DownPackets) /\ Len(toWrist') <= DOWNLINK
        /\ \A i \in DOMAIN toWrist' : i + 1 \in DOMAIN toWrist
              /\ toWrist'[i] = toWrist[i + 1]
    BY <1>1, DownlinkRest
  <1>3. \A i \in DOMAIN toWrist' :
          toWrist'[i].msgType = "FIRE_ACK" => toWrist'[i].token \in Sent
    BY <1>2 DEF RadioInv
  <1>4. UNCHANGED <<launcherVars, wristVars, toLauncher, outcome, raises, unarmed,
                    repeated, armSent, lingering, settled>>
    BY DEF LoseToWrist
  <1>5. TypeOK'
    BY <1>2, <1>4 DEF TypeOK, launcherVars, wristVars
  <1>6. RadioInv'
    BY <1>2, <1>3, <1>4 DEF RadioInv, Sent, launcherVars, wristVars
  <1>7. QED  BY <1>5, <1>6

\* Each step of the specification, with the launcher's pass as its effect.
LEMMA Steps ==
  ASSUME TypeOK, RadioInv, [Next]_vars
  PROVE  \/ \E now, packets : PassEffect(now, packets)
         \/ \E late \in {FALSE, gLink.online}, typed \in Typed : \E continuityOk :
               WristPass(late, typed, continuityOk)
         \/ \E again \in BOOLEAN : ToLauncher(again)
         \/ LoseToLauncher
         \/ \E again \in BOOLEAN : ToWrist(again)
         \/ LoseToWrist
         \/ LauncherReboot \/ WristReboot \/ Confirm \/ UNCHANGED vars
  <1>1. ASSUME NEW level \in BOOLEAN, NEW periodic \in BOOLEAN, NEW now \in Nows,
               NEW stamp \in Stamps, NEW reading \in ReadingsAt(level),
               LauncherPass(level, now, stamp, reading, periodic)
        PROVE  \E packets : PassEffect(now, packets)
    <2>1. now \in Millis /\ stamp \in Millis
      BY InitialType DEF Nows, Stamps
    <2>2. reading \in ContinuityState
      BY TacComAssumption DEF ReadingsAt, ContinuityState
    <2>3. QED  BY <1>1, <2>1, <2>2, PassSummary
  <1>2. QED  BY <1>1 DEF Next

(* Nothing was sent when both units start.                                 *)
LEMMA TypeInit == Init => TypeOK /\ RadioInv
  <1> SUFFICES ASSUME Init  PROVE TypeOK /\ RadioInv
    OBVIOUS
  <1>1. toLauncher = <<>> /\ toWrist = <<>> /\ Len(<<>>) = 0
        /\ \A S : <<>> \in Seq(S)
    BY EmptySeq DEF Init
  <1>2. DOMAIN toLauncher = {} /\ DOMAIN toWrist = {}
    BY <1>1
  <1>3. Len(toLauncher) = 0 /\ Len(toWrist) = 0
    BY <1>1
  <1>4. toLauncher \in Seq(UpPackets) /\ toWrist \in Seq(DownPackets)
    BY <1>1, Zenon
  <1>5. SafeState(launcherState_init)
    BY DEF SafeState, launcherState_init, Hot
  <1>6. UPLINK \in Nat /\ DOWNLINK \in Nat /\ MAX_REQUESTS \in Nat
    BY TacComAssumption
  <1>7. TypeOK
    <2>1. /\ gAck \in [pending : BOOLEAN, token : 0 .. MAX_REQUESTS]
          /\ gLink \in [online : BOOLEAN, armed : BOOLEAN]
          /\ lastAck \in [token : 0 .. MAX_REQUESTS, accepted : BOOLEAN]
      BY <1>6 DEF Init, WristBoot
    <2>2. /\ gState \in LauncherRuntimeState /\ igniter \in Igniter
          /\ pendingArm = <<>> /\ pendingFire = <<>>
          /\ confirmed = FALSE /\ gWasArmed = FALSE
      BY InitialType DEF Init
    <2>3. /\ requests \in 0 .. MAX_REQUESTS
          /\ Len(toLauncher) <= UPLINK /\ Len(toWrist) <= DOWNLINK
          /\ raises \in [Requests -> 0 .. 2]
          /\ outcome \in [Requests -> Outcomes] /\ repeated \subseteq Requests
          /\ lingering <= Len(toLauncher)
      BY <1>3, <1>6 DEF Init, Outcomes
    <2>4. QED  BY <2>1, <2>2, <2>3 DEF TypeOK
  <1>8. confirmed => requests < MAX_REQUESTS
    BY DEF Init
  <1>9. RadioInv
    BY <1>2, <1>3, <1>4, <1>5, <1>8 DEF Init, RadioInv, WristBoot
  <1>10. QED  BY <1>7, <1>9

(* The launcher's reboot empties both queues and its mailboxes.            *)
LEMMA TypeLauncherReboot ==
  ASSUME TypeOK, RadioInv, LauncherReboot
  PROVE  TypeOK' /\ RadioInv'
  <1>1. toLauncher' = <<>> /\ toWrist' = <<>> /\ \A S : <<>> \in Seq(S)
    BY EmptySeq DEF LauncherReboot
  <1>2. /\ DOMAIN toLauncher' = {} /\ DOMAIN toWrist' = {}
        /\ Len(toLauncher') = 0 /\ Len(toWrist') = 0
    BY <1>1
  <1>3. toLauncher' \in Seq(UpPackets) /\ toWrist' \in Seq(DownPackets)
    BY <1>1, Zenon
  <1>4. SafeState(launcherState_init)
    BY DEF SafeState, launcherState_init, Hot
  <1>5. UPLINK \in Nat /\ DOWNLINK \in Nat /\ MAX_REQUESTS \in Nat
    BY TacComAssumption
  <1>6. /\ outcome' \in [Requests -> Outcomes]
        /\ \A r \in Requests \ Sent : outcome'[r] = "none"
    <2>1. outcome' = [r \in Requests |->
                        IF outcome[r] \in {"raised", "joined"} THEN "cut"
                        ELSE outcome[r]]
      BY DEF LauncherReboot
    <2>2. /\ outcome \in [Requests -> Outcomes]
          /\ \A r \in Requests \ Sent : outcome[r] = "none"
      BY DEF TypeOK, RadioInv
    <2>3. QED  BY <2>1, <2>2 DEF Outcomes
  <1>7. TypeOK'
    BY <1>2, <1>5, <1>6, InitialType DEF LauncherReboot, TypeOK, wristVars
  <1>8. RadioInv'
    BY <1>2, <1>3, <1>4, <1>6 DEF LauncherReboot, RadioInv, wristVars, Sent
  <1>9. QED  BY <1>7, <1>8

(* The wrist's reboot empties both queues, and its requests stay counted.  *)
LEMMA TypeWristReboot ==
  ASSUME TypeOK, RadioInv, WristReboot
  PROVE  TypeOK' /\ RadioInv'
  <1>1. toLauncher' = <<>> /\ toWrist' = <<>> /\ \A S : <<>> \in Seq(S)
    BY EmptySeq DEF WristReboot
  <1>2. /\ DOMAIN toLauncher' = {} /\ DOMAIN toWrist' = {}
        /\ Len(toLauncher') = 0 /\ Len(toWrist') = 0
    BY <1>1
  <1>3. toLauncher' \in Seq(UpPackets) /\ toWrist' \in Seq(DownPackets)
    BY <1>1, Zenon
  <1>4. UPLINK \in Nat /\ DOWNLINK \in Nat /\ MAX_REQUESTS \in Nat
    BY TacComAssumption
  <1>5. TypeOK'
    <2>1. /\ gLink' \in [online : BOOLEAN, armed : BOOLEAN]
          /\ lastAck' \in [token : 0 .. MAX_REQUESTS, accepted : BOOLEAN]
          /\ confirmed' = FALSE /\ gWasArmed' = FALSE /\ lingering' = 0
      BY <1>4 DEF WristReboot, WristBoot
    <2>2. UNCHANGED <<launcherVars, requests, outcome, raises, repeated>>
      BY DEF WristReboot
    <2>3. /\ gState' \in LauncherRuntimeState /\ igniter' \in Igniter
          /\ gAck' \in [pending : BOOLEAN, token : 0 .. MAX_REQUESTS]
          /\ pendingArm' \in {<<>>, <<TRUE>>, <<FALSE>>}
          /\ pendingFire' \in {<<>>} \cup {<<r>> : r \in Requests}
          /\ requests' \in 0 .. MAX_REQUESTS
          /\ raises' \in [Requests -> 0 .. 2]
          /\ outcome' \in [Requests -> Outcomes] /\ repeated' \subseteq Requests
      BY <2>2 DEF TypeOK, launcherVars
    <2>4. /\ Len(toLauncher') <= UPLINK /\ Len(toWrist') <= DOWNLINK
          /\ lingering' <= Len(toLauncher')
      BY <1>2, <1>4, <2>1
    <2>5. QED  BY <2>1, <2>3, <2>4 DEF TypeOK
  <1>6. RadioInv'
    BY <1>2, <1>3 DEF WristReboot, RadioInv, WristBoot, launcherVars, Sent
  <1>7. QED  BY <1>5, <1>6

(* One case per action, by the lemmas above.                               *)
LEMMA TypeStep ==
  ASSUME TypeOK, RadioInv, [Next]_vars
  PROVE  TypeOK' /\ RadioInv'
  <1>1. ASSUME NEW now, NEW packets, PassEffect(now, packets)
        PROVE  TypeOK' /\ RadioInv'
    BY <1>1, TypePass
  <1>2. ASSUME NEW late \in {FALSE, gLink.online}, NEW typed \in Typed,
               NEW continuityOk, WristPass(late, typed, continuityOk)
        PROVE  TypeOK' /\ RadioInv'
    BY <1>2, TypeWristPass
  <1>3. ASSUME NEW again \in BOOLEAN, ToLauncher(again)
        PROVE  TypeOK' /\ RadioInv'
    BY <1>3, TypeToLauncher
  <1>4. ASSUME NEW again \in BOOLEAN, ToWrist(again)
        PROVE  TypeOK' /\ RadioInv'
    BY <1>4, TypeToWrist
  <1>5. CASE LoseToLauncher
    BY <1>5, TypeLoseToLauncher
  <1>6. CASE LoseToWrist
    BY <1>6, TypeLoseToWrist
  <1>7. CASE LauncherReboot
    BY <1>7, TypeLauncherReboot
  <1>8. CASE WristReboot
    BY <1>8, TypeWristReboot
  <1>9. CASE Confirm
    BY <1>9 DEF Confirm, TypeOK, RadioInv, Sent, launcherVars, radioVars, ghostVars
  <1>10. CASE UNCHANGED vars
    BY <1>10 DEF TypeOK, RadioInv, Sent, vars, launcherVars, wristVars, radioVars,
                 ghostVars
  <1>11. QED
    BY <1>1, <1>2, <1>3, <1>4, <1>5, <1>6, <1>7, <1>8, <1>9, <1>10, Steps

(* Both units and the radio between them keep their types, and no packet,  *)
(* mailbox or ack names a request that the wrist has not sent.             *)
THEOREM TypeCorrect == Spec => [](TypeOK /\ RadioInv)
  <1>1. Init => TypeOK /\ RadioInv
    BY TypeInit
  <1>2. TypeOK /\ RadioInv /\ [Next]_vars => (TypeOK /\ RadioInv)'
    BY TypeStep
  <1>3. QED  BY <1>1, <1>2, PTL DEF Spec
-----------------------------------------------------------------------------
(* Nothing that was sent before a pulse began starts another.              *)
PulsesInv == SettledInv /\ ArmInv /\ PulseInv /\ ~unarmed

(* The two commands are told apart.                                        *)
LEMMA ArmSetIsNoFireCmd ==
  \A arm, r : ArmSet(arm) # FireCmd(r)
  BY DEF ArmSet, FireCmd

(* A pass raises the gate only with no pulse running, hence with nothing   *)
(* older under way: the request in the mailbox has raised none, and the    *)
(* launcher was armed by an ARM_SET sent since the last pulse began.       *)
LEMMA PulsesPass ==
  ASSUME TypeOK, RadioInv, PulsesInv, NEW now, NEW packets, PassEffect(now, packets)
  PROVE  PulsesInv'
  <1>1. /\ Over(now) => igniter.active /\ settled
        /\ igniter'.active <=> Accepted \/ (igniter.active /\ ~Over(now))
        /\ gState'.state = "ARMED" \/ Accepted =>
             (gState.state = "ARMED" /\ ~Over(now)) \/ pendingArm = <<TRUE>>
        /\ lingering' = IF Rises(now) THEN Len(toLauncher) ELSE lingering
        /\ settled' = (lingering = 0 /\ ~Rises(now))
        /\ raises' = IF Rises(now) /\ raises[pendingFire[1]] < 2
                     THEN [raises EXCEPT ![pendingFire[1]] = @ + 1] ELSE raises
        /\ unarmed' = (unarmed \/ (Rises(now) /\ ~armSent))
        /\ armSent' = (armSent /\ ~Rises(now))
        /\ pendingArm' = <<>> /\ pendingFire' = <<>> /\ toLauncher' = toLauncher
    BY DEF PassEffect
  <1>2. Rises(now) => Accepted /\ settled
    BY <1>1 DEF Rises, PulsesInv, SettledInv
  <1>3. Len(toLauncher) \in Nat /\ DOMAIN toLauncher = 1 .. Len(toLauncher)
    BY DEF RadioInv
  <1>4. SettledInv'
    <2>1. settled' => lingering' = 0
      BY <1>1
    <2>2. ~igniter'.active => ~Rises(now) /\ settled
      BY <1>1, <1>2 DEF PulsesInv, SettledInv
    <2>3. QED  BY <1>1, <2>1, <2>2 DEF PulsesInv, SettledInv
  \* With the gate LOW, or at the end of a pulse, no old ARM_SET(true) is left.
  <1>5. ~armSent /\ settled /\ (Over(now) \/ ~igniter.active) =>
          gState'.state # "ARMED" /\ ~Accepted
    BY <1>1 DEF PulsesInv, ArmInv
  <1>6. Rises(now) => armSent
    BY <1>2, <1>5 DEF Rises
  <1>7. ArmInv'
    <2>1. CASE Rises(now)
      <3>1. lingering' = Len(toLauncher) /\ ~settled' /\ igniter'.active
        BY <1>1, <1>2, <2>1
      <3>2. \A i \in DOMAIN toLauncher' : ~(i > lingering')
        BY <1>1, <1>3, <3>1
      <3>3. QED  BY <3>1, <3>2 DEF ArmInv
    <2>2. CASE ~Rises(now)
      <3>1. lingering' = lingering /\ (armSent' <=> armSent) /\ pendingArm' # <<TRUE>>
        BY <1>1, <2>2
      <3>2. ~igniter'.active => settled /\ (Over(now) \/ ~igniter.active)
        BY <1>1 DEF PulsesInv, SettledInv
      <3>3. ~armSent /\ ~igniter'.active => gState'.state # "ARMED"
        BY <1>5, <3>2
      <3>4. QED  BY <1>1, <3>1, <3>3 DEF PulsesInv, ArmInv
    <2>3. QED  BY <2>1, <2>2
  <1>8. PulseInv'
    <2> SUFFICES ASSUME NEW r \in Requests, raises'[r] # 0
                 PROVE  /\ raises'[r] = 1
                        /\ \A i \in DOMAIN toLauncher' :
                              i > lingering' => toLauncher'[i] # FireCmd(r)
                        /\ settled' => pendingFire' # <<r>>
      BY DEF PulseInv
    <2>1. raises \in [Requests -> 0 .. 2]
      BY DEF TypeOK
    <2>2. CASE Rises(now)
      <3>1. pendingFire[1] \in Requests /\ pendingFire = <<pendingFire[1]>>
        BY <2>2, FireMailbox DEF Rises, Accepted
      <3>2. raises[pendingFire[1]] = 0
        BY <1>2, <2>2, <3>1 DEF PulsesInv, PulseInv
      <3>3. raises' = [raises EXCEPT ![pendingFire[1]] = raises[pendingFire[1]] + 1]
        BY <1>1, <2>2, <3>2
      <3>4. raises'[r] = IF r = pendingFire[1] THEN 1 ELSE raises[r]
        BY <2>1, <3>1, <3>2, <3>3
      <3>5. raises'[r] = 1
        BY <3>4 DEF PulsesInv, PulseInv
      <3>6. lingering' = Len(toLauncher)
        BY <1>1, <2>2
      <3>7. \A i \in DOMAIN toLauncher' : ~(i > lingering')
        BY <1>1, <1>3, <3>6
      <3>8. pendingFire' # <<r>>
        BY <1>1
      <3>9. QED  BY <3>5, <3>7, <3>8
    <2>3. CASE ~Rises(now)
      <3>1. raises' = raises /\ lingering' = lingering /\ pendingFire' # <<r>>
        BY <1>1, <2>3
      <3>2. QED  BY <1>1, <3>1 DEF PulsesInv, PulseInv
    <2>4. QED  BY <2>2, <2>3
  <1>9. ~unarmed'
    BY <1>1, <1>6 DEF PulsesInv
  <1>10. QED  BY <1>4, <1>7, <1>8, <1>9 DEF PulsesInv

\* A packet sent now bears a new request, or is the ARM_SET that armSent notes.
LEMMA PulsesWristPass ==
  ASSUME TypeOK, RadioInv, PulsesInv, NEW late, NEW typed \in Typed, NEW continuityOk,
         WristPass(late, typed, continuityOk)
  PROVE  PulsesInv'
  <1>1. PICK at \in Nat :
          /\ requests' \in {requests, requests + 1}
          /\ requests' # requests => confirmed
          /\ toLauncher' \in Seq(UpPackets) /\ Len(toLauncher') <= UPLINK
          /\ Len(toLauncher) <= Len(toLauncher')
          /\ \A i \in DOMAIN toLauncher' :
               \/ i \in DOMAIN toLauncher /\ toLauncher'[i] = toLauncher[i]
               \/ /\ i > Len(toLauncher)
                  /\ \/ toLauncher'[i] = ArmSet(FALSE)
                     \/ toLauncher'[i] = ArmSet(TRUE) /\ armSent'
                     \/ /\ toLauncher'[i] = FireCmd(requests') /\ i = at
                        /\ requests' = requests + 1
    BY WristSends
  <1>2. /\ UNCHANGED <<launcherVars, raises, unarmed, lingering, settled>>
        /\ armSent' = (armSent \/ typed = <<ArmSet(TRUE)>>)
    BY DEF WristPass
  <1>3. requests \in Nat
    BY FireMailbox
  <1>4. \A r \in Requests : raises[r] # 0 => r # requests + 1
    BY <1>3 DEF RadioInv, Sent
  <1>5. SettledInv'
    BY <1>2 DEF PulsesInv, SettledInv, launcherVars
  <1>6. ArmInv'
    <2> SUFFICES ASSUME ~armSent'
                 PROVE  /\ \A i \in DOMAIN toLauncher' :
                             i > lingering' => toLauncher'[i] # ArmSet(TRUE)
                        /\ settled' => pendingArm' # <<TRUE>>
                        /\ ~igniter'.active => gState'.state # "ARMED"
      BY DEF ArmInv
    <2>1. /\ \A i \in DOMAIN toLauncher : i > lingering => toLauncher[i] # ArmSet(TRUE)
          /\ settled' => pendingArm' # <<TRUE>>
          /\ ~igniter'.active => gState'.state # "ARMED"
          /\ lingering' = lingering
      BY <1>2 DEF PulsesInv, ArmInv, launcherVars
    <2>2. ASSUME NEW i \in DOMAIN toLauncher', i > lingering'
          PROVE  toLauncher'[i] # ArmSet(TRUE)
      <3>1. CASE i \in DOMAIN toLauncher /\ toLauncher'[i] = toLauncher[i]
        BY <2>1, <2>2, <3>1
      <3>2. CASE toLauncher'[i] = ArmSet(FALSE)
        BY <3>2 DEF ArmSet
      <3>3. CASE toLauncher'[i] = FireCmd(requests')
        BY <3>3, ArmSetIsNoFireCmd
      <3>4. QED  BY <1>1, <3>1, <3>2, <3>3
    <2>3. QED  BY <2>1, <2>2
  <1>7. PulseInv'
    <2> SUFFICES ASSUME NEW r \in Requests, raises'[r] # 0
                 PROVE  /\ raises'[r] = 1
                        /\ \A i \in DOMAIN toLauncher' :
                              i > lingering' => toLauncher'[i] # FireCmd(r)
                        /\ settled' => pendingFire' # <<r>>
      BY DEF PulseInv
    <2>1. /\ raises'[r] = 1 /\ raises[r] # 0 /\ lingering' = lingering
          /\ \A i \in DOMAIN toLauncher : i > lingering => toLauncher[i] # FireCmd(r)
          /\ settled' => pendingFire' # <<r>>
      BY <1>2 DEF PulsesInv, PulseInv, launcherVars
    <2>2. ASSUME NEW i \in DOMAIN toLauncher', i > lingering'
          PROVE  toLauncher'[i] # FireCmd(r)
      <3>1. CASE i \in DOMAIN toLauncher /\ toLauncher'[i] = toLauncher[i]
        BY <2>1, <2>2, <3>1
      <3>2. CASE \E arm : toLauncher'[i] = ArmSet(arm)
        BY <3>2, ArmSetIsNoFireCmd
      <3>3. CASE toLauncher'[i] = FireCmd(requests') /\ requests' = requests + 1
        BY <1>4, <2>1, <3>3 DEF FireCmd
      <3>4. QED  BY <1>1, <3>1, <3>2, <3>3
    <2>3. QED  BY <2>1, <2>2
  <1>8. QED  BY <1>2, <1>5, <1>6, <1>7 DEF PulsesInv

\* A queue that only gets shorter keeps what it does not hold.
LEMMA PulsesRest ==
  ASSUME TypeOK, RadioInv, PulsesInv, NEW again \in BOOLEAN, toLauncher # <<>>,
         toLauncher' = Rest(toLauncher, again),
         lingering' = IF again \/ lingering = 0 THEN lingering ELSE lingering - 1,
         UNCHANGED <<gState, igniter, raises, unarmed, armSent, settled>>,
         ~armSent /\ settled => pendingArm' # <<TRUE>>,
         \A r \in Requests : raises[r] # 0 /\ settled => pendingFire' # <<r>>
  PROVE  PulsesInv'
  <1>1. /\ \A i \in DOMAIN toLauncher' : \E j \in DOMAIN toLauncher :
             /\ toLauncher'[i] = toLauncher[j]
             /\ i > lingering' => j > lingering
        /\ lingering = 0 => lingering' = 0
    BY UplinkRest
  <1>2. SettledInv'
    BY <1>1 DEF PulsesInv, SettledInv
  <1>3. ArmInv'
    BY <1>1 DEF PulsesInv, ArmInv
  <1>4. PulseInv'
    <2> SUFFICES ASSUME NEW r \in Requests, raises'[r] # 0
                 PROVE  /\ raises'[r] = 1
                        /\ \A i \in DOMAIN toLauncher' :
                              i > lingering' => toLauncher'[i] # FireCmd(r)
                        /\ settled' => pendingFire' # <<r>>
      BY DEF PulseInv
    <2>1. /\ raises[r] = 1
          /\ \A i \in DOMAIN toLauncher : i > lingering => toLauncher[i] # FireCmd(r)
      BY DEF PulsesInv, PulseInv
    <2>2. QED  BY <1>1, <2>1
  <1>5. QED  BY <1>2, <1>3, <1>4 DEF PulsesInv

(* A packet that arrives is one fewer of those under way since before the  *)
(* pulse, unless the radio repeats it.                                     *)
LEMMA PulsesToLauncher ==
  ASSUME TypeOK, RadioInv, PulsesInv, NEW again \in BOOLEAN, ToLauncher(again)
  PROVE  PulsesInv'
  <1> DEFINE p == toLauncher[1]
  <1>1. /\ toLauncher # <<>> /\ toLauncher' = Rest(toLauncher, again)
        /\ lingering' = IF again \/ lingering = 0 THEN lingering ELSE lingering - 1
        /\ UNCHANGED <<gState, igniter, raises, unarmed, armSent, settled>>
    BY DEF ToLauncher
  <1>2. 1 \in DOMAIN toLauncher /\ Head(toLauncher) = p /\ p \in UpPackets
    BY <1>1, UplinkRest
  <1>3. /\ pendingArm' = IF p.msgType = "ARM_SET" THEN <<p.arm>> ELSE pendingArm
        /\ pendingFire' = IF p.msgType = "FIRE_CMD" THEN <<p.token>> ELSE pendingFire
    BY <1>2 DEF ToLauncher
  <1>4. settled => 1 > lingering
    BY DEF PulsesInv, SettledInv
  <1>5. ~armSent /\ settled => pendingArm' # <<TRUE>>
    <2>1. SUFFICES ASSUME ~armSent, settled  PROVE pendingArm' # <<TRUE>>
      OBVIOUS
    <2>2. p # ArmSet(TRUE) /\ pendingArm # <<TRUE>>
      BY <1>2, <1>4, <2>1 DEF PulsesInv, ArmInv
    <2> HIDE DEF p
    <2>3. CASE \E arm \in BOOLEAN : p = ArmSet(arm)
      <3>1. p = ArmSet(FALSE)
        BY <2>2, <2>3
      <3>2. pendingArm' = <<FALSE>>
        BY <1>3, <3>1 DEF ArmSet
      <3>3. QED  BY <3>2
    <2>4. CASE \E r \in Requests : p = FireCmd(r)
      <3>1. p.msgType = "FIRE_CMD"
        BY <2>4 DEF FireCmd
      <3>2. pendingArm' = pendingArm
        BY <1>3, <3>1
      <3>3. QED  BY <2>2, <3>2
    <2>5. QED  BY <1>2, <2>3, <2>4, UpPacketKinds
  <1>6. \A r \in Requests : raises[r] # 0 /\ settled => pendingFire' # <<r>>
    <2>1. SUFFICES ASSUME NEW r \in Requests, raises[r] # 0, settled
                   PROVE  pendingFire' # <<r>>
      OBVIOUS
    <2>2. p # FireCmd(r) /\ pendingFire # <<r>>
      BY <1>2, <1>4, <2>1 DEF PulsesInv, PulseInv
    <2> HIDE DEF p
    <2>3. CASE \E arm \in BOOLEAN : p = ArmSet(arm)
      BY <1>3, <2>2, <2>3 DEF ArmSet
    <2>4. ASSUME NEW n \in Requests, p = FireCmd(n)
          PROVE  pendingFire' # <<r>>
      <3>1. pendingFire' = <<n>>
        BY <1>3, <2>4 DEF FireCmd
      <3>2. n # r
        BY <2>2, <2>4
      <3>3. QED  BY <3>1, <3>2
    <2>5. QED  BY <1>2, <2>3, <2>4, UpPacketKinds
  <1>7. QED  BY <1>1, <1>5, <1>6, PulsesRest

(* One case per action, by the lemmas above.                               *)
LEMMA PulsesStep ==
  ASSUME TypeOK, RadioInv, PulsesInv, [Next]_vars
  PROVE  PulsesInv'
  <1>1. ASSUME NEW now, NEW packets, PassEffect(now, packets)
        PROVE  PulsesInv'
    BY <1>1, PulsesPass
  <1>2. ASSUME NEW late \in {FALSE, gLink.online}, NEW typed \in Typed,
               NEW continuityOk, WristPass(late, typed, continuityOk)
        PROVE  PulsesInv'
    BY <1>2, PulsesWristPass
  <1>3. ASSUME NEW again \in BOOLEAN, ToLauncher(again)
        PROVE  PulsesInv'
    BY <1>3, PulsesToLauncher
  <1>4. CASE LoseToLauncher
    <2>1. /\ toLauncher # <<>> /\ toLauncher' = Rest(toLauncher, FALSE)
          /\ lingering' = IF FALSE \/ lingering = 0 THEN lingering ELSE lingering - 1
          /\ FALSE \in BOOLEAN
          /\ UNCHANGED <<gState, igniter, raises, unarmed, armSent, settled>>
          /\ UNCHANGED <<pendingArm, pendingFire>>
      BY <1>4 DEF LoseToLauncher, Rest, launcherVars
    <2>2. /\ ~armSent /\ settled => pendingArm' # <<TRUE>>
          /\ \A r \in Requests : raises[r] # 0 /\ settled => pendingFire' # <<r>>
      BY <2>1 DEF PulsesInv, ArmInv, PulseInv
    <2>3. QED  BY <2>1, <2>2, PulsesRest
  <1>5. ASSUME UNCHANGED <<gState, igniter, pendingArm, pendingFire, toLauncher, raises,
                           unarmed, armSent, lingering, settled>>
        PROVE  PulsesInv'
    BY <1>5 DEF PulsesInv, SettledInv, ArmInv, PulseInv
  <1>6. ASSUME NEW again \in BOOLEAN, ToWrist(again)
        PROVE  PulsesInv'
    BY <1>5, <1>6 DEF ToWrist, launcherVars, ghostVars
  <1>7. CASE LoseToWrist
    BY <1>5, <1>7 DEF LoseToWrist, launcherVars
  <1>8. CASE Confirm
    BY <1>5, <1>8 DEF Confirm, launcherVars, radioVars, ghostVars
  <1>9. CASE UNCHANGED vars
    BY <1>5, <1>9 DEF vars, launcherVars, radioVars, ghostVars
  <1>10. CASE LauncherReboot
    <2>1. /\ toLauncher' = <<>> /\ pendingArm' = <<>> /\ pendingFire' = <<>>
          /\ lingering' = 0 /\ settled' /\ gState' = launcherState_init
          /\ UNCHANGED <<raises, unarmed>>
      BY <1>10 DEF LauncherReboot
    <2>2. DOMAIN toLauncher' = {} /\ gState'.state # "ARMED"
      BY <2>1 DEF launcherState_init
    <2>3. QED  BY <2>1, <2>2 DEF PulsesInv, SettledInv, ArmInv, PulseInv
  <1>11. CASE WristReboot
    <2>1. /\ toLauncher' = <<>> /\ lingering' = 0
          /\ UNCHANGED <<gState, igniter, pendingArm, pendingFire, raises, unarmed,
                         armSent, settled>>
      BY <1>11 DEF WristReboot, launcherVars
    <2>2. DOMAIN toLauncher' = {}
      BY <2>1
    <2>3. QED  BY <2>1, <2>2 DEF PulsesInv, SettledInv, ArmInv, PulseInv
  <1>12. QED
    BY <1>1, <1>2, <1>3, <1>4, <1>6, <1>7, <1>8, <1>9, <1>10, <1>11, Steps

(* The inductive invariant about pulses.                                   *)
LEMMA PulsesInvHolds == Spec => []PulsesInv
  <1>1. Init => PulsesInv
    <2> SUFFICES ASSUME Init  PROVE PulsesInv
      OBVIOUS
    <2>1. DOMAIN toLauncher = {} /\ gState.state # "ARMED"
      BY DEF Init, launcherState_init
    <2>2. \A r \in Requests : raises[r] = 0
      BY DEF Init
    <2>3. QED
      BY <2>1, <2>2 DEF Init, PulsesInv, SettledInv, ArmInv, PulseInv
  <1>2. TypeOK /\ RadioInv /\ PulsesInv /\ [Next]_vars => PulsesInv'
    BY PulsesStep
  <1>3. QED  BY <1>1, <1>2, TypeCorrect, PTL DEF Spec

(* No pulse begins that nobody armed for: between the beginnings of two    *)
(* pulses, and after each boot, an ARM_SET(true) was sent.                 *)
THEOREM EachPulseIsArmedHolds == Spec => []EachPulseIsArmed
  <1>1. PulsesInv => EachPulseIsArmed
    BY DEF PulsesInv, EachPulseIsArmed
  <1>2. QED  BY <1>1, PulsesInvHolds, PTL

(* A confirmation raises the gate at most once, whatever is repeated.      *)
THEOREM OnePulsePerRequestHolds == Spec => []OnePulsePerRequest
  <1>1. PulsesInv => OnePulsePerRequest
    <2> SUFFICES ASSUME PulsesInv, NEW r \in Requests  PROVE raises[r] <= 1
      BY DEF OnePulsePerRequest
    <2>1. raises[r] = 0 \/ raises[r] = 1
      BY DEF PulsesInv, PulseInv
    <2>2. QED  BY <2>1
  <1>2. QED  BY <1>1, PulsesInvHolds, PTL
-----------------------------------------------------------------------------
(* The newest STATUS tells the truth.                                      *)
LEMMA AgreementPass ==
  ASSUME TypeOK, RadioInv, AgreementInv, NEW now, NEW packets,
         PassEffect(now, packets)
  PROVE  AgreementInv'
  <1>1. /\ EndsInStatus(packets, gState')
        /\ packets = <<>> => /\ gState'.state = gState.state
                             /\ gState'.keySwitchOn = gState.keySwitchOn
                             /\ missed' = missed
        /\ gLink' = gLink
    BY DEF PassEffect
  <1>2. CASE packets = <<>>
    <2>1. toWrist' = toWrist
      BY <1>2, PassQueue
    <2>2. QED  BY <1>1, <1>2, <2>1 DEF AgreementInv, IsStatus, Agrees
  <1>3. CASE packets # <<>> /\ ~missed'
    <2> DEFINE n == Len(toWrist')
    <2>1. /\ n \in DOMAIN toWrist' /\ toWrist'[n] = packets[Len(packets)]
          /\ toWrist' \in Seq(DownPackets)
      BY <1>3, PassQueue
    <2>2. /\ toWrist'[n].msgType = "STATUS" /\ Agrees(toWrist'[n].armed, gState')
      BY <1>1, <1>3, <2>1 DEF EndsInStatus
    <2>3. DOMAIN toWrist' = 1 .. n /\ n \in Nat
      BY <2>1
    <2> HIDE DEF n
    <2>4. \A i \in DOMAIN toWrist' : i = n \/ n > i
      BY <2>3
    <2>5. QED  BY <2>1, <2>2, <2>4 DEF AgreementInv, IsStatus
  <1>4. CASE packets # <<>> /\ missed'
    BY <1>4 DEF AgreementInv
  <1>5. QED  BY <1>2, <1>3, <1>4

\* Behind the head of the queue the newest STATUS stays the newest.
LEMMA NewestStatus ==
  ASSUME TypeOK, RadioInv, toWrist # <<>>, toWrist' = Rest(toWrist, FALSE)
  PROVE  /\ \A i \in DOMAIN toWrist' :
              /\ i + 1 \in DOMAIN toWrist /\ toWrist'[i] = toWrist[i + 1]
              /\ IsStatus(i)' <=> IsStatus(i + 1)
              /\ (\A j \in DOMAIN toWrist' : j > i => ~IsStatus(j)')
                   => \A j \in DOMAIN toWrist : j > i + 1 => ~IsStatus(j)
         /\ (\A i \in DOMAIN toWrist' : ~IsStatus(i)')
              => \A j \in DOMAIN toWrist : j = 1 \/ ~IsStatus(j)
         /\ 1 \in DOMAIN toWrist
         /\ Head(toWrist) = toWrist[1] /\ toWrist[1] \in DownPackets
         /\ DOMAIN toWrist = 1 .. Len(toWrist) /\ Len(toWrist) \in Nat
  <1>1. FALSE \in BOOLEAN
    OBVIOUS
  <1>2. /\ toWrist' \in Seq(DownPackets) /\ 1 \in DOMAIN toWrist
        /\ Head(toWrist) = toWrist[1] /\ toWrist[1] \in DownPackets
        /\ Len(toWrist') = Len(toWrist) - 1
        /\ \A i \in DOMAIN toWrist' : i + 1 \in DOMAIN toWrist
              /\ toWrist'[i] = toWrist[i + 1]
    BY <1>1, DownlinkRest
  <1>3. /\ DOMAIN toWrist' = 1 .. Len(toWrist') /\ Len(toWrist') \in Nat
        /\ DOMAIN toWrist = 1 .. Len(toWrist) /\ Len(toWrist) \in Nat
    <2>1. toWrist \in Seq(DownPackets) /\ toWrist' \in Seq(DownPackets)
      BY <1>2 DEF RadioInv
    <2>2. DOMAIN toWrist' = 1 .. Len(toWrist') /\ Len(toWrist') \in Nat
      BY <2>1, LenProperties, Zenon
    <2>3. DOMAIN toWrist = 1 .. Len(toWrist) /\ Len(toWrist) \in Nat
      BY <2>1
    <2>4. QED  BY <2>2, <2>3
  <1>4. \A j \in DOMAIN toWrist : j # 1 =>
          j \in Nat /\ j - 1 \in DOMAIN toWrist' /\ (j - 1) + 1 = j
    <2> DEFINE m == Len(toWrist')
               n == Len(toWrist)
    <2>1. DOMAIN toWrist' = 1 .. m /\ DOMAIN toWrist = 1 .. n
          /\ m \in Nat /\ n \in Nat /\ m = n - 1
      BY <1>2, <1>3
    <2> HIDE DEF m, n
    <2>2. \A j \in 1 .. n : j # 1 => j \in Nat /\ j - 1 \in 1 .. m /\ (j - 1) + 1 = j
      BY <2>1
    <2>3. QED  BY <2>1, <2>2
  <1>5. \A i \in DOMAIN toWrist' : IsStatus(i)' <=> IsStatus(i + 1)
    BY <1>2 DEF IsStatus
  <1>6. \A j \in DOMAIN toWrist : j # 1 => (IsStatus(j - 1)' <=> IsStatus(j))
    BY <1>2, <1>4 DEF IsStatus
  <1>7. ASSUME NEW i \in DOMAIN toWrist',
               \A j \in DOMAIN toWrist' : j > i => ~IsStatus(j)',
               NEW k \in DOMAIN toWrist, k > i + 1
        PROVE  ~IsStatus(k)
    <2>1. k # 1 /\ k - 1 > i
      <3>1. i \in 1 .. Len(toWrist') /\ k \in 1 .. Len(toWrist)
        BY <1>3, <1>7
      <3>2. QED  BY <1>7, <3>1
    <2>2. k - 1 \in DOMAIN toWrist'
      BY <1>4, <2>1
    <2>3. ~IsStatus(k - 1)'
      BY <1>7, <2>1, <2>2
    <2>4. QED  BY <1>6, <2>1, <2>3
  <1>8. ASSUME \A i \in DOMAIN toWrist' : ~IsStatus(i)',
               NEW k \in DOMAIN toWrist, k # 1
        PROVE  ~IsStatus(k)
    BY <1>4, <1>6, <1>8
  <1>9. QED  BY <1>2, <1>3, <1>5, <1>7, <1>8

(* A STATUS that arrives becomes what the wrist believes, and what is      *)
(* behind it is newer.                                                     *)
LEMMA AgreementDelivery ==
  ASSUME TypeOK, RadioInv, AgreementInv, NEW again \in BOOLEAN, ToWrist(again)
  PROVE  AgreementInv'
  <1> DEFINE p == toWrist[1]
  <1>1. /\ toWrist # <<>> /\ toWrist' = Rest(toWrist, again)
        /\ UNCHANGED <<gState, missed>>
    BY DEF ToWrist, launcherVars, ghostVars
  <1>2. 1 \in DOMAIN toWrist /\ Head(toWrist) = p
    BY <1>1, DownlinkRest
  <1>3. gLink' = IF p.msgType = "STATUS"
                 THEN [online |-> TRUE, armed |-> p.armed] ELSE gLink
    BY <1>2 DEF ToWrist
  <1> SUFFICES ASSUME ~missed
               PROVE  /\ \A i \in DOMAIN toWrist' :
                           IsStatus(i)' /\ (\A j \in DOMAIN toWrist' : j > i => ~IsStatus(j)')
                             => Agrees(toWrist'[i].armed, gState)
                      /\ (\A i \in DOMAIN toWrist' : ~IsStatus(i)') /\ gLink'.online
                           => Agrees(gLink'.armed, gState)
    BY <1>1 DEF AgreementInv
  <1>4. /\ \A i \in DOMAIN toWrist :
             IsStatus(i) /\ (\A j \in DOMAIN toWrist : j > i => ~IsStatus(j))
               => Agrees(toWrist[i].armed, gState)
        /\ (\A i \in DOMAIN toWrist : ~IsStatus(i)) /\ gLink.online
             => Agrees(gLink.armed, gState)
    BY DEF AgreementInv
  <1> HIDE DEF p
  <1>5. CASE again
    <2>1. toWrist' = toWrist
      BY <1>1, <1>5 DEF Rest
    <2>2. (\A i \in DOMAIN toWrist : ~IsStatus(i)) => gLink' = gLink
      BY <1>2, <1>3 DEF IsStatus, p
    <2>3. \A i : IsStatus(i)' <=> IsStatus(i)
      BY <2>1 DEF IsStatus
    <2>4. QED  BY <1>4, <2>1, <2>2, <2>3
  <1>6. CASE ~again
    <2>1. toWrist' = Rest(toWrist, FALSE)
      BY <1>1, <1>6 DEF Rest
    <2>2. /\ \A i \in DOMAIN toWrist' :
               /\ i + 1 \in DOMAIN toWrist /\ toWrist'[i] = toWrist[i + 1]
               /\ IsStatus(i)' <=> IsStatus(i + 1)
               /\ (\A j \in DOMAIN toWrist' : j > i => ~IsStatus(j)')
                    => \A j \in DOMAIN toWrist : j > i + 1 => ~IsStatus(j)
          /\ (\A i \in DOMAIN toWrist' : ~IsStatus(i)')
               => \A j \in DOMAIN toWrist : j = 1 \/ ~IsStatus(j)
          /\ DOMAIN toWrist = 1 .. Len(toWrist) /\ Len(toWrist) \in Nat
      BY <1>1, <2>1, NewestStatus
    <2>3. ASSUME NEW i \in DOMAIN toWrist', IsStatus(i)',
                 \A j \in DOMAIN toWrist' : j > i => ~IsStatus(j)'
          PROVE  Agrees(toWrist'[i].armed, gState)
      BY <1>4, <2>2, <2>3
    <2>4. ASSUME \A i \in DOMAIN toWrist' : ~IsStatus(i)', gLink'.online
          PROVE  Agrees(gLink'.armed, gState)
      <3>1. \A j \in DOMAIN toWrist : j = 1 \/ ~IsStatus(j)
        BY <2>2, <2>4
      <3>2. CASE p.msgType = "STATUS"
        <4>1. IsStatus(1) /\ \A j \in DOMAIN toWrist : j > 1 => ~IsStatus(j)
          BY <1>2, <3>1, <3>2 DEF IsStatus, p
        <4>2. Agrees(p.armed, gState)
          BY <1>2, <1>4, <4>1 DEF p
        <4>3. gLink'.armed = p.armed
          BY <1>3, <3>2
        <4>4. QED  BY <4>2, <4>3
      <3>3. CASE p.msgType # "STATUS"
        <4>1. \A j \in DOMAIN toWrist : ~IsStatus(j)
          BY <3>1, <3>3 DEF IsStatus, p
        <4>2. gLink' = gLink
          BY <1>3, <3>3
        <4>3. QED  BY <1>4, <2>4, <4>1, <4>2
      <3>4. QED  BY <3>2, <3>3
    <2>5. QED  BY <2>3, <2>4
  <1>7. QED  BY <1>5, <1>6

(* A lost STATUS is either not the newest, or it is recorded as missed.    *)
LEMMA AgreementLoss ==
  ASSUME TypeOK, RadioInv, AgreementInv, LoseToWrist
  PROVE  AgreementInv'
  <1>1. /\ toWrist # <<>> /\ toWrist' = Rest(toWrist, FALSE)
        /\ missed' = (missed \/ /\ Head(toWrist).msgType = "STATUS"
                                /\ \A i \in 2 .. Len(toWrist) :
                                      toWrist[i].msgType # "STATUS")
        /\ UNCHANGED <<gState, gLink>>
    BY DEF LoseToWrist, Rest, launcherVars, wristVars
  <1>2. /\ \A i \in DOMAIN toWrist' :
             /\ i + 1 \in DOMAIN toWrist /\ toWrist'[i] = toWrist[i + 1]
             /\ IsStatus(i)' <=> IsStatus(i + 1)
             /\ (\A j \in DOMAIN toWrist' : j > i => ~IsStatus(j)')
                  => \A j \in DOMAIN toWrist : j > i + 1 => ~IsStatus(j)
        /\ (\A i \in DOMAIN toWrist' : ~IsStatus(i)')
             => \A j \in DOMAIN toWrist : j = 1 \/ ~IsStatus(j)
        /\ 1 \in DOMAIN toWrist /\ Head(toWrist) = toWrist[1]
        /\ DOMAIN toWrist = 1 .. Len(toWrist) /\ Len(toWrist) \in Nat
    BY <1>1, NewestStatus
  <1> SUFFICES ASSUME ~missed'
               PROVE  /\ \A i \in DOMAIN toWrist' :
                           IsStatus(i)' /\ (\A j \in DOMAIN toWrist' : j > i => ~IsStatus(j)')
                             => Agrees(toWrist'[i].armed, gState)
                      /\ (\A i \in DOMAIN toWrist' : ~IsStatus(i)') /\ gLink.online
                           => Agrees(gLink.armed, gState)
    BY <1>1 DEF AgreementInv
  <1>3. /\ \A i \in DOMAIN toWrist :
             IsStatus(i) /\ (\A j \in DOMAIN toWrist : j > i => ~IsStatus(j))
               => Agrees(toWrist[i].armed, gState)
        /\ (\A i \in DOMAIN toWrist : ~IsStatus(i)) /\ gLink.online
             => Agrees(gLink.armed, gState)
    BY <1>1 DEF AgreementInv
  <1>4. \A i \in DOMAIN toWrist' :
          IsStatus(i)' /\ (\A j \in DOMAIN toWrist' : j > i => ~IsStatus(j)')
            => Agrees(toWrist'[i].armed, gState)
    BY <1>2, <1>3
  <1>5. ASSUME \A i \in DOMAIN toWrist' : ~IsStatus(i)'
        PROVE  \A j \in DOMAIN toWrist : ~IsStatus(j)
    <2>1. \A j \in DOMAIN toWrist : j = 1 \/ ~IsStatus(j)
      BY <1>2, <1>5
    <2>2. \A i \in 2 .. Len(toWrist) : i \in DOMAIN toWrist /\ i # 1
      BY <1>2
    <2>3. \A i \in 2 .. Len(toWrist) : toWrist[i].msgType # "STATUS"
      BY <2>1, <2>2 DEF IsStatus
    <2>4. toWrist[1].msgType # "STATUS"
      BY <1>1, <1>2, <2>3
    <2>5. QED  BY <2>1, <2>4 DEF IsStatus
  <1>6. QED  BY <1>3, <1>4, <1>5

(* One case per action, by the lemmas above.                               *)
LEMMA AgreementStep ==
  ASSUME TypeOK, RadioInv, AgreementInv, [Next]_vars
  PROVE  AgreementInv'
  <1>1. ASSUME NEW now, NEW packets, PassEffect(now, packets)
        PROVE  AgreementInv'
    BY <1>1, AgreementPass
  <1>2. ASSUME NEW late \in {FALSE, gLink.online}, NEW typed \in Typed,
               NEW continuityOk, WristPass(late, typed, continuityOk)
        PROVE  AgreementInv'
    <2>1. /\ UNCHANGED <<gState, toWrist, missed>>
          /\ gLink'.online => gLink' = gLink
      BY <1>2 DEF WristPass, WristBoot, launcherVars
    <2>2. QED  BY <2>1 DEF AgreementInv, IsStatus
  <1>3. ASSUME NEW again \in BOOLEAN, ToWrist(again)
        PROVE  AgreementInv'
    BY <1>3, AgreementDelivery
  <1>4. CASE LoseToWrist
    BY <1>4, AgreementLoss
  <1>5. CASE LauncherReboot \/ WristReboot
    <2>1. missed' = TRUE
      BY <1>5 DEF LauncherReboot, WristReboot
    <2>2. QED  BY <2>1 DEF AgreementInv
  <1>6. ASSUME UNCHANGED <<gState, gLink, toWrist, missed>>
        PROVE  AgreementInv'
    BY <1>6 DEF AgreementInv, IsStatus
  <1>7. ASSUME NEW again \in BOOLEAN, ToLauncher(again)
        PROVE  AgreementInv'
    BY <1>6, <1>7 DEF ToLauncher, wristVars
  <1>8. CASE LoseToLauncher
    BY <1>6, <1>8 DEF LoseToLauncher, launcherVars, wristVars
  <1>9. CASE Confirm
    BY <1>6, <1>9 DEF Confirm, launcherVars, radioVars, ghostVars
  <1>10. CASE UNCHANGED vars
    BY <1>6, <1>10 DEF vars, launcherVars, wristVars, radioVars, ghostVars
  <1>11. QED
    BY <1>1, <1>2, <1>3, <1>4, <1>5, <1>7, <1>8, <1>9, <1>10, Steps

(* Once the newest STATUS has arrived, the wrist and the launcher agree.   *)
THEOREM AgreementHolds == Spec => []Agreement
  <1>1. Init => AgreementInv
    BY DEF Init, AgreementInv
  <1>2. TypeOK /\ RadioInv /\ AgreementInv /\ [Next]_vars => AgreementInv'
    BY AgreementStep
  <1>3. AgreementInv => Agreement
    <2> SUFFICES ASSUME AgreementInv, toWrist = <<>>, ~missed, gLink.online
                 PROVE  /\ gLink.armed => gState.state \in Hot /\ gState.keySwitchOn
                        /\ gState.state = "ARMED" => gLink.armed
      BY DEF Agreement
    <2>1. DOMAIN toWrist = {}
      OBVIOUS
    <2>2. Agrees(gLink.armed, gState)
      BY <2>1 DEF AgreementInv
    <2>3. QED  BY <2>2 DEF Agrees
  <1>4. QED  BY <1>1, <1>2, <1>3, TypeCorrect, PTL DEF Spec
-----------------------------------------------------------------------------
(* Each FIRE_ACK tells what became of its request.                         *)
LEMMA AckFields ==
  ASSUME NEW r, NEW q, NEW a \in BOOLEAN, NEW b \in BOOLEAN,
         FireAck(r, a) = FireAck(q, b)
  PROVE  r = q /\ (a <=> b)
  <1>1. FireAck(r, a).token = r /\ FireAck(q, b).token = q
    BY DEF FireAck
  <1>2. (FireAck(r, a).accepted <=> a) /\ (FireAck(q, b).accepted <=> b)
    BY DEF FireAck
  <1>3. QED  BY <1>1, <1>2

(* A pass answers a request that is not repeated once: with the refusal of *)
(* a request that raised nothing, or with the ack its pulse owed.          *)
LEMMA AckPass ==
  ASSUME TypeOK, RadioInv, AckInv, NEW now, NEW packets, PassEffect(now, packets)
  PROVE  AckInv'
  <1>1. /\ toLauncher' = toLauncher /\ repeated' = repeated /\ lastAck' = lastAck
        /\ pendingFire' = <<>>
        /\ igniter'.active <=> Accepted \/ (igniter.active /\ ~Over(now))
    BY DEF PassEffect
  <1>2. \A r \in Requests :
          outcome'[r] = IF Accepted /\ pendingFire = <<r>>
                        THEN IF Rises(now) THEN "raised" ELSE "joined"
                        ELSE IF Over(now) /\ outcome[r] = "raised" THEN "done"
                        ELSE IF Over(now) /\ outcome[r] = "joined" THEN "shared"
                        ELSE outcome[r]
    BY DEF PassEffect
  <1>3. \A r \in Requests : outcome'[r] \in {"raised", "joined"} => igniter'.active
    <2> SUFFICES ASSUME NEW r \in Requests, outcome'[r] \in {"raised", "joined"}
                 PROVE  igniter'.active
      OBVIOUS
    <2>1. CASE Accepted
      BY <1>1, <2>1
    <2>2. CASE ~Accepted
      <3>1. ~Over(now) /\ outcome[r] \in {"raised", "joined"}
        BY <1>2, <2>2
      <3>2. igniter.active
        BY <3>1 DEF AckInv
      <3>3. QED  BY <1>1, <3>1, <3>2
    <2>3. QED  BY <2>1, <2>2
  \* A FIRE_ACK on its way afterwards was so before, or this pass sent it.
  <1>4. ASSUME NEW r \in Requests, NEW accepted \in BOOLEAN, Told(r, accepted)'
        PROVE  \/ Told(r, accepted)
               \/ accepted = TRUE /\ Over(now) /\ Owed(r)
               \/ accepted = FALSE /\ Refused /\ pendingFire = <<r>>
    <2>1. CASE lastAck' = [token |-> r, accepted |-> accepted]
      BY <1>1, <2>1 DEF Told
    <2>2. ASSUME NEW i \in DOMAIN toWrist', toWrist'[i] = FireAck(r, accepted)
          PROVE  \/ Told(r, accepted)
                 \/ accepted = TRUE /\ Over(now) /\ Owed(r)
                 \/ accepted = FALSE /\ Refused /\ pendingFire = <<r>>
      <3>1. CASE i \in DOMAIN toWrist /\ toWrist'[i] = toWrist[i]
        BY <2>2, <3>1 DEF Told
      <3>2. CASE /\ i - Len(toWrist) \in DOMAIN packets
                 /\ toWrist'[i] = packets[i - Len(toWrist)]
        <4>1. packets[i - Len(toWrist)] = FireAck(r, accepted)
              /\ packets[i - Len(toWrist)].msgType = "FIRE_ACK"
          BY <2>2, <3>2 DEF FireAck
        <4>2. \/ /\ Over(now) /\ gAck.pending
                 /\ FireAck(r, accepted) = FireAck(gAck.token, TRUE)
              \/ /\ Refused
                 /\ FireAck(r, accepted) = FireAck(pendingFire[1], FALSE)
          BY <3>2, <4>1, PassAcks
        <4>3. Refused => pendingFire = <<pendingFire[1]>>
          BY FireMailbox DEF Refused
        <4>4. CASE /\ Over(now) /\ gAck.pending
                   /\ FireAck(r, accepted) = FireAck(gAck.token, TRUE)
          <5>1. TRUE \in BOOLEAN
            OBVIOUS
          <5>2. r = gAck.token /\ (accepted <=> TRUE)
            BY <4>4, <5>1, AckFields, Zenon
          <5>3. QED  BY <4>4, <5>2 DEF Owed
        <4>5. CASE /\ Refused
                   /\ FireAck(r, accepted) = FireAck(pendingFire[1], FALSE)
          <5>1. FALSE \in BOOLEAN
            OBVIOUS
          <5>2. r = pendingFire[1] /\ (accepted <=> FALSE)
            BY <4>5, <5>1, AckFields, Zenon
          <5>3. QED  BY <4>3, <4>5, <5>2
        <4>6. QED  BY <4>2, <4>4, <4>5
      <3>3. QED  BY <3>1, <3>2, PassQueue
    <2>3. QED  BY <1>4, <2>1, <2>2 DEF Told
  <1>5. ASSUME NEW r \in Requests \ repeated
        PROVE  AckFacts(r)'
    <2>1. AckFacts(r)
      BY DEF AckInv
    <2>2. /\ UnderWay(r)' <=> UnderWay(r)
          /\ pendingFire' # <<r>>
      BY <1>1 DEF UnderWay
    <2>3. TRUE \in BOOLEAN /\ FALSE \in BOOLEAN
      OBVIOUS
    <2>4. CASE pendingFire = <<r>>
      <3>1. /\ ~UnderWay(r) /\ outcome[r] = "none" /\ ~Owed(r)
            /\ ~Told(r, TRUE) /\ ~Told(r, FALSE)
        BY <2>1, <2>4 DEF AckFacts
      <3>2. ~Told(r, TRUE)'
        BY <1>4, <2>3, <3>1
      <3>3. pendingFire # <<>> /\ pendingFire[1] = r
        BY <2>4
      <3>4. CASE Accepted
        <4>1. outcome'[r] \in {"raised", "joined"}
          BY <1>2, <2>4, <3>4
        <4>2. ~Told(r, FALSE)'
          BY <1>4, <2>3, <3>1, <3>4 DEF Accepted, Refused
        <4>3. QED  BY <2>2, <3>1, <3>2, <4>1, <4>2 DEF AckFacts
      <3>5. CASE ~Accepted
        <4>1. outcome'[r] = "none"
          BY <1>2, <3>1, <3>5
        <4>2. ~gAck'.pending
          <5>1. Refused
            BY <3>3, <3>5 DEF Accepted, Refused
          <5>2. gAck' = [pending |-> FALSE, token |-> pendingFire[1]]
            BY <5>1 DEF PassEffect
          <5>3. QED  BY <5>2
        <4>3. ~Owed(r)'
          BY <4>2 DEF Owed
        <4>4. QED  BY <2>2, <3>1, <3>2, <4>1, <4>3 DEF AckFacts
      <3>6. QED  BY <3>4, <3>5
    <2>5. CASE pendingFire # <<r>>
      <3>1. outcome'[r] = IF Over(now) /\ outcome[r] = "raised" THEN "done"
                          ELSE IF Over(now) /\ outcome[r] = "joined" THEN "shared"
                          ELSE outcome[r]
        BY <1>2, <2>5
      <3>2. Owed(r)' => Owed(r) /\ ~Over(now)
        <4>1. pendingFire # <<>> => r # pendingFire[1]
          BY <2>5, FireMailbox
        <4>2. CASE Accepted
          <5>1. gAck' = [pending |-> TRUE, token |-> pendingFire[1]]
            BY <4>2 DEF PassEffect
          <5>2. QED  BY <4>1, <4>2, <5>1 DEF Owed, Accepted
        <4>3. CASE Refused
          <5>1. gAck' = [pending |-> FALSE, token |-> pendingFire[1]]
            BY <4>3 DEF PassEffect
          <5>2. ~gAck'.pending
            BY <5>1
          <5>3. QED  BY <5>2 DEF Owed
        <4>4. CASE pendingFire = <<>> /\ Over(now)
          <5>1. gAck' = [gAck EXCEPT !.pending = FALSE]
            BY <4>4 DEF PassEffect
          <5>2. ~gAck'.pending
            BY <5>1 DEF TypeOK
          <5>3. QED  BY <5>2 DEF Owed
        <4>5. CASE pendingFire = <<>> /\ ~Over(now)
          <5>1. gAck' = gAck
            BY <4>5 DEF PassEffect
          <5>2. QED  BY <4>5, <5>1 DEF Owed
        <4>6. QED  BY <4>2, <4>3, <4>4, <4>5 DEF Accepted, Refused
      <3>3. /\ Told(r, TRUE)' => Told(r, TRUE) \/ (Over(now) /\ Owed(r))
            /\ Told(r, FALSE)' => Told(r, FALSE)
        <4>1. Told(r, TRUE)' => Told(r, TRUE) \/ (Over(now) /\ Owed(r))
          BY <1>4, <2>3, <2>5
        <4>2. Told(r, FALSE)' => Told(r, FALSE)
          BY <1>4, <2>3, <2>5
        <4>3. QED  BY <4>1, <4>2
      <3>4. QED  BY <2>1, <2>2, <3>1, <3>2, <3>3 DEF AckFacts
    <2>6. QED  BY <2>4, <2>5
  <1>6. \A i, j \in DOMAIN toLauncher' :
          toLauncher'[i].msgType = "FIRE_CMD" /\ toLauncher'[j] = toLauncher'[i] => i = j
    BY <1>1 DEF AckInv
  <1>7. QED  BY <1>1, <1>3, <1>5, <1>6 DEF AckInv

(* A new request has no answer yet and is under way at most once.          *)
LEMMA AckWristPass ==
  ASSUME TypeOK, RadioInv, AckInv, NEW late, NEW typed \in Typed, NEW continuityOk,
         WristPass(late, typed, continuityOk)
  PROVE  AckInv'
  <1>1. PICK at \in Nat :
          /\ requests' \in {requests, requests + 1}
          /\ requests' # requests => confirmed
          /\ toLauncher' \in Seq(UpPackets) /\ Len(toLauncher') <= UPLINK
          /\ Len(toLauncher) <= Len(toLauncher')
          /\ \A i \in DOMAIN toLauncher' :
               \/ i \in DOMAIN toLauncher /\ toLauncher'[i] = toLauncher[i]
               \/ /\ i > Len(toLauncher)
                  /\ \/ toLauncher'[i] = ArmSet(FALSE)
                     \/ toLauncher'[i] = ArmSet(TRUE) /\ armSent'
                     \/ /\ toLauncher'[i] = FireCmd(requests') /\ i = at
                        /\ requests' = requests + 1
    BY WristSends
  <1>2. UNCHANGED <<igniter, gAck, pendingFire, lastAck, toWrist, outcome, repeated>>
    BY DEF WristPass, launcherVars
  <1>3. requests \in Nat /\ requests + 1 \notin Sent
    <2>1. requests \in Nat
      BY FireMailbox
    <2>2. QED  BY <2>1 DEF Sent
  \* A FIRE_CMD in the queue is an old one, or the one just sent.
  <1>4. ASSUME NEW i \in DOMAIN toLauncher', toLauncher'[i].msgType = "FIRE_CMD"
        PROVE  \/ /\ i \in DOMAIN toLauncher /\ toLauncher'[i] = toLauncher[i]
                  /\ toLauncher'[i].token \in Sent
               \/ /\ i = at /\ toLauncher'[i] = FireCmd(requests + 1)
                  /\ toLauncher'[i].token = requests + 1
    <2>1. CASE i \in DOMAIN toLauncher /\ toLauncher'[i] = toLauncher[i]
      BY <1>4, <2>1 DEF RadioInv
    <2>2. CASE \E arm : toLauncher'[i] = ArmSet(arm)
      BY <1>4, <2>2 DEF ArmSet
    <2>3. CASE /\ toLauncher'[i] = FireCmd(requests') /\ i = at
               /\ requests' = requests + 1
      BY <2>3 DEF FireCmd
    <2>4. QED  BY <1>1, <2>1, <2>2, <2>3
  <1>5. ASSUME NEW i \in DOMAIN toLauncher', NEW j \in DOMAIN toLauncher',
               toLauncher'[i].msgType = "FIRE_CMD", toLauncher'[j] = toLauncher'[i]
        PROVE  i = j
    <2>1. CASE i \in DOMAIN toLauncher /\ toLauncher'[i] = toLauncher[i]
               /\ j \in DOMAIN toLauncher /\ toLauncher'[j] = toLauncher[j]
      BY <1>5, <2>1 DEF AckInv
    <2>2. CASE i = at /\ j = at
      BY <2>2
    <2>3. QED  BY <1>3, <1>4, <1>5, <2>1, <2>2
  <1>6. ASSUME NEW r \in Requests \ repeated
        PROVE  AckFacts(r)'
    <2>1. AckFacts(r)
      BY DEF AckInv
    <2>2. UnderWay(r)' => UnderWay(r) \/ r = requests + 1
      <3>1. SUFFICES ASSUME NEW i \in DOMAIN toLauncher', toLauncher'[i] = FireCmd(r)
                     PROVE  UnderWay(r) \/ r = requests + 1
        BY DEF UnderWay
      <3>2. toLauncher'[i].msgType = "FIRE_CMD" /\ toLauncher'[i].token = r
        BY <3>1 DEF FireCmd
      <3>3. QED  BY <1>4, <3>1, <3>2 DEF UnderWay
    <2>3. /\ Owed(r)' <=> Owed(r)
          /\ \A accepted : Told(r, accepted)' <=> Told(r, accepted)
      BY <1>2 DEF Owed, Told
    <2>4. CASE r \in Sent
      <3>1. UnderWay(r)' => UnderWay(r)
        BY <1>3, <2>2, <2>4
      <3>2. QED  BY <1>2, <2>1, <2>3, <3>1 DEF AckFacts
    <2>5. CASE r \notin Sent
      <3>1. /\ pendingFire # <<r>> /\ outcome[r] = "none" /\ ~Owed(r)
        BY <2>5, FireMailbox DEF RadioInv, Owed
      <3>2. ASSUME NEW accepted  PROVE ~Told(r, accepted)
        <4>1. FireAck(r, accepted).msgType = "FIRE_ACK"
              /\ FireAck(r, accepted).token = r
          BY DEF FireAck
        <4>2. \A i \in DOMAIN toWrist : toWrist[i] # FireAck(r, accepted)
          BY <2>5, <4>1 DEF RadioInv
        <4>3. lastAck # [token |-> r, accepted |-> accepted]
          <5>1. lastAck.token # r
            BY <2>5, FireMailbox DEF RadioInv
          <5>2. QED  BY <5>1
        <4>4. QED  BY <4>2, <4>3 DEF Told
      <3>3. ~Told(r, TRUE) /\ ~Told(r, FALSE)
        BY <3>2
      <3>4. QED  BY <1>2, <2>3, <3>1, <3>3 DEF AckFacts
    <2>6. QED  BY <2>4, <2>5
  <1>7. QED  BY <1>2, <1>5, <1>6 DEF AckInv

\* Of a queue that only gets shorter the commands stay distinct.
LEMMA AckRest ==
  ASSUME TypeOK, RadioInv, AckInv, NEW again \in BOOLEAN, toLauncher # <<>>,
         toLauncher' = Rest(toLauncher, again)
  PROVE  /\ \A i, j \in DOMAIN toLauncher' :
              toLauncher'[i].msgType = "FIRE_CMD" /\ toLauncher'[j] = toLauncher'[i]
                => i = j
         /\ \A r : UnderWay(r)' => UnderWay(r)
         /\ 1 \in DOMAIN toLauncher /\ Head(toLauncher) = toLauncher[1]
         /\ toLauncher[1] \in UpPackets
         /\ again => toLauncher' = toLauncher
         /\ ~again => \A r : toLauncher[1] = FireCmd(r) => ~UnderWay(r)'
  <1>1. toLauncher \in Seq(UpPackets)
    BY DEF RadioInv
  <1>2. /\ toLauncher' \in Seq(UpPackets)
        /\ 1 \in DOMAIN toLauncher /\ Head(toLauncher) = toLauncher[1]
        /\ toLauncher[1] \in UpPackets
        /\ again => toLauncher' = toLauncher
        /\ ~again => \A i \in DOMAIN toLauncher' : i + 1 \in DOMAIN toLauncher
                        /\ toLauncher'[i] = toLauncher[i + 1]
    BY <1>1, RestEffect
  <1>3. \A i \in DOMAIN toLauncher' : i \in Nat \ {0}
    <2>1. DOMAIN toLauncher' = 1 .. Len(toLauncher') /\ Len(toLauncher') \in Nat
      BY <1>2, LenProperties, Zenon
    <2>2. QED  BY <2>1
  <1>4. CASE again
    <2>1. toLauncher' = toLauncher
      BY <1>2, <1>4
    <2>2. \A r : UnderWay(r)' => UnderWay(r)
      BY <2>1 DEF UnderWay
    <2>3. \A i, j \in DOMAIN toLauncher' :
            toLauncher'[i].msgType = "FIRE_CMD" /\ toLauncher'[j] = toLauncher'[i]
              => i = j
      BY <2>1 DEF AckInv
    <2>4. QED  BY <1>2, <1>4, <2>1, <2>2, <2>3
  <1>5. CASE ~again
    <2>1. \A i \in DOMAIN toLauncher' :
            i + 1 \in DOMAIN toLauncher /\ toLauncher'[i] = toLauncher[i + 1]
      BY <1>2, <1>5
    <2>2. ASSUME NEW i \in DOMAIN toLauncher', NEW j \in DOMAIN toLauncher',
                 toLauncher'[i].msgType = "FIRE_CMD", toLauncher'[j] = toLauncher'[i]
          PROVE  i = j
      <3>1. i + 1 = j + 1
        BY <2>1, <2>2 DEF AckInv
      <3>2. QED  BY <1>3, <3>1
    <2>3. \A r : UnderWay(r)' => UnderWay(r)
      BY <2>1 DEF UnderWay
    <2>4. ASSUME NEW r, toLauncher[1] = FireCmd(r), NEW i \in DOMAIN toLauncher',
                 toLauncher'[i] = FireCmd(r)
          PROVE  FALSE
      <3>1. FireCmd(r).msgType = "FIRE_CMD"
        BY DEF FireCmd
      <3>2. i + 1 = 1
        BY <1>2, <2>1, <2>4, <3>1 DEF AckInv
      <3>3. QED  BY <1>3, <3>2
    <2>5. \A r : toLauncher[1] = FireCmd(r) => ~UnderWay(r)'
      BY <2>4 DEF UnderWay
    <2>6. QED  BY <1>2, <1>5, <2>2, <2>3, <2>5
  <1>6. QED  BY <1>4, <1>5

\* A FIRE_CMD that is repeated tells nothing any more; one that is not leaves the
\* queue for the mailbox.
LEMMA AckToLauncher ==
  ASSUME TypeOK, RadioInv, AckInv, NEW again \in BOOLEAN, ToLauncher(again)
  PROVE  AckInv'
  <1> DEFINE p == toLauncher[1]
  <1>1. /\ toLauncher # <<>> /\ toLauncher' = Rest(toLauncher, again)
        /\ UNCHANGED <<igniter, gAck, lastAck, toWrist, outcome>>
    BY DEF ToLauncher, wristVars
  <1>2. /\ \A i, j \in DOMAIN toLauncher' :
             toLauncher'[i].msgType = "FIRE_CMD" /\ toLauncher'[j] = toLauncher'[i]
               => i = j
        /\ \A r : UnderWay(r)' => UnderWay(r)
        /\ 1 \in DOMAIN toLauncher /\ Head(toLauncher) = p /\ p \in UpPackets
        /\ ~again => \A r : p = FireCmd(r) => ~UnderWay(r)'
    BY <1>1, AckRest
  <1>3. /\ pendingFire' = IF p.msgType = "FIRE_CMD" THEN <<p.token>> ELSE pendingFire
        /\ repeated' = IF again /\ p.msgType = "FIRE_CMD"
                       THEN repeated \cup {p.token} ELSE repeated
    BY <1>2 DEF ToLauncher
  <1>4. \A r : p = FireCmd(r) => UnderWay(r)
    BY <1>2 DEF UnderWay
  <1> HIDE DEF p
  <1>5. ASSUME NEW r \in Requests \ repeated'
        PROVE  AckFacts(r)'
    <2>1. AckFacts(r)
      BY <1>3, <1>5 DEF AckInv
    <2>2. /\ Owed(r)' <=> Owed(r)
          /\ \A accepted : Told(r, accepted)' <=> Told(r, accepted)
      BY <1>1 DEF Owed, Told
    <2>3. UnderWay(r)' => UnderWay(r)
      BY <1>2
    <2>4. CASE p = FireCmd(r)
      <3>1. p.msgType = "FIRE_CMD" /\ p.token = r
        BY <2>4 DEF FireCmd
      <3>2. ~again
        BY <1>3, <1>5, <3>1
      <3>3. ~UnderWay(r)'
        BY <1>2, <2>4, <3>2
      <3>4. UnderWay(r)
        BY <1>4, <2>4
      <3>5. outcome[r] = "none" /\ ~Owed(r) /\ ~Told(r, TRUE) /\ ~Told(r, FALSE)
        BY <2>1, <3>4 DEF AckFacts
      <3>6. QED  BY <1>1, <2>2, <3>3, <3>5 DEF AckFacts
    <2>5. CASE p # FireCmd(r)
      <3>1. pendingFire' = <<r>> => pendingFire = <<r>>
        <4>1. CASE \E arm \in BOOLEAN : p = ArmSet(arm)
          BY <1>3, <4>1 DEF ArmSet
        <4>2. ASSUME NEW n \in Requests, p = FireCmd(n)
              PROVE  pendingFire' # <<r>>
          <5>1. pendingFire' = <<n>> /\ n # r
            BY <1>3, <2>5, <4>2 DEF FireCmd
          <5>2. QED  BY <5>1
        <4>3. QED  BY <1>2, <4>1, <4>2, UpPacketKinds
      <3>2. QED  BY <1>1, <2>1, <2>2, <2>3, <3>1 DEF AckFacts
    <2>6. QED  BY <2>4, <2>5
  <1>6. \A r \in Requests : outcome'[r] \in {"raised", "joined"} => igniter'.active
    BY <1>1 DEF AckInv
  <1>7. QED  BY <1>2, <1>5, <1>6 DEF AckInv

(* A lost FIRE_CMD is under way no longer.                                 *)
LEMMA AckLoseToLauncher ==
  ASSUME TypeOK, RadioInv, AckInv, LoseToLauncher
  PROVE  AckInv'
  <1>1. /\ toLauncher # <<>> /\ toLauncher' = Rest(toLauncher, FALSE)
        /\ FALSE \in BOOLEAN
        /\ UNCHANGED <<igniter, gAck, pendingFire, lastAck, toWrist, outcome, repeated>>
    BY DEF LoseToLauncher, Rest, launcherVars, wristVars
  <1>2. /\ \A i, j \in DOMAIN toLauncher' :
             toLauncher'[i].msgType = "FIRE_CMD" /\ toLauncher'[j] = toLauncher'[i]
               => i = j
        /\ \A r : UnderWay(r)' => UnderWay(r)
    BY <1>1, AckRest
  <1>3. ASSUME NEW r \in Requests \ repeated
        PROVE  AckFacts(r)'
    <2>1. AckFacts(r)
      BY DEF AckInv
    <2>2. /\ Owed(r)' <=> Owed(r)
          /\ \A accepted : Told(r, accepted)' <=> Told(r, accepted)
      BY <1>1 DEF Owed, Told
    <2>3. QED  BY <1>1, <1>2, <2>1, <2>2 DEF AckFacts
  <1>4. QED  BY <1>1, <1>2, <1>3 DEF AckInv

\* What the wrist is told, it was told before or has been on its way.
LEMMA AckTold ==
  ASSUME TypeOK, RadioInv, AckInv,
         UNCHANGED <<igniter, gAck, pendingFire, toLauncher, outcome, repeated>>,
         \A r, accepted : Told(r, accepted)' => Told(r, accepted)
  PROVE  AckInv'
  <1>1. ASSUME NEW r \in Requests \ repeated
        PROVE  AckFacts(r)'
    <2>1. AckFacts(r)
      BY DEF AckInv
    <2>2. (UnderWay(r)' <=> UnderWay(r)) /\ (Owed(r)' <=> Owed(r))
      BY DEF UnderWay, Owed
    <2>3. QED  BY <2>1, <2>2 DEF AckFacts
  <1>2. QED  BY <1>1 DEF AckInv

(* An ack that arrives tells what it told on the way.                      *)
LEMMA AckToWrist ==
  ASSUME TypeOK, RadioInv, AckInv, NEW again \in BOOLEAN, ToWrist(again)
  PROVE  AckInv'
  <1> DEFINE p == toWrist[1]
  <1>1. /\ toWrist # <<>> /\ toWrist' = Rest(toWrist, again)
        /\ UNCHANGED <<igniter, gAck, pendingFire, toLauncher, outcome, repeated>>
    BY DEF ToWrist, launcherVars, ghostVars
  <1>2. /\ 1 \in DOMAIN toWrist /\ Head(toWrist) = p /\ p \in DownPackets
        /\ again => toWrist' = toWrist
        /\ ~again => \A i \in DOMAIN toWrist' : i + 1 \in DOMAIN toWrist
                        /\ toWrist'[i] = toWrist[i + 1]
    BY <1>1, DownlinkRest
  <1>3. lastAck' = IF p.msgType = "FIRE_ACK"
                   THEN [token |-> p.token, accepted |-> p.accepted] ELSE lastAck
    BY <1>2 DEF ToWrist
  <1>4. p.msgType = "FIRE_ACK" => p = FireAck(p.token, p.accepted)
    BY <1>2 DEF DownPackets, FireAck
  <1>5. \A i \in DOMAIN toWrist' : \E j \in DOMAIN toWrist : toWrist'[i] = toWrist[j]
    BY <1>2
  <1>6. ASSUME NEW r, NEW accepted, Told(r, accepted)'
        PROVE  Told(r, accepted)
    <2>1. CASE \E i \in DOMAIN toWrist' : toWrist'[i] = FireAck(r, accepted)
      BY <1>5, <2>1 DEF Told
    <2>2. CASE lastAck' = [token |-> r, accepted |-> accepted]
      <3>1. CASE p.msgType = "FIRE_ACK"
        <4>1. [token |-> p.token, accepted |-> p.accepted]
                = [token |-> r, accepted |-> accepted]
          BY <1>3, <2>2, <3>1
        <4>2. p.token = r /\ p.accepted = accepted
          BY <4>1
        <4>3. p = FireAck(r, accepted)
          BY <1>4, <3>1, <4>2
        <4>4. QED  BY <1>2, <4>3 DEF Told
      <3>2. CASE p.msgType # "FIRE_ACK"
        BY <1>3, <2>2, <3>2 DEF Told
      <3>3. QED  BY <3>1, <3>2
    <2>3. QED  BY <1>6, <2>1, <2>2 DEF Told
  <1>7. QED  BY <1>1, <1>6, AckTold

(* A lost ack tells nothing more.                                          *)
LEMMA AckLoseToWrist ==
  ASSUME TypeOK, RadioInv, AckInv, LoseToWrist
  PROVE  AckInv'
  <1>1. /\ toWrist # <<>> /\ toWrist' = Rest(toWrist, FALSE)
        /\ UNCHANGED <<igniter, gAck, pendingFire, toLauncher, outcome, repeated,
                       lastAck>>
    BY DEF LoseToWrist, Rest, launcherVars, wristVars
  <1>2. \A i \in DOMAIN toWrist' : i + 1 \in DOMAIN toWrist
                                   /\ toWrist'[i] = toWrist[i + 1]
    BY <1>1, NewestStatus
  <1>3. \A r, accepted : Told(r, accepted)' => Told(r, accepted)
    BY <1>1, <1>2 DEF Told
  <1>4. QED  BY <1>1, <1>3, AckTold

(* A reboot loses all that is under way, and an ack that arrived stays     *)
(* true.                                                                   *)
LEMMA AckReboot ==
  ASSUME TypeOK, RadioInv, AckInv, LauncherReboot \/ WristReboot
  PROVE  AckInv'
  <1>1. toLauncher' = <<>> /\ toWrist' = <<>> /\ repeated' = repeated
    BY DEF LauncherReboot, WristReboot
  <1>2. DOMAIN toLauncher' = {} /\ DOMAIN toWrist' = {}
    BY <1>1
  <1>3. \A r : ~UnderWay(r)'
    BY <1>2 DEF UnderWay
  <1>4. CASE LauncherReboot
    <2>1. /\ lastAck' = lastAck /\ pendingFire' = <<>> /\ ~gAck'.pending
          /\ \A r \in Requests :
               outcome'[r] = IF outcome[r] \in {"raised", "joined"} THEN "cut"
                             ELSE outcome[r]
      BY <1>4 DEF LauncherReboot, wristVars
    <2>2. ASSUME NEW r \in Requests \ repeated
          PROVE  AckFacts(r)'
      <3>1. AckFacts(r)
        BY DEF AckInv
      <3>2. ~Owed(r)' /\ pendingFire' # <<r>>
        BY <2>1 DEF Owed
      <3>3. \A accepted : Told(r, accepted)' => Told(r, accepted)
        BY <1>2, <2>1 DEF Told
      <3>4. QED  BY <1>3, <2>1, <3>1, <3>2, <3>3 DEF AckFacts
    <2>3. \A r \in Requests : outcome'[r] \notin {"raised", "joined"}
      BY <2>1
    <2>4. QED  BY <1>1, <1>2, <2>2, <2>3 DEF AckInv
  <1>5. CASE WristReboot
    <2>1. /\ UNCHANGED <<igniter, gAck, pendingFire, outcome>>
          /\ lastAck'.token = 0
      BY <1>5 DEF WristReboot, WristBoot, launcherVars
    <2>2. ASSUME NEW r \in Requests \ repeated
          PROVE  AckFacts(r)'
      <3>1. AckFacts(r)
        BY DEF AckInv
      <3>2. Owed(r)' <=> Owed(r)
        BY <2>1 DEF Owed
      <3>3. lastAck'.token # r
        BY <2>1, FireMailbox
      <3>4. ASSUME NEW accepted  PROVE ~Told(r, accepted)'
        BY <1>2, <3>3 DEF Told
      <3>5. ~Told(r, TRUE)' /\ ~Told(r, FALSE)'
        BY <3>4
      <3>6. QED  BY <1>3, <2>1, <3>1, <3>2, <3>5 DEF AckFacts
    <2>3. QED  BY <1>1, <1>2, <2>1, <2>2 DEF AckInv
  <1>6. QED  BY <1>4, <1>5

(* One case per action, by the lemmas above.                               *)
LEMMA AckStep ==
  ASSUME TypeOK, RadioInv, AckInv, [Next]_vars
  PROVE  AckInv'
  <1>1. ASSUME NEW now, NEW packets, PassEffect(now, packets)
        PROVE  AckInv'
    BY <1>1, AckPass
  <1>2. ASSUME NEW late \in {FALSE, gLink.online}, NEW typed \in Typed,
               NEW continuityOk, WristPass(late, typed, continuityOk)
        PROVE  AckInv'
    BY <1>2, AckWristPass
  <1>3. ASSUME NEW again \in BOOLEAN, ToLauncher(again)
        PROVE  AckInv'
    BY <1>3, AckToLauncher
  <1>4. ASSUME NEW again \in BOOLEAN, ToWrist(again)
        PROVE  AckInv'
    BY <1>4, AckToWrist
  <1>5. CASE LoseToLauncher
    BY <1>5, AckLoseToLauncher
  <1>6. CASE LoseToWrist
    BY <1>6, AckLoseToWrist
  <1>7. CASE LauncherReboot \/ WristReboot
    BY <1>7, AckReboot
  <1>8. ASSUME UNCHANGED <<igniter, gAck, pendingFire, toLauncher, toWrist, lastAck,
                           outcome, repeated>>
        PROVE  AckInv'
    <2>1. \A r, accepted : Told(r, accepted)' => Told(r, accepted)
      BY <1>8 DEF Told
    <2>2. QED  BY <1>8, <2>1, AckTold
  <1>9. CASE Confirm
    BY <1>8, <1>9 DEF Confirm, launcherVars, radioVars, ghostVars
  <1>10. CASE UNCHANGED vars
    BY <1>8, <1>10 DEF vars, launcherVars, wristVars, radioVars, ghostVars
  <1>11. QED
    BY <1>1, <1>2, <1>3, <1>4, <1>5, <1>6, <1>7, <1>9, <1>10, Steps

(* The last FIRE_ACK says whether its request had its pulse, unless the    *)
(* radio repeated that request.                                            *)
THEOREM AckIsTruthfulHolds == Spec => []AckIsTruthful
  <1>1. Init => AckInv
    <2> SUFFICES ASSUME Init  PROVE AckInv
      OBVIOUS
    <2>1. DOMAIN toLauncher = {} /\ DOMAIN toWrist = {}
      BY DEF Init
    <2>2. /\ \A r \in Requests : outcome[r] = "none"
          /\ pendingFire = <<>> /\ ~gAck.pending /\ lastAck.token = 0
      BY DEF Init, WristBoot
    <2>3. ASSUME NEW r \in Requests  PROVE AckFacts(r)
      <3>1. ~UnderWay(r) /\ ~Owed(r) /\ pendingFire # <<r>>
        BY <2>1, <2>2 DEF UnderWay, Owed
      <3>2. lastAck.token # r
        BY <2>2, TacComAssumption DEF Requests
      <3>3. ASSUME NEW accepted  PROVE ~Told(r, accepted)
        BY <2>1, <3>2 DEF Told
      <3>4. ~Told(r, TRUE) /\ ~Told(r, FALSE)
        BY <3>3
      <3>5. QED  BY <2>2, <3>1, <3>4 DEF AckFacts
    <2>4. QED  BY <2>1, <2>2, <2>3 DEF AckInv
  <1>2. TypeOK /\ RadioInv /\ AckInv /\ [Next]_vars => AckInv'
    BY AckStep
  <1>3. TypeOK /\ RadioInv /\ AckInv => AckIsTruthful
    <2> SUFFICES ASSUME TypeOK, RadioInv, AckInv,
                        lastAck.token # 0, lastAck.token \notin repeated
                 PROVE  outcome[lastAck.token] \in
                          IF lastAck.accepted THEN {"done", "shared"} ELSE {"none"}
      BY DEF AckIsTruthful
    <2> DEFINE r == lastAck.token
    <2>1. r \in Requests
      BY FireMailbox DEF RadioInv
    <2>2. AckFacts(r)
      BY <2>1 DEF AckInv
    <2>3. lastAck = [token |-> r, accepted |-> lastAck.accepted]
          /\ lastAck.accepted \in BOOLEAN
      BY DEF TypeOK
    <2>4. Told(r, lastAck.accepted)
      BY <2>3 DEF Told
    <2> HIDE DEF r
    <2>5. CASE lastAck.accepted = TRUE
      <3>1. Told(r, TRUE)
        BY <2>4, <2>5
      <3>2. outcome[r] \in {"done", "shared"}
        BY <2>2, <3>1 DEF AckFacts
      <3>3. QED  BY <2>5, <3>2 DEF r
    <2>6. CASE lastAck.accepted = FALSE
      <3>1. Told(r, FALSE)
        BY <2>4, <2>6
      <3>2. outcome[r] = "none"
        BY <2>2, <3>1 DEF AckFacts
      <3>3. QED  BY <2>6, <3>2 DEF r
    <2>7. QED  BY <2>3, <2>5, <2>6
  <1>4. QED  BY <1>1, <1>2, <1>3, TypeCorrect, PTL DEF Spec
=============================================================================
