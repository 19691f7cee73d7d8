------------------------------ MODULE RadioLink ------------------------------
(***************************************************************************)
(* The launcher's two mailboxes (lib/launcher_core/radio_link), access by  *)
(* access: onRecv of the WiFi task fills s_pendingArm and s_pendingFire,   *)
(* loop() tests, copies and clears them on the other core, and neither     *)
(* takes a lock.  Both structs are volatile, so each task's accesses keep  *)
(* the order of the program; memset in radio_link_init may zero the fields *)
(* in any order.                                                           *)
(*                                                                         *)
(* A mailbox is its flag `valid` and the one field that decides anything,  *)
(* here `value`: arm of an ARM_SET and requestToken of a FIRE_CMD.  The    *)
(* rest is stored for the log.  Module Launcher treats a mailbox as one    *)
(* variable; this module shows what that leaves out.                       *)
(***************************************************************************)
EXTENDS Packets, Sequences

CONSTANTS
    Tokens,          \* requestToken values of FIRE_CMD packets
    Junk             \* the payload of a packet the wrist did not send

ASSUME RadioLinkAssumption ==
    /\ Tokens \subseteq Nat \ {0}
    /\ Junk \in Nat \ (Tokens \cup {0, 1})

VARIABLES
    box,             \* s_pendingArm and s_pendingFire, by message type
    rx,              \* the stores onRecv has still to do, in order
    at,              \* where loop() (or setup) is: <<mailbox, next access>>
    wiped            \* the fields memset has zeroed in radio_link_init

\* What an observer would record; read by properties only.
VARIABLES
    newest,          \* by mailbox: the value accepted last
    early,           \* mailboxes whose newest command came before the memset ended
    unprocessed      \* by mailbox: values accepted since it was last cleared

ghostVars == <<newest, early, unprocessed>>
vars == <<box, rx, at, wiped, ghostVars>>

Commands == {"ARM_SET", "FIRE_CMD"}
Values(t) == IF t = "ARM_SET" THEN {0, 1} ELSE Tokens    \* 1 = arm, 0 = disarm
Box(t) == [valid : BOOLEAN, value : Values(t) \cup {0}]

AllWiped == Commands \X {"valid", "value"}

\* The statics are zero at boot; the callback is registered before the memset.
Init ==
    /\ box = [t \in Commands |-> [valid |-> FALSE, value |-> 0]]
    /\ rx = <<>>
    /\ at = <<"setup", "memset">> /\ wiped = {}
    /\ newest = [t \in Commands |-> 0] /\ early = {}
    /\ unprocessed = [t \in Commands |-> {}]

Reboot ==
    /\ box' = [t \in Commands |-> [valid |-> FALSE, value |-> 0]]
    /\ rx' = <<>>
    /\ at' = <<"setup", "memset">> /\ wiped' = {}
    /\ newest' = [t \in Commands |-> 0] /\ early' = {}
    /\ unprocessed' = [t \in Commands |-> {}]
-----------------------------------------------------------------------------
(* The receive callback. *)

\* What the wrist sends, and what the radio may hand to onRecv: packets that the
\* wrist did not send so, with a payload it never sends.  A packet that is not
\* accepted, and a HEARTBEAT, which is only logged, change nothing.
GenuinePackets ==
    (UNION {{Packet("WRIST", t, v) : v \in Values(t)} : t \in Commands})
    \cup {Packet("WRIST", "HEARTBEAT", 0)}
Air ==
    GenuinePackets
    \cup (UNION {Deviations(Packet("WRIST", t, Junk)) : t \in Commands \cup {"HEARTBEAT"}})

\* The checks of onRecv, without and with the CRC.
AcceptedUnchecked(p, t) ==
    /\ p.mac = "WRIST"
    /\ p.magic = PACKET_MAGIC /\ p.version = PROTOCOL_VERSION
    /\ p.msgType = t /\ p.len = PacketSize(t)
Accepted(p, t) ==
    /\ p.mac = "WRIST"
    /\ p.len >= HeaderSize + 4
    /\ p.magic = PACKET_MAGIC /\ p.version = PROTOCOL_VERSION
    /\ p.intact
    /\ p.msgType = t /\ p.len = PacketSize(t)

\* The stores for a command, as they are and as if a full mailbox were kept.
Decoded(t, payload) == IF t = "ARM_SET" /\ payload # 0 THEN 1 ELSE payload
StoresIfEmpty(t, payload) ==
    IF box[t].valid THEN <<>>
    ELSE <<[box |-> t, field |-> "valid", value |-> TRUE],
           [box |-> t, field |-> "value", value |-> Decoded(t, payload)]>>
Stores(t, payload) ==
    <<[box |-> t, field |-> "valid", value |-> TRUE],
      [box |-> t, field |-> "value", value |-> Decoded(t, payload)]>>
\* onRecv of an ARM_SET or FIRE_CMD.  An observer only counts what the wrist
\* really sent.
Recv(p, t) ==
    /\ rx = <<>>
    /\ Accepted(p, t)
    /\ rx' = Stores(t, p.payload)
    /\ IF p \in GenuinePackets
       THEN /\ newest' = [newest EXCEPT ![t] = p.payload]
            /\ early' = IF at = <<"setup", "memset">> THEN early \cup {t}
                        ELSE early \ {t}
            /\ unprocessed' = [unprocessed EXCEPT ![t] = @ \cup {p.payload}]
       ELSE UNCHANGED ghostVars
    /\ UNCHANGED <<box, at, wiped>>

\* The next store reaches memory.
RxStore ==
    /\ rx # <<>>
    /\ box' = [box EXCEPT ![Head(rx).box][Head(rx).field] = Head(rx).value]
    /\ rx' = Tail(rx)
    /\ UNCHANGED <<at, wiped, ghostVars>>

\* onRecv is storing a command in mailbox t, and its value if not yet flagged.
Storing(t) == rx # <<>> /\ Head(rx).box = t
Unflagged(t) ==
    IF Storing(t) /\ Head(rx).field = "valid" THEN {rx[2].value} ELSE {}
-----------------------------------------------------------------------------
(* The loop task. *)

\* memset in radio_link_init: one field; when all are zero, loop() begins.
MemsetField(t, f) ==
    /\ at = <<"setup", "memset">> /\ <<t, f>> \notin wiped
    /\ box' = [box EXCEPT ![t][f] = IF f = "valid" THEN FALSE ELSE 0]
    /\ wiped' = wiped \cup {<<t, f>>}
    /\ at' = IF wiped' = AllWiped THEN <<"ARM_SET", "test">> ELSE at
    /\ unprocessed' = IF f = "valid"
                      THEN [unprocessed EXCEPT ![t] = Unflagged(t)] ELSE unprocessed
    /\ UNCHANGED <<rx, newest, early>>

\* The stage of loop() after the one that serves mailbox t.
Following(t) == IF t = "ARM_SET" THEN <<"FIRE_CMD", "test">>
                ELSE <<"ARM_SET", "test">>

\* radio_link_hasPendingArm and radio_link_hasPendingFire.
hasPending(t) ==
    /\ at = <<t, "test">>
    /\ at' = IF box[t].valid THEN <<t, "copy">> ELSE Following(t)
    /\ UNCHANGED <<box, rx, wiped, ghostVars>>

\* radio_link_getPendingArm and the memcpy of radio_link_consumePendingFire;
\* box[t].value is the command that loop() then processes.
getPending(t) ==
    /\ at = <<t, "copy">>
    /\ at' = <<t, "clear">>
    /\ UNCHANGED <<box, rx, wiped, ghostVars>>

\* radio_link_consumePendingArm and the end of radio_link_consumePendingFire.
KeepFlag(b) == b
ClearFlag(b) == [b EXCEPT !.valid = FALSE]
consumePending(t) ==
    /\ at = <<t, "clear">>
    /\ box' = [box EXCEPT ![t] = ClearFlag(@)]
    /\ at' = Following(t)
    /\ unprocessed' = [unprocessed EXCEPT ![t] = Unflagged(t)]
    /\ UNCHANGED <<rx, wiped, newest, early>>
-----------------------------------------------------------------------------
LoopStep ==
    \E t \in Commands :
       \/ \E f \in {"valid", "value"} : MemsetField(t, f)
       \/ hasPending(t)
       \/ getPending(t)
       \/ consumePending(t)

Next ==
    \/ \E p \in Air, t \in Commands : Recv(p, t)
    \/ RxStore
    \/ LoopStep
    \/ Reboot

Spec == Init /\ [][Next]_vars

\* The loop task runs again and again, and a callback that began ends.
FairSpec == Spec /\ WF_vars(LoopStep) /\ WF_vars(RxStore)
-----------------------------------------------------------------------------
(* Type correctness. *)
TypeOK ==
    /\ box \in [Commands -> [valid : BOOLEAN, value : Nat]]
    /\ \A t \in Commands : box[t] \in Box(t)
    /\ \/ rx = <<>>
       \/ \E t \in Commands : \E v \in Values(t) :
             rx \in {Stores(t, v), Tail(Stores(t, v))}
    /\ at \in {<<"setup", "memset">>} \cup (Commands \X {"test", "copy", "clear"})
    /\ wiped \subseteq AllWiped
    /\ newest \in [Commands -> Nat] /\ early \subseteq Commands
    /\ unprocessed \in [Commands -> SUBSET Nat]

(* A command is processed at most once for each packet of the wrist, and   *)
(* never for a damaged or foreign one: the flag that one core sets and the *)
(* other clears does not come back for a packet already consumed or wiped. *)
OncePerPacket ==
    [][\A t \in Commands : getPending(t) => unprocessed[t] # {}]_vars

(* radio_link.cpp:16: "If a second command arrives before the first is     *)
(* consumed, it overwrites."  Between two runs of the callback a full      *)
(* mailbox holds the newest command.  Only one that began to arrive before *)
(* the memset ended may have lost its value with its flag left set, and    *)
(* then it reads 0: an ARM_SET that disarms, a FIRE_CMD that names no      *)
(* request, never an older command or another.                             *)
NewestWins ==
    rx = <<>> =>
      \A t \in Commands : box[t].valid =>
         \/ box[t].value = newest[t]
         \/ t \in early /\ box[t].value = 0

(* A full mailbox is emptied: commands are not left behind.                *)
MailboxesDrain == \A t \in Commands : box[t].valid ~> ~box[t].valid

(* radio_link.cpp: "Pending commands - set in receive callback, consumed   *)
(* in loop()".  loop() processes an ARM_SET(true) only if one has arrived  *)
(* since it last consumed an ARM_SET.                                      *)
OnlyPendingArms ==
    at = <<"ARM_SET", "copy">> /\ box["ARM_SET"].value = 1 =>
       1 \in unprocessed["ARM_SET"]
=============================================================================
