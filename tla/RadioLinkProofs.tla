--------------------------- MODULE RadioLinkProofs ---------------------------
(***************************************************************************)
(* Theorems about RadioLink, for every set of request tokens.              *)
(***************************************************************************)
EXTENDS RadioLink, TLAPS

(* Each thing that can be wrong with a packet fails a check of onRecv.      *)
LEMMA DeviationRefused ==
  ASSUME NEW m \in {"ARM_SET", "FIRE_CMD", "HEARTBEAT"}, NEW w,
         NEW p \in Deviations(Packet("WRIST", m, w)), NEW t \in Commands
  PROVE  ~Accepted(p, t)
  <1> DEFINE q == Packet("WRIST", m, w)
  <1>1. PacketSize("ARM_SET") = 24 /\ PacketSize("FIRE_CMD") = 28
        /\ PacketSize("HEARTBEAT") = 24
    BY DEF PacketSize, HeaderSize, PayloadSize
  <1>2. q = [mac |-> "WRIST", len |-> PacketSize(m), magic |-> 167, version |-> 1,
             msgType |-> m, intact |-> TRUE, payload |-> w]
    BY DEF Packet, PACKET_MAGIC, PROTOCOL_VERSION
  <1>3. CASE p = [q EXCEPT !.mac = "STRANGER"]
    BY <1>2, <1>3 DEF Accepted
  <1>4. CASE p = [q EXCEPT !.len = HeaderSize + 3]
    BY <1>2, <1>4 DEF Accepted, HeaderSize
  <1>5. CASE p = [q EXCEPT !.len = @ + 1]
    <2>1. p.len = PacketSize(m) + 1 /\ p.msgType = m
      BY <1>2, <1>5
    <2> QED  BY <1>1, <2>1 DEF Accepted, Commands
  <1>6. CASE p = [q EXCEPT !.intact = FALSE]
    BY <1>2, <1>6 DEF Accepted
  <1>7. CASE p = [q EXCEPT !.magic = 0]
    BY <1>2, <1>7 DEF Accepted, PACKET_MAGIC
  <1>8. CASE p = [q EXCEPT !.version = 2]
    BY <1>2, <1>8 DEF Accepted, PROTOCOL_VERSION
  <1>9. CASE p = [q EXCEPT !.msgType = "OTHER"]
    BY <1>2, <1>9 DEF Accepted, Commands
  <1> QED  BY <1>3, <1>4, <1>5, <1>6, <1>7, <1>8, <1>9 DEF Deviations

(* Only what the wrist itself sent passes the checks of onRecv.             *)
LEMMA OnlyGenuineAccepted ==
  ASSUME NEW p \in Air, NEW t \in Commands, Accepted(p, t)
  PROVE  p \in GenuinePackets /\ p.payload \in Values(t)
  <1>1. ASSUME NEW m \in Commands \cup {"HEARTBEAT"},
               p \in Deviations(Packet("WRIST", m, Junk))
        PROVE  FALSE
    BY <1>1, DeviationRefused DEF Commands
  <1>2. p \in GenuinePackets
    BY <1>1 DEF Air
  <1>3. p.payload \in Values(t)
    BY <1>2 DEF GenuinePackets, Packet, Commands, Accepted
  <1> QED  BY <1>2, <1>3

(* The two stores of a command, taken apart.                               *)
LEMMA StoresApart ==
  ASSUME NEW t \in Commands, NEW v \in Values(t)
  PROVE  /\ Stores(t, v) # <<>> /\ Tail(Stores(t, v)) # <<>>
         /\ Head(Stores(t, v)) = [box |-> t, field |-> "valid", value |-> TRUE]
         /\ Stores(t, v)[2].value = v
         /\ Head(Tail(Stores(t, v))) = [box |-> t, field |-> "value", value |-> v]
         /\ Tail(Tail(Stores(t, v))) = <<>>
  <1>1. Decoded(t, v) = v
    BY DEF Decoded, Values
  <1>2. Stores(t, v) = <<[box |-> t, field |-> "valid", value |-> TRUE],
                         [box |-> t, field |-> "value", value |-> v]>>
    BY <1>1 DEF Stores
  <1> QED  BY <1>2

(* The last store pending is of the value.                                  *)
LEMMA StoresShape ==
  ASSUME NEW t \in Commands, NEW v \in Values(t),
         NEW s \in {Stores(t, v), Tail(Stores(t, v))}
  PROVE  s[Len(s)] = [box |-> t, field |-> "value", value |-> v]
  <1>1. Decoded(t, v) = v
    BY DEF Decoded, Values
  <1>2. Stores(t, v) = <<[box |-> t, field |-> "valid", value |-> TRUE],
                         [box |-> t, field |-> "value", value |-> v]>>
    BY <1>1 DEF Stores
  <1>3. CASE s = Stores(t, v)
    BY <1>2, <1>3
  <1>4. CASE s = Tail(Stores(t, v))
    <2>1. s = <<[box |-> t, field |-> "value", value |-> v]>>
      BY <1>2, <1>4
    <2> QED  BY <2>1
  <1> QED  BY <1>3, <1>4

(* Every value is a natural number.                                        *)
LEMMA ValuesAreNat == \A t \in Commands : Values(t) \subseteq Nat
  BY RadioLinkAssumption DEF Values
-----------------------------------------------------------------------------
(* What the inductive invariant adds to TypeOK.  The value of a mailbox is *)
(* the newest one accepted, or a 0 that the memset wrote over it, unless a *)
(* store of it is pending, which then is of the newest; the memset finds   *)
(* none but early commands; and a flag that is set, about to be set or has *)
(* been tested stands for something accepted and not yet processed.        *)
Holds(t) == box[t].value = newest[t] \/ (t \in early /\ box[t].value = 0)
ValueInv ==
    /\ \A t \in Commands : ~Storing(t) => Holds(t)
    /\ at = <<"setup", "memset">> =>
          \A t \in Commands : newest[t] # 0 => t \in early
    /\ \A t \in Commands : \A v \in Values(t) :
          rx \in {Stores(t, v), Tail(Stores(t, v))} => newest[t] = v
FlagInv ==
    \A t \in Commands :
       /\ box[t].valid => unprocessed[t] # {}
       /\ at \in {<<t, "copy">>, <<t, "clear">>} => unprocessed[t] # {}
       /\ Unflagged(t) # {} => unprocessed[t] # {}
MailInv == TypeOK /\ ValueInv /\ FlagInv

(* What onRecv has still to do, in three cases.                            *)
LEMMA PendingStores ==
  ASSUME TypeOK
  PROVE  \/ rx = <<>>
         \/ \E t \in Commands : \E v \in Values(t) : rx = Stores(t, v)
         \/ \E t \in Commands : \E v \in Values(t) : rx = Tail(Stores(t, v))
  BY DEF TypeOK

(* Storing and Unflagged read off the pending stores.                      *)
LEMMA PendingRead ==
  ASSUME NEW t \in Commands, NEW u \in Commands, NEW v \in Values(t)
  PROVE  /\ rx = <<>> => ~Storing(u) /\ Unflagged(u) = {}
         /\ rx = Stores(t, v) =>
              /\ Storing(u) <=> u = t
              /\ Unflagged(u) = IF u = t THEN {v} ELSE {}
         /\ rx = Tail(Stores(t, v)) =>
              (Storing(u) <=> u = t) /\ Unflagged(u) = {}
  <1>1. rx = <<>> => ~Storing(u) /\ Unflagged(u) = {}
    BY DEF Storing, Unflagged
  <1>2. ASSUME rx = Stores(t, v)
        PROVE  (Storing(u) <=> u = t) /\ Unflagged(u) = IF u = t THEN {v} ELSE {}
    <2>1. rx # <<>> /\ Head(rx).box = t /\ Head(rx).field = "valid" /\ rx[2].value = v
      BY <1>2, StoresApart
    <2> QED  BY <2>1 DEF Storing, Unflagged
  <1>3. ASSUME rx = Tail(Stores(t, v))
        PROVE  (Storing(u) <=> u = t) /\ Unflagged(u) = {}
    <2>1. rx # <<>> /\ Head(rx).box = t /\ Head(rx).field = "value"
      BY <1>3, StoresApart
    <2> QED  BY <2>1 DEF Storing, Unflagged
  <1> QED  BY <1>1, <1>2, <1>3
(* The value on its way to an unflagged mailbox is a natural number.        *)
LEMMA UnflaggedIsNat ==
  ASSUME TypeOK, NEW t \in Commands
  PROVE  Unflagged(t) \in SUBSET Nat
  <1>1. CASE rx = <<>>
    BY <1>1 DEF Unflagged, Storing
  <1>2. ASSUME NEW u \in Commands, NEW v \in Values(u),
               rx = Stores(u, v) \/ rx = Tail(Stores(u, v))
        PROVE  Unflagged(t) \in SUBSET Nat
    BY <1>2, PendingRead, ValuesAreNat
  <1> QED  BY <1>1, <1>2, PendingStores
-----------------------------------------------------------------------------
(* The initial state: the statics are zero and the memset is to come.       *)
LEMMA InitMail == Init => MailInv
  <1> SUFFICES ASSUME Init PROVE MailInv
    OBVIOUS
  <1>1. TypeOK
    BY RadioLinkAssumption DEF Init, TypeOK, Box, Values, Commands, AllWiped
  <1>2. ValueInv
    BY StoresApart DEF Init, ValueInv, Holds, Storing
  <1>3. FlagInv
    BY DEF Init, FlagInv, Unflagged, Storing, Commands
  <1> QED  BY <1>1, <1>2, <1>3 DEF MailInv

(* An accepted command: its stores are pending and it is the newest.        *)
LEMMA RecvMail ==
  ASSUME MailInv, NEW p \in Air, NEW t \in Commands, Recv(p, t)
  PROVE  MailInv'
  <1> DEFINE v == p.payload
  <1>1. p \in GenuinePackets /\ v \in Values(t)
    BY OnlyGenuineAccepted DEF Recv
  <1>2. /\ rx = <<>> /\ rx' = Stores(t, v)
        /\ newest' = [newest EXCEPT ![t] = v]
        /\ early' = IF at = <<"setup", "memset">> THEN early \cup {t}
                    ELSE early \ {t}
        /\ unprocessed' = [unprocessed EXCEPT ![t] = @ \cup {v}]
        /\ UNCHANGED <<box, at, wiped>>
    BY <1>1 DEF Recv
  <1> HIDE DEF v
  <1>3. v \in Nat
    BY <1>1, ValuesAreNat
  <1>4. TypeOK'
    BY <1>1, <1>2, <1>3 DEF MailInv, TypeOK
  <1>5. \A u \in Commands : (Storing(u)' <=> u = t)
                             /\ Unflagged(u)' = IF u = t THEN {v} ELSE {}
    <2>1. rx' # <<>> /\ Head(rx').box = t /\ Head(rx').field = "valid"
          /\ (rx'[2]).value = v
      BY <1>1, <1>2, StoresApart
    <2> QED  BY <2>1 DEF Storing, Unflagged
  <1>6. \A u \in Commands : ~Storing(u) /\ Unflagged(u) = {}
    BY <1>2 DEF Storing, Unflagged
  <1>7. ValueInv'
    <2>1. ASSUME NEW u \in Commands, ~Storing(u)'
          PROVE  Holds(u)'
      <3>1. u # t /\ Holds(u)
        BY <1>5, <1>6, <2>1 DEF MailInv, ValueInv
      <3> QED  BY <1>2, <3>1 DEF Holds, MailInv, TypeOK
    <2>2. ASSUME NEW u \in Commands, NEW w \in Values(u),
                 rx' \in {Stores(u, w), Tail(Stores(u, w))}
          PROVE  newest'[u] = w
      <3>1. rx'[Len(rx')] = [box |-> u, field |-> "value", value |-> w]
        BY <2>2, StoresShape
      <3>2. rx'[Len(rx')] = [box |-> t, field |-> "value", value |-> v]
        BY <1>1, <1>2, StoresShape
      <3>3. u = t /\ w = v
        BY <3>1, <3>2
      <3> QED  BY <1>2, <3>3 DEF MailInv, TypeOK
    <2>3. ASSUME at' = <<"setup", "memset">>, NEW u \in Commands, newest'[u] # 0
          PROVE  u \in early'
      BY <1>2, <2>3 DEF MailInv, ValueInv, TypeOK
    <2> QED  BY <2>1, <2>2, <2>3 DEF ValueInv
  <1>8. FlagInv'
    BY <1>2, <1>5 DEF MailInv, FlagInv, TypeOK
  <1> QED  BY <1>4, <1>7, <1>8 DEF MailInv

(* A store of onRecv: the flag first, then the value.                       *)
LEMMA RxStoreMail ==
  ASSUME MailInv, RxStore
  PROVE  MailInv'
  <1>0. PICK t \in Commands : \E v \in Values(t) :
           rx = Stores(t, v) \/ rx = Tail(Stores(t, v))
    BY PendingStores DEF RxStore, MailInv
  <1>1. PICK v \in Values(t) : rx = Stores(t, v) \/ rx = Tail(Stores(t, v))
    BY <1>0
  <1>2. v \in Nat /\ newest[t] = v
    BY <1>1, ValuesAreNat DEF MailInv, ValueInv
  <1>3. UNCHANGED <<at, wiped, newest, early, unprocessed>>
    BY DEF RxStore, ghostVars
  <1>4. CASE rx = Stores(t, v)
    <2>1. /\ box' = [box EXCEPT ![t]["valid"] = TRUE]
          /\ rx' = Tail(Stores(t, v)) /\ rx' # <<>>
          /\ Head(rx').box = t /\ Head(rx').field = "value"
      <3>1. Head(rx) = [box |-> t, field |-> "valid", value |-> TRUE]
        BY <1>4, StoresApart
      <3>2. Head(rx).box = t /\ Head(rx).field = "valid" /\ Head(rx).value = TRUE
        BY <3>1
      <3>3. box' = [box EXCEPT ![t]["valid"] = TRUE]
        BY <3>2, Zenon DEF RxStore
      <3>4. rx' = Tail(Stores(t, v))
        BY <1>4 DEF RxStore
      <3> QED  BY <3>3, <3>4, StoresApart
    <2>2. \A u \in Commands : (Storing(u)' <=> u = t) /\ Unflagged(u)' = {}
      BY <2>1 DEF Storing, Unflagged
    <2>3. \A u \in Commands : (Storing(u) <=> u = t)
                               /\ (u = t => Unflagged(u) # {})
      BY <1>4, PendingRead
    <2>4. TypeOK'
      BY <1>3, <2>1 DEF MailInv, TypeOK, Box
    <2>5. ValueInv'
      <3>1. ASSUME NEW u \in Commands, ~Storing(u)'
            PROVE  Holds(u)'
        <4>1. u # t /\ Holds(u)
          BY <2>2, <2>3, <3>1 DEF MailInv, ValueInv
        <4> QED  BY <1>3, <2>1, <4>1 DEF Holds, MailInv, TypeOK
      <3>2. ASSUME NEW u \in Commands, NEW w \in Values(u),
                   rx' \in {Stores(u, w), Tail(Stores(u, w))}
            PROVE  newest'[u] = w
        <4>1. rx'[Len(rx')] = [box |-> u, field |-> "value", value |-> w]
          BY <3>2, StoresShape
        <4>2. rx'[Len(rx')] = [box |-> t, field |-> "value", value |-> v]
          BY <2>1, StoresShape
        <4> QED  BY <1>2, <1>3, <4>1, <4>2
      <3> QED  BY <1>3, <3>1, <3>2 DEF MailInv, ValueInv
    <2>6. FlagInv'
      BY <1>3, <2>1, <2>2, <2>3 DEF MailInv, FlagInv, TypeOK
    <2> QED  BY <2>4, <2>5, <2>6 DEF MailInv
  <1>5. CASE rx = Tail(Stores(t, v))
    <2>1. /\ box' = [box EXCEPT ![t]["value"] = v]
          /\ rx' = <<>>
      <3>1. Head(rx) = [box |-> t, field |-> "value", value |-> v]
        BY <1>5, StoresApart
      <3>2. Head(rx).box = t /\ Head(rx).field = "value" /\ Head(rx).value = v
        BY <3>1
      <3>3. box' = [box EXCEPT ![t]["value"] = v]
        BY <3>2, Zenon DEF RxStore
      <3>4. rx' = <<>>
        BY <1>5, StoresApart DEF RxStore
      <3> QED  BY <3>3, <3>4
    <2>2. \A u \in Commands : ~Storing(u)' /\ Unflagged(u)' = {}
      BY <2>1 DEF Storing, Unflagged
    <2>3. \A u \in Commands : Storing(u) <=> u = t
      BY <1>5, PendingRead
    <2>4. TypeOK'
      BY <1>2, <1>3, <2>1 DEF MailInv, TypeOK, Box
    <2>5. ValueInv'
      <3>1. ASSUME NEW u \in Commands
            PROVE  Holds(u)'
        <4>1. CASE u = t
          BY <1>2, <1>3, <2>1, <4>1 DEF Holds, MailInv, TypeOK
        <4>2. CASE u # t
          <5>1. Holds(u)
            BY <2>3, <4>2 DEF MailInv, ValueInv
          <5> QED  BY <1>3, <2>1, <4>2, <5>1 DEF Holds, MailInv, TypeOK
        <4> QED  BY <4>1, <4>2
      <3>2. \A u \in Commands : \A w \in Values(u) :
               rx' \notin {Stores(u, w), Tail(Stores(u, w))}
        BY <2>1, StoresApart
      <3> QED  BY <1>3, <3>1, <3>2 DEF MailInv, ValueInv
    <2>6. FlagInv'
      BY <1>3, <2>1, <2>2 DEF MailInv, FlagInv, TypeOK
    <2> QED  BY <2>4, <2>5, <2>6 DEF MailInv
  <1> QED  BY <1>1, <1>4, <1>5

(* The steps of loop() that only look leave the mailboxes as they are.      *)
LEMMA LookMail ==
  ASSUME MailInv, NEW t \in Commands, hasPending(t) \/ getPending(t)
  PROVE  MailInv'
  <1>1. UNCHANGED <<box, rx, wiped, newest, early, unprocessed>>
    BY DEF hasPending, getPending, ghostVars
  <1>2. /\ at' \in Commands \X {"test", "copy", "clear"}
        /\ \A u \in Commands :
              at' \in {<<u, "copy">>, <<u, "clear">>} => unprocessed[u] # {}
    <2>1. CASE hasPending(t)
      BY <2>1 DEF hasPending, Following, MailInv, FlagInv, Commands
    <2>2. CASE getPending(t)
      BY <2>2 DEF getPending, MailInv, FlagInv, Commands
    <2> QED  BY <2>1, <2>2
  <1>3. \A u \in Commands : (Storing(u)' <=> Storing(u))
                             /\ Unflagged(u)' = Unflagged(u)
    BY <1>1 DEF Storing, Unflagged
  <1>4. TypeOK'
    BY <1>1, <1>2 DEF MailInv, TypeOK
  <1>5. ValueInv'
    <2>1. at' # <<"setup", "memset">>
      BY <1>2 DEF Commands
    <2> QED  BY <1>1, <1>3, <2>1 DEF MailInv, ValueInv, Holds
  <1>6. FlagInv'
    BY <1>1, <1>2, <1>3 DEF MailInv, FlagInv
  <1> QED  BY <1>4, <1>5, <1>6 DEF MailInv

(* memset zeroes a field, also in the middle of a receive.                  *)
LEMMA MemsetMail ==
  ASSUME MailInv, NEW t \in Commands, NEW f \in {"valid", "value"},
         MemsetField(t, f)
  PROVE  MailInv'
  <1>1. /\ rx' = rx /\ at = <<"setup", "memset">>
        /\ wiped' = wiped \cup {<<t, f>>}
        /\ at' \in {<<"setup", "memset">>, <<"ARM_SET", "test">>}
    BY DEF MemsetField
  <1>2. \A u \in Commands : (Storing(u)' <=> Storing(u))
                             /\ Unflagged(u)' = Unflagged(u)
    BY <1>1 DEF Storing, Unflagged
  <1>3. \A u \in Commands : at' \notin {<<u, "copy">>, <<u, "clear">>}
    BY <1>1 DEF Commands
  <1>4. Unflagged(t) \in SUBSET Nat
    BY UnflaggedIsNat DEF MailInv
  <1>5. CASE f = "valid"
    <2>1. /\ box' = [box EXCEPT ![t].valid = FALSE]
          /\ unprocessed' = [unprocessed EXCEPT ![t] = Unflagged(t)]
          /\ newest' = newest /\ early' = early
      BY <1>5 DEF MemsetField
    <2>2. TypeOK'
      <3>1. /\ box' \in [Commands -> [valid : BOOLEAN, value : Nat]]
            /\ \A u \in Commands : box'[u] \in Box(u)
        BY <2>1 DEF MailInv, TypeOK, Box
      <3>2. unprocessed' \in [Commands -> SUBSET Nat]
        BY <1>4, <2>1 DEF MailInv, TypeOK
      <3>3. /\ wiped' \subseteq AllWiped
            /\ at' \in {<<"setup", "memset">>}
                         \cup (Commands \X {"test", "copy", "clear"})
        BY <1>1 DEF MailInv, TypeOK, AllWiped, Commands
      <3> QED  BY <1>1, <2>1, <3>1, <3>2, <3>3 DEF MailInv, TypeOK
    <2>3. ValueInv'
      <3>1. ASSUME NEW u \in Commands, ~Storing(u)
            PROVE  Holds(u)'
        <4>1. Holds(u)
          BY <3>1 DEF MailInv, ValueInv
        <4> QED  BY <2>1, <4>1 DEF Holds, MailInv, TypeOK
      <3> QED  BY <1>1, <1>2, <2>1, <3>1 DEF MailInv, ValueInv
    <2>4. FlagInv'
      BY <1>2, <1>3, <2>1 DEF MailInv, FlagInv, TypeOK
    <2> QED  BY <2>2, <2>3, <2>4 DEF MailInv
  <1>6. CASE f = "value"
    <2>1. /\ box' = [box EXCEPT ![t].value = 0]
          /\ newest' = newest /\ early' = early
          /\ unprocessed' = unprocessed
      BY <1>6 DEF MemsetField
    <2>2. TypeOK'
      BY <1>1, <1>6, <2>1 DEF MailInv, TypeOK, Box, AllWiped, Commands
    <2>3. ValueInv'
      <3>1. ASSUME NEW u \in Commands, ~Storing(u)
            PROVE  Holds(u)'
        <4>1. Holds(u)
          BY <3>1 DEF MailInv, ValueInv
        <4>2. u = t => newest[t] = 0 \/ t \in early
          BY <1>1 DEF MailInv, ValueInv
        <4> QED  BY <2>1, <4>1, <4>2 DEF Holds, MailInv, TypeOK
      <3>2. ASSUME NEW u \in Commands, NEW w \in Values(u),
                   rx \in {Stores(u, w), Tail(Stores(u, w))}
            PROVE  newest'[u] = w
        <4>1. Storing(u) /\ newest[u] = w
          BY <3>2, PendingRead DEF MailInv, ValueInv
        <4> QED  BY <2>1, <4>1 DEF MailInv, TypeOK
      <3> QED  BY <1>1, <1>2, <2>1, <3>1, <3>2 DEF MailInv, ValueInv
    <2>4. FlagInv'
      BY <1>2, <1>3, <2>1 DEF MailInv, FlagInv, TypeOK
    <2> QED  BY <2>2, <2>3, <2>4 DEF MailInv
  <1> QED  BY <1>5, <1>6

(* A mailbox is cleared after its command has been processed.               *)
LEMMA ConsumeMail ==
  ASSUME MailInv, NEW t \in Commands, consumePending(t)
  PROVE  MailInv'
  <1>1. /\ UNCHANGED <<rx, wiped, newest, early>>
        /\ box' = [box EXCEPT ![t].valid = FALSE]
        /\ at' = Following(t)
        /\ unprocessed' = [unprocessed EXCEPT ![t] = Unflagged(t)]
    BY DEF consumePending, ClearFlag
  <1>2. /\ at' \in Commands \X {"test", "copy", "clear"}
        /\ \A u \in Commands : at' \notin {<<u, "copy">>, <<u, "clear">>}
    BY <1>1 DEF Following, Commands
  <1>3. \A u \in Commands : (Storing(u)' <=> Storing(u))
                             /\ Unflagged(u)' = Unflagged(u)
    BY <1>1 DEF Storing, Unflagged
  <1>4. Unflagged(t) \in SUBSET Nat
    BY UnflaggedIsNat DEF MailInv
  <1>5. TypeOK'
    BY <1>1, <1>2, <1>4 DEF MailInv, TypeOK, Box
  <1>6. ValueInv'
    <2>1. ASSUME NEW u \in Commands, ~Storing(u)
          PROVE  Holds(u)'
      <3>1. Holds(u)
        BY <2>1 DEF MailInv, ValueInv
      <3> QED  BY <1>1, <3>1 DEF Holds, MailInv, TypeOK
    <2>2. at' # <<"setup", "memset">>
      BY <1>2 DEF Commands
    <2> QED  BY <1>1, <1>3, <2>1, <2>2 DEF MailInv, ValueInv
  <1>7. FlagInv'
    BY <1>1, <1>2, <1>3 DEF MailInv, FlagInv, TypeOK
  <1> QED  BY <1>5, <1>6, <1>7 DEF MailInv
-----------------------------------------------------------------------------
(* The mailbox invariant holds after every step.                            *)
LEMMA NextMail == MailInv /\ [Next]_vars => MailInv'
  <1> SUFFICES ASSUME MailInv, [Next]_vars PROVE MailInv'
    OBVIOUS
  <1>1. CASE \E p \in Air, t \in Commands : Recv(p, t)
    BY <1>1, RecvMail
  <1>2. CASE RxStore
    BY <1>2, RxStoreMail
  <1>3. CASE LoopStep
    BY <1>3, MemsetMail, LookMail, ConsumeMail DEF LoopStep
  <1>4. CASE Reboot
    <2>1. Init'
      BY <1>4 DEF Reboot, Init
    <2>2. Init' => MailInv'
      BY InitMail, PTL
    <2> QED  BY <2>1, <2>2
  <1>5. CASE UNCHANGED vars
    BY <1>5 DEF vars, ghostVars, MailInv, TypeOK, ValueInv, Holds, FlagInv,
                Storing, Unflagged
  <1> QED  BY <1>1, <1>2, <1>3, <1>4, <1>5 DEF Next

(* Both tasks may reach any pair of accesses: types and the shape of what   *)
(* onRecv has still to store hold throughout, and so does the invariant on  *)
(* what the mailboxes contain.                                              *)
THEOREM MailInvHolds == Spec => []MailInv
  <1> QED  BY InitMail, NextMail, PTL DEF Spec

(* The mailboxes keep their types: only what the wrist sent gets in.        *)
THEOREM TypeCorrect == Spec => []TypeOK
  <1>1. MailInv => TypeOK
    BY DEF MailInv
  <1> QED  BY <1>1, MailInvHolds, PTL

(* Between two runs of onRecv a full mailbox holds the newest command, or   *)
(* the 0 that radio_link_init wrote over one that came before it was done.  *)
THEOREM NewestWinsHolds == Spec => []NewestWins
  <1>1. MailInv => NewestWins
    BY DEF MailInv, ValueInv, Holds, NewestWins, Storing
  <1> QED  BY <1>1, MailInvHolds, PTL

(* loop() copies a command at most once for each packet of the wrist, and   *)
(* never because of a damaged or foreign one.                               *)
THEOREM OncePerPacketHolds == Spec => OncePerPacket
  <1>1. MailInv =>
          [\A t \in Commands : getPending(t) => unprocessed[t] # {}]_vars
    BY DEF MailInv, FlagInv, getPending
  <1> QED  BY <1>1, MailInvHolds, PTL DEF OncePerPacket
=============================================================================
