---------------------------- MODULE WristProofs ----------------------------
(***************************************************************************)
(* Theorems about Wrist, for every clock width, every duration and every   *)
(* table of stratagems.                                                    *)
(***************************************************************************)
EXTENDS Wrist, ClockProofs, FiniteSetTheorems, WellFoundedInduction

(* For every place in the pool there is a definition to fill it: the least *)
(* n up to which k definitions are marked is itself the k-th marked one.   *)
LEMMA PoolPlaceFilled ==
  ASSUME NEW k \in 1 .. Cardinality(Marked)
  PROVE  \E i \in Marked : Cardinality(MarkedUpTo(i)) = k
  <1> DEFINE N    == Len(STRATAGEM_DB)
             g(n) == Cardinality(MarkedUpTo(n))
             T    == {n \in Nat : g(n) >= k}
  <1>1. N \in Nat /\ Marked \subseteq 1 .. N /\ IsFiniteSet(1 .. N)
    <2>1. N \in Nat /\ DOMAIN STRATAGEM_DB = 1 .. N
      BY EngineAssumption
    <2>2. QED  BY <2>1, FS_Interval DEF Marked
  <1>2. ASSUME NEW n \in Nat
        PROVE  IsFiniteSet(MarkedUpTo(n)) /\ g(n) \in Nat
    <2>1. MarkedUpTo(n) \in SUBSET (1 .. N)
      BY <1>1 DEF MarkedUpTo
    <2>2. IsFiniteSet(MarkedUpTo(n))
      BY <1>1, <2>1, FS_Subset
    <2>3. QED  BY <2>2, FS_CardinalityType
  <1>3. MarkedUpTo(0) = {} /\ MarkedUpTo(N) = Marked
    <2>1. \A i \in Marked : ~(i <= 0) /\ i <= N
      BY <1>1
    <2>2. QED  BY <2>1 DEF MarkedUpTo
  <1>4. g(0) = 0
    BY <1>3, FS_EmptySet
  <1>5. N \in T /\ T \subseteq Nat
    <2>1. g(N) \in Nat /\ g(N) = Cardinality(Marked)
      BY <1>1, <1>2, <1>3
    <2> HIDE DEF g
    <2>2. QED  BY <1>1, <2>1
  <1>6. PICK m \in T : \A n \in T : ~(n < m)
    <2>1. PICK m \in T : \A n \in T : <<n, m>> \notin OpToRel(<, Nat)
      BY <1>5, NatLessThanWellFounded, WFMin
    <2>2. ASSUME NEW n \in T, n < m PROVE <<n, m>> \in OpToRel(<, Nat)
      BY <2>2 DEF OpToRel
    <2>3. QED  BY <2>1, <2>2
  <1>7. m \in Nat \ {0}
    <2>1. 0 \notin T
      BY <1>4
    <2>2. QED  BY <1>5, <2>1
  <1>8. g(m) \in Nat /\ g(m) >= k /\ g(m - 1) \in Nat /\ g(m - 1) < k
    <2>1. m - 1 \in Nat /\ m - 1 < m
      BY <1>7
    <2>2. m - 1 \notin T
      BY <1>6, <2>1
    <2>3. g(m) \in Nat /\ g(m - 1) \in Nat
      BY <1>2, <1>7, <2>1
    <2> HIDE DEF g
    <2>4. QED  BY <1>6, <2>1, <2>2, <2>3
  <1>9. m \in Marked
    <2> SUFFICES ASSUME m \notin Marked PROVE FALSE
      OBVIOUS
    <2>1. \A i \in Marked : i <= m <=> i <= m - 1
      BY <1>1, <1>7
    <2>2. MarkedUpTo(m) = MarkedUpTo(m - 1)
      BY <2>1 DEF MarkedUpTo
    <2>3. QED  BY <1>8, <2>2
  <1>10. g(m) = g(m - 1) + 1
    <2>1. /\ MarkedUpTo(m) = MarkedUpTo(m - 1) \cup {m}
          /\ m \notin MarkedUpTo(m - 1)
      <3>1. ~(m <= m - 1) /\ m <= m
        BY <1>7
      <3>2. \A i \in Marked : i <= m <=> i <= m - 1 \/ i = m
        BY <1>1, <1>7
      <3>3. QED  BY <1>9, <3>1, <3>2 DEF MarkedUpTo
    <2>2. IsFiniteSet(MarkedUpTo(m - 1))
      BY <1>2, <1>7
    <2>3. QED  BY <2>1, <2>2, FS_AddElement
  <1> HIDE DEF g
  <1>11. g(m) = k
    BY <1>8, <1>10
  <1>12. QED  BY <1>9, <1>11 DEF g

(* What can be drawn: definitions of the table, and no more than the array *)
(* LAUNCH_POOL holds.                                                      *)
LEMMA PoolType ==
  /\ Picks \subseteq 0 .. LAUNCH_POOL_SIZE - 1
  /\ \A pick \in Picks : LAUNCH_POOL[pick + 1] \in DOMAIN STRATAGEM_DB
  <1>1. Cardinality(Marked) \in Nat
    <2>1. Marked \in SUBSET (1 .. Len(STRATAGEM_DB)) /\ Len(STRATAGEM_DB) \in Nat
      BY EngineAssumption DEF Marked
    <2>2. IsFiniteSet(Marked)
      <3>1. IsFiniteSet(1 .. Len(STRATAGEM_DB))
        BY <2>1, FS_Interval
      <3>2. QED  BY <2>1, <3>1, FS_Subset
    <2>3. QED  BY <2>2, FS_CardinalityType
  <1>2. CASE ~POOL_BUILT
    BY <1>2 DEF LAUNCH_POOL, Picks
  <1>3. CASE POOL_BUILT
    <2> DEFINE size == IF Cardinality(Marked) < LAUNCH_POOL_SIZE
                       THEN Cardinality(Marked) ELSE LAUNCH_POOL_SIZE
    <2>1. size \in Nat /\ size <= LAUNCH_POOL_SIZE /\ size <= Cardinality(Marked)
      BY <1>1, EngineAssumption
    <2>2. LAUNCH_POOL = [k \in 1 .. size |->
                           CHOOSE i \in Marked : Cardinality(MarkedUpTo(i)) = k]
      BY <1>3 DEF LAUNCH_POOL, buildLaunchPool
    <2> HIDE DEF size
    <2>3. ASSUME NEW k \in 1 .. size PROVE LAUNCH_POOL[k] \in Marked
      <3>1. k \in 1 .. Cardinality(Marked)
        BY <1>1, <2>1
      <3>2. QED  BY <2>2, <3>1, PoolPlaceFilled
    <2>4. DOMAIN LAUNCH_POOL = 1 .. size
      BY <2>2
    <2>5. LAUNCH_POOL \in Seq(Marked)
      BY <2>1, <2>2, <2>3
    <2>6. Len(LAUNCH_POOL) = size
      BY <2>1, <2>4, <2>5
    <2>7. QED
      BY <2>1, <2>3, <2>6, EngineAssumption DEF Picks, Marked
  <1>4. QED  BY <1>2, <1>3, EngineAssumption
-----------------------------------------------------------------------------
(* Every call on the engine returns a StratagemEngineState.                *)
LEMMA EngineType ==
  ASSUME NEW e \in StratagemEngineState, NEW t \in Millis, NEW d \in Direction
  PROVE  /\ stratagemEngine_reset(e) \in StratagemEngineState
         /\ stratagemEngine_selectRandom(e) \subseteq StratagemEngineState
         /\ stratagemEngine_tick(e, t) \in StratagemEngineState
         /\ stratagemEngine_onDirection(e, d, t) \in StratagemEngineState
         /\ stratagemEngine_onConfirm(e) \in StratagemEngineState
  <1> USE DEF StratagemEngineState, StratagemInputState
  <1>0. 0 \in Millis /\ <<>> \in Seq(Direction)
    BY ClockType
  <1>1. \A s \in StratagemEngineState :
          stratagemEngine_reset(s) \in StratagemEngineState
    BY <1>0 DEF stratagemEngine_reset
  <1>2. ASSUME NEW pick \in Picks
        PROVE  stratagemEngine_select(e, pick) \in StratagemEngineState
    <2> DEFINE def == LAUNCH_POOL[pick + 1]
    <2>1. pick \in PoolIndex /\ def \in DOMAIN STRATAGEM_DB
      BY PoolType DEF PoolIndex
    <2> HIDE DEF def
    <2>2. [e EXCEPT !.poolIndex = pick, !.def = def, !.previousPoolIndex = pick]
            \in StratagemEngineState
      BY <2>1
    <2>3. QED  BY <1>1, <2>2 DEF stratagemEngine_select, def
  <1>3. stratagemEngine_selectRandom(e) \subseteq StratagemEngineState
    BY <1>2 DEF stratagemEngine_selectRandom
  <1>4. stratagemEngine_tick(e, t) \in StratagemEngineState
    BY <1>1 DEF stratagemEngine_tick
  <1>5. stratagemEngine_onDirection(e, d, t) \in StratagemEngineState
    <2> DEFINE input == IF Len(e.buffer) < MAX_STRATAGEM_LEN
                        THEN Append(e.buffer, d) ELSE e.buffer
               typed == [e EXCEPT !.inputState = "INPUTTING", !.buffer = input,
                                  !.lastInputMs = t]
    <2>0. input \in Seq(Direction)
      OBVIOUS
    <2> HIDE DEF input
    <2>1. typed \in StratagemEngineState
      BY <2>0
    <2>2. [typed EXCEPT !.inputState = "MATCHED", !.matchedAtMs = t,
                        !.confirmVisible = FALSE] \in StratagemEngineState
      BY <2>1
    <2>3. stratagemEngine_reset(typed) \in StratagemEngineState
      BY <1>1, <2>1
    <2>4. stratagemEngine_onDirection(e, d, t) \in
            {e, typed, stratagemEngine_reset(typed),
             [typed EXCEPT !.inputState = "MATCHED", !.matchedAtMs = t,
                           !.confirmVisible = FALSE]}
      BY Zenon DEF stratagemEngine_onDirection, input
    <2>5. QED  BY <2>1, <2>2, <2>3, <2>4
  <1>6. stratagemEngine_onConfirm(e) \in StratagemEngineState
    BY DEF stratagemEngine_onConfirm
  <1>7. QED  BY <1>1, <1>3, <1>4, <1>5, <1>6

(* The values the wrist's statics start with have their types.             *)
LEMMA InitialType ==
  /\ stratagemEngine_init \in StratagemEngineState
  /\ [online |-> FALSE, armed |-> FALSE, continuityOk |-> FALSE,
      lastStatusRxMs |-> 0, lastHeartbeatSentMs |-> 0] \in LauncherLinkState
  BY ClockType DEF stratagemEngine_init, StratagemEngineState, PoolIndex,
                   StratagemInputState, LauncherLinkState

(* A store of one field, by the callback or by the timeout, keeps the type *)
(* of the link state.                                                      *)
LEMMA StoreType ==
  ASSUME NEW ls \in LauncherLinkState, NEW f \in StatusFields,
         NEW v \in IF f = "lastStatusRxMs" THEN Millis ELSE BOOLEAN
  PROVE  [ls EXCEPT ![f] = v] \in LauncherLinkState
  <1> USE DEF LauncherLinkState
  <1>1. CASE f = "online"  BY <1>1
  <1>2. CASE f = "armed"  BY <1>2
  <1>3. CASE f = "continuityOk"  BY <1>3
  <1>4. CASE f = "lastStatusRxMs"  BY <1>4
  <1>5. QED  BY <1>1, <1>2, <1>3, <1>4 DEF StatusFields

(* What the callback has still to store, before and after one store.       *)
LEMMA RestOfStores ==
  ASSUME NEW f \in StatusFields, RxStore(f)
  PROVE  /\ DOMAIN rx' = DOMAIN rx \ {f}
         /\ \A g \in DOMAIN rx' : rx'[g] = rx[g]
  BY DEF RxStore, Restrict

(* What applyStatusPayload is going to store, field by field.              *)
LEMMA StatusStores ==
  ASSUME NEW payload, NEW t
  PROVE  LET stores == applyStatusPayload(payload, t)
         IN  /\ DOMAIN stores = StatusFields
             /\ stores.online
             /\ stores.lastStatusRxMs = t
             /\ stores.continuityOk <=> payload.continuityState = "PRESENT"
             /\ stores.armed <=> payload.launcherState = "ARMED"
             /\ \A f \in StatusFields \ {"lastStatusRxMs"} : stores[f] \in BOOLEAN
  <1>1. DOMAIN applyStatusPayload(payload, t) = StatusFields
    BY DEF applyStatusPayload, StatusFields
  <1>2. applyStatusPayload(payload, t).lastStatusRxMs = t
    BY DEF applyStatusPayload
  <1>3. applyStatusPayload(payload, t).online
    BY Zenon DEF applyStatusPayload
  <1>4. applyStatusPayload(payload, t).continuityOk
          <=> payload.continuityState = "PRESENT"
    BY Zenon DEF applyStatusPayload
  <1>5. applyStatusPayload(payload, t).armed <=> payload.launcherState = "ARMED"
    BY Zenon DEF applyStatusPayload
  <1>6. ASSUME NEW f \in StatusFields \ {"lastStatusRxMs"}
        PROVE  applyStatusPayload(payload, t)[f] \in BOOLEAN
    <2>1. CASE f = "online"
      BY <2>1 DEF applyStatusPayload
    <2>2. CASE f = "armed"
      BY <2>2 DEF applyStatusPayload
    <2>3. CASE f = "continuityOk"
      BY <2>3 DEF applyStatusPayload
    <2>4. QED  BY <2>1, <2>2, <2>3 DEF StatusFields
  <1>7. QED  BY <1>1, <1>2, <1>3, <1>4, <1>5, <1>6
-----------------------------------------------------------------------------
(* The timeout clears nothing but two flags.                               *)
DropInv == pc = "drop" => todo \subseteq {"online", "armed"}

(* Only the timeout starts clearing, and it clears two flags.              *)
LEMMA DropStep == DropInv /\ [Next]_vars => DropInv'
  BY DEF DropInv, Next, LoopStep, ReadClock, LinkTick, DropField, LoadField,
         ServeConsole, ServiceEngine, SkipFire, SendFireCmd, BlockFire, NoTouch,
         TouchArrow, TouchConfirm, Tick, RecvStatus, RxStore, Reboot, vars,
         loopVars

(* Every variable keeps its type, through every stage of the loop, every   *)
(* field stored by the callback and every reboot.                          *)
THEOREM TypeCorrect == Spec => []TypeOK
  <1>1. Init => TypeOK
    <2> SUFFICES ASSUME Init PROVE TypeOK
      OBVIOUS
    <2>1. /\ gEngine \in StratagemEngineState /\ gLink \in LauncherLinkState
          /\ rx = <<>>
      BY InitialType DEF Init
    <2>2. /\ millis \in Millis /\ now \in Millis /\ gFireToken \in Millis
          /\ pc \in Stages \cup {"halted"}
      BY ClockType DEF Init, Stages
    <2>3. /\ statusAge \in 0 .. GHOST_CAP /\ sinceMatch \in 0 .. GHOST_CAP
          /\ todo = {} /\ told = {} /\ heard = {}
          /\ gWasArmed = FALSE /\ lapse \in Lapses
      BY WristAssumption DEF Init, Lapses
    <2>4. \A f \in DOMAIN rx :
            rx[f] \in IF f = "lastStatusRxMs" THEN Millis ELSE BOOLEAN
      <3>1. DOMAIN rx = {}  BY <2>1
      <3>2. QED  BY <3>1
    <2>5. todo \subseteq StatusFields /\ told \subseteq Claims
          /\ heard \subseteq Claims /\ gWasArmed \in BOOLEAN
      BY <2>3
    <2>6. QED  BY <2>1, <2>2, <2>3, <2>4, <2>5 DEF TypeOK
  <1>2. TypeOK /\ DropInv /\ [Next]_vars => TypeOK'
    <2> SUFFICES ASSUME TypeOK, DropInv, [Next]_vars PROVE TypeOK'
      OBVIOUS
    <2> USE DEF TypeOK, Stages
    <2>0. \E d \in Direction : TRUE
      BY DEF Direction
    <2>1. CASE ReadClock
      BY <2>1 DEF ReadClock, linkVars, ghostVars
    <2>2. CASE LinkTick
      <3>1. gLink' \in LauncherLinkState
        BY <2>2 DEF LinkTick, LauncherLinkState
      <3>2. todo' \subseteq StatusFields /\ pc' \in Stages
        BY <2>2 DEF LinkTick, StatusFields
      <3>3. QED
        BY <2>2, <3>1, <3>2 DEF LinkTick, ghostVars
    <2>3. ASSUME NEW f \in StatusFields, DropField(f) PROVE TypeOK'
      <3>1. f # "lastStatusRxMs"
        BY <2>3 DEF DropField, DropInv
      <3>2. gLink' \in LauncherLinkState
        BY <2>3, <3>1, StoreType DEF DropField
      <3>3. QED  BY <2>3, <3>2 DEF DropField, ghostVars
    <2>4. ASSUME NEW f \in StatusFields, LoadField(f) PROVE TypeOK'
      BY <2>4 DEF LoadField, linkVars, ghostVars
    <2>5. CASE ServeConsole
      BY <2>5 DEF ServeConsole, linkVars, StatusFields, Lapses
    <2>6. CASE ServiceEngine
      <3>1. PICK e \in AfterEdge(AllLoaded) : gEngine' = stratagemEngine_tick(e, now)
        BY <2>6 DEF ServiceEngine
      <3>2. e \in StratagemEngineState
        BY <2>0, <3>1, EngineType DEF AfterEdge
      <3>3. gEngine' \in StratagemEngineState
        BY <2>0, <3>1, <3>2, EngineType
      <3>4. todo' \subseteq StatusFields
        BY <2>6 DEF ServiceEngine, FireGate, StatusFields
      <3>5. QED
        BY <2>6, <3>3, <3>4
           DEF ServiceEngine, LapseIn, Lapses, AllLoaded, linkVars
    <2>7. CASE SkipFire
      BY <2>7 DEF SkipFire, HeardAt, linkVars
    <2>8. CASE SendFireCmd \/ BlockFire
      <3>1. gEngine' \in StratagemEngineState
        BY <2>0, <2>8, EngineType DEF SendFireCmd, BlockFire, AfterAttempt
      <3>2. gFireToken' \in Millis
        BY <2>8, ClockType DEF SendFireCmd, BlockFire
      <3>3. QED
        BY <2>8, <3>1, <3>2
           DEF SendFireCmd, BlockFire, LapseIn, Lapses, HeardAt, linkVars
    <2>9. CASE NoTouch
      BY <2>9 DEF NoTouch, linkVars, ghostVars
    <2>10. ASSUME NEW d \in Direction, TouchArrow(d) PROVE TypeOK'
      <3>1. gEngine' \in StratagemEngineState
        BY <2>10, EngineType DEF TouchArrow
      <3>2. QED
        BY <2>10, <3>1, WristAssumption
           DEF TouchArrow, LapseIn, Lapses, linkVars
    <2>11. CASE TouchConfirm
      <3>1. gEngine' \in StratagemEngineState
        BY <2>0, <2>11, EngineType DEF TouchConfirm
      <3>2. QED
        BY <2>11, <3>1 DEF TouchConfirm, linkVars, ghostVars
    <2>12. CASE Tick
      BY <2>12, ClockType, WristAssumption
         DEF Tick, Aged, loopVars, linkVars
    <2>13. ASSUME NEW p \in Air, RecvStatus(p) PROVE TypeOK'
      <3>1. \A f \in DOMAIN rx' :
              rx'[f] \in IF f = "lastStatusRxMs" THEN Millis ELSE BOOLEAN
        <4>1. rx' = applyStatusPayload(p.payload, millis) /\ millis \in Millis
          BY <2>13 DEF RecvStatus
        <4> HIDE DEF TypeOK
        <4>2. QED  BY <4>1, StatusStores DEF StatusFields
      <3>2. statusAge' \in 0 .. GHOST_CAP
        BY <2>13, WristAssumption DEF RecvStatus
      <3>3. told' \subseteq Claims /\ heard' \subseteq Claims
        BY <2>13 DEF RecvStatus
      <3>4. QED
        BY <2>13, <3>1, <3>2, <3>3 DEF RecvStatus, loopVars
    <2>14. ASSUME NEW f \in StatusFields, RxStore(f) PROVE TypeOK'
      <3>1. gLink' \in LauncherLinkState
        BY <2>14, StoreType DEF RxStore
      <3>2. \A g \in DOMAIN rx' :
              rx'[g] \in IF g = "lastStatusRxMs" THEN Millis ELSE BOOLEAN
        BY <2>14, RestOfStores
      <3>3. heard' \subseteq Claims
        BY <2>14 DEF RxStore, HeardAt
      <3>4. lapse' \in Lapses
        BY <2>14 DEF RxStore, LapseStored, Lapses
      <3>5. QED
        BY <2>14, <3>1, <3>2, <3>3, <3>4 DEF RxStore, loopVars
    <2>15. CASE Reboot
      <3>1. /\ gEngine' \in StratagemEngineState
            /\ gLink' \in LauncherLinkState /\ rx' = <<>>
        BY <2>15, InitialType DEF Reboot
      <3>2. /\ millis' \in Millis /\ now' \in Millis /\ gFireToken' \in Millis
            /\ pc' \in Stages \cup {"halted"}
        BY <2>15, ClockType DEF Reboot
      <3>3. /\ statusAge' \in 0 .. GHOST_CAP /\ sinceMatch' \in 0 .. GHOST_CAP
            /\ todo' = {} /\ told' = {} /\ heard' = {}
            /\ gWasArmed' = FALSE /\ lapse' \in Lapses
        BY <2>15, WristAssumption DEF Reboot, Lapses
      <3>4. \A f \in DOMAIN rx' :
              rx'[f] \in IF f = "lastStatusRxMs" THEN Millis ELSE BOOLEAN
        <4> HIDE DEF TypeOK
        <4>1. DOMAIN rx' = {}  BY <3>1
        <4>2. QED  BY <4>1
      <3>5. todo' \subseteq StatusFields /\ told' \subseteq Claims
            /\ heard' \subseteq Claims /\ gWasArmed' \in BOOLEAN
        BY <3>3
      <3>6. QED  BY <3>1, <3>2, <3>3, <3>4, <3>5
    <2>16. CASE UNCHANGED vars
      BY <2>16 DEF vars, loopVars, linkVars, ghostVars
    <2>17. QED
      BY <2>1, <2>2, <2>3, <2>4, <2>5, <2>6, <2>7, <2>8, <2>9, <2>10, <2>11,
         <2>12, <2>13, <2>14, <2>15, <2>16 DEF Next, LoopStep
  <1>3. Init => DropInv
    BY DEF Init, DropInv
  <1>4. QED  BY <1>1, <1>2, <1>3, DropStep, PTL DEF Spec
-----------------------------------------------------------------------------
(* What EntryMatchesActive says of a value e of the engine.                *)
Entry(e) ==
  /\ e.inputState = "IDLE" => e.buffer = <<>>
  /\ e.inputState # "IDLE" =>
       /\ e.def # NoDef
       /\ isPrefixMatch(e.buffer, e.def)
       /\ e.inputState = "INPUTTING" <=> ~isFullMatch(e.buffer, e.def)
  /\ e.confirmVisible <=> e.inputState = "CONFIRMING"

(* A sequence of the table has 1 to MAX_STRATAGEM_LEN arrows.              *)
LEMMA SequenceType ==
  ASSUME NEW def \in DOMAIN STRATAGEM_DB
  PROVE  /\ Sequence(def) \in Seq(Direction)
         /\ Len(Sequence(def)) \in 1 .. MAX_STRATAGEM_LEN
         /\ def # NoDef
  <1> DEFINE Row == [id : Nat, sequence : Seq(Direction), inLaunchPool : BOOLEAN]
  <1>1. def \in 1 .. Len(STRATAGEM_DB) /\ Sequence(def) \in Seq(Direction)
    <2>1. STRATAGEM_DB \in Seq(Row)
      BY EngineAssumption
    <2>2. \A r \in Row : r.sequence \in Seq(Direction)
      OBVIOUS
    <2> HIDE DEF Row
    <2>3. def \in 1 .. Len(STRATAGEM_DB) /\ STRATAGEM_DB[def] \in Row
      BY <2>1
    <2>4. QED  BY <2>2, <2>3 DEF Sequence
  <1>2. Len(Sequence(def)) \in 1 .. MAX_STRATAGEM_LEN
    BY EngineAssumption DEF Sequence
  <1>3. QED  BY <1>1, <1>2 DEF Sequence, NoDef

(* A full match is the sequence itself.                                    *)
LEMMA FullMatch ==
  ASSUME NEW input \in Seq(Direction), NEW def \in DOMAIN STRATAGEM_DB
  PROVE  isFullMatch(input, def) <=> input = Sequence(def)
  <1> DEFINE q == Sequence(def)
  <1>1. q \in Seq(Direction) /\ Len(q) >= 1
    BY SequenceType, EngineAssumption
  <1> HIDE DEF q
  <1>2. input = q <=>
          Len(input) = Len(q) /\ \A i \in 1 .. Len(input) : input[i] = q[i]
    BY <1>1
  <1>3. QED
    BY <1>1, <1>2 DEF isFullMatch, isPrefixMatch, q

(* reset clears the entry and keeps the stratagem.                         *)
LEMMA ResetEffect ==
  ASSUME NEW e \in StratagemEngineState, NEW r, r = stratagemEngine_reset(e)
  PROVE  /\ Entry(r) /\ r.inputState = "IDLE" /\ r.buffer = <<>>
         /\ r.def = e.def
  <1>1. r.inputState = "IDLE" /\ r.buffer = <<>> /\ r.def = e.def
    BY DEF stratagemEngine_reset, StratagemEngineState
  <1>2. ~r.confirmVisible
    BY DEF stratagemEngine_reset, StratagemEngineState
  <1>3. QED  BY <1>1, <1>2 DEF Entry

(* A draw takes a definition of the table, unless the pool is empty.       *)
LEMMA SelectEffect ==
  ASSUME NEW e \in StratagemEngineState,
         NEW r \in stratagemEngine_selectRandom(e)
  PROVE  \/ r = e
         \/ /\ Entry(r) /\ r.inputState = "IDLE" /\ r.buffer = <<>>
            /\ r.def \in DOMAIN STRATAGEM_DB
  <1>1. CASE Picks = {}
    BY <1>1 DEF stratagemEngine_selectRandom
  <1>2. CASE Picks # {}
    <2>1. PICK pick \in Picks : r = stratagemEngine_select(e, pick)
      BY <1>2 DEF stratagemEngine_selectRandom
    <2> DEFINE def   == LAUNCH_POOL[pick + 1]
               drawn == [e EXCEPT !.poolIndex = pick, !.def = def,
                                  !.previousPoolIndex = pick]
    <2>2. pick \in PoolIndex /\ def \in DOMAIN STRATAGEM_DB
      BY PoolType DEF PoolIndex
    <2> HIDE DEF def
    <2>3. drawn \in StratagemEngineState /\ drawn.def = def
      BY <2>2 DEF StratagemEngineState
    <2>4. r = stratagemEngine_reset(drawn)
      BY <2>1 DEF stratagemEngine_select, def
    <2> HIDE DEF drawn
    <2>5. QED  BY <2>2, <2>3, <2>4, ResetEffect
  <1>3. QED  BY <1>1, <1>2

(* tick: an abandoned entry is dropped, a lockout that is over opens the   *)
(* prompt, and nothing else changes.                                       *)
LEMMA EngineTickEffect ==
  ASSUME NEW e \in StratagemEngineState, Entry(e), NEW t \in Millis,
         NEW r, r = stratagemEngine_tick(e, t)
  PROVE  /\ Entry(r)
         /\ r.def = e.def
         /\ \/ /\ r = e
               /\ e.inputState = "MATCHED" =>
                    ~(Elapsed(t, e.matchedAtMs) >= POST_MATCH_LOCKOUT_MS)
            \/ r.inputState = "IDLE" /\ r.buffer = <<>>
            \/ /\ e.inputState = "MATCHED" /\ r.inputState = "CONFIRMING"
               /\ r.buffer = e.buffer
               /\ Elapsed(t, e.matchedAtMs) >= POST_MATCH_LOCKOUT_MS
  <1> DEFINE stopped == /\ e.inputState = "INPUTTING" /\ e.buffer # <<>>
                        /\ Elapsed(t, e.lastInputMs)
                             >= STRATAGEM_INPUT_TIMEOUT_MS
             served == /\ e.inputState = "MATCHED"
                       /\ Elapsed(t, e.matchedAtMs) >= POST_MATCH_LOCKOUT_MS
  <1>1. CASE stopped
    <2>1. r = stratagemEngine_reset(e)
      BY <1>1 DEF stratagemEngine_tick
    <2>2. QED  BY <2>1, ResetEffect
  <1>2. CASE served
    <2>1. r = [e EXCEPT !.inputState = "CONFIRMING", !.confirmVisible = TRUE]
      BY <1>2 DEF stratagemEngine_tick
    <2>2. /\ r.inputState = "CONFIRMING" /\ r.buffer = e.buffer
          /\ r.def = e.def
      BY <2>1 DEF StratagemEngineState
    <2>3. r.confirmVisible
      BY <2>1 DEF StratagemEngineState
    <2>4. QED  BY <1>2, <2>2, <2>3 DEF Entry
  <1>3. CASE ~stopped /\ ~served
    BY <1>3 DEF stratagemEngine_tick
  <1>4. QED  BY <1>1, <1>2, <1>3

(* An arrow is the next one of the sequence, or everything is cleared.     *)
LEMMA DirectionEffect ==
  ASSUME NEW e \in StratagemEngineState, Entry(e), NEW d \in Direction,
         NEW t \in Millis, NEW r, r = stratagemEngine_onDirection(e, d, t),
         e.def # NoDef, e.inputState \in {"IDLE", "INPUTTING"}
  PROVE  /\ Entry(r)
         /\ r.def = e.def
         /\ \/ r.inputState = "IDLE" /\ r.buffer = <<>>
            \/ /\ Len(e.buffer) < Len(Sequence(e.def))
               /\ d = Sequence(e.def)[Len(e.buffer) + 1]
               /\ r.buffer = Append(e.buffer, d)
               /\ r.inputState = IF r.buffer = Sequence(e.def)
                                 THEN "MATCHED" ELSE "INPUTTING"
               /\ r.inputState = "MATCHED" => r.matchedAtMs = t
  <1> DEFINE q     == Sequence(e.def)
             input == IF Len(e.buffer) < MAX_STRATAGEM_LEN
                      THEN Append(e.buffer, d) ELSE e.buffer
             typed == [e EXCEPT !.inputState = "INPUTTING", !.buffer = input,
                                !.lastInputMs = t]
  <1>1. /\ e.def \in DOMAIN STRATAGEM_DB /\ e.buffer \in Seq(Direction)
        /\ q \in Seq(Direction) /\ Len(q) \in 1 .. MAX_STRATAGEM_LEN
    BY SequenceType DEF StratagemEngineState
  <1> HIDE DEF q
  <1>2. Len(e.buffer) < Len(q)
    <2>1. CASE e.inputState = "IDLE"
      BY <1>1, <2>1, EngineAssumption DEF Entry
    <2>2. CASE e.inputState = "INPUTTING"
      BY <1>1, <2>2 DEF Entry, isPrefixMatch, isFullMatch, q
    <2>3. QED  BY <2>1, <2>2
  <1>3. input = Append(e.buffer, d) /\ input \in Seq(Direction)
    BY <1>1, <1>2, EngineAssumption
  <1> HIDE DEF input
  <1>4. typed \in StratagemEngineState
    BY <1>3 DEF StratagemEngineState, StratagemInputState
  <1>5. /\ typed.def = e.def /\ typed.buffer = input
        /\ typed.inputState = "INPUTTING"
    BY DEF StratagemEngineState
  <1>6. ~typed.confirmVisible
    <2>1. typed.confirmVisible = e.confirmVisible
      BY DEF StratagemEngineState
    <2>2. QED  BY <2>1 DEF Entry
  <1>7. r = IF ~isPrefixMatch(input, e.def) THEN stratagemEngine_reset(typed)
            ELSE IF isFullMatch(input, e.def)
            THEN [typed EXCEPT !.inputState = "MATCHED", !.matchedAtMs = t,
                               !.confirmVisible = FALSE]
            ELSE typed
    BY DEF stratagemEngine_onDirection, input
  <1>8. CASE ~isPrefixMatch(input, e.def)
    <2>1. r = stratagemEngine_reset(typed)
      BY <1>7, <1>8
    <2> HIDE DEF typed
    <2>2. QED  BY <1>4, <1>5, <2>1, ResetEffect
  <1>9. CASE isPrefixMatch(input, e.def)
    <2>1. d = q[Len(e.buffer) + 1]
      BY <1>1, <1>2, <1>3, <1>9 DEF isPrefixMatch, q
    <2>2. isFullMatch(input, e.def) <=> input = q
      BY <1>1, <1>3, FullMatch DEF q
    <2>3. CASE isFullMatch(input, e.def)
      <3>1. r = [typed EXCEPT !.inputState = "MATCHED", !.matchedAtMs = t,
                              !.confirmVisible = FALSE]
        BY <1>7, <1>9, <2>3
      <3> HIDE DEF typed
      <3>2. /\ r.inputState = "MATCHED" /\ r.matchedAtMs = t
            /\ r.buffer = input /\ r.def = e.def
        BY <1>4, <1>5, <3>1 DEF StratagemEngineState
      <3>3. ~r.confirmVisible
        BY <1>4, <3>1 DEF StratagemEngineState
      <3>4. Entry(r)
        BY <1>9, <2>3, <3>2, <3>3 DEF Entry
      <3>5. QED
        BY <1>2, <1>3, <2>1, <2>2, <2>3, <3>2, <3>4 DEF q
    <2>4. CASE ~isFullMatch(input, e.def)
      <3>1. r = typed
        BY <1>7, <1>9, <2>4
      <3> HIDE DEF typed
      <3>2. Entry(r)
        BY <1>5, <1>6, <1>9, <2>4, <3>1 DEF Entry
      <3>3. QED
        BY <1>2, <1>3, <1>5, <2>1, <2>2, <2>4, <3>1, <3>2 DEF q
    <2>5. QED  BY <2>3, <2>4
  <1>10. QED  BY <1>8, <1>9

(* onConfirm takes the prompt to FIRING and keeps entry and stratagem.     *)
LEMMA ConfirmEffect ==
  ASSUME NEW e \in StratagemEngineState, Entry(e), e.confirmVisible,
         NEW r, r = stratagemEngine_onConfirm(e)
  PROVE  /\ Entry(r)
         /\ e.inputState = "CONFIRMING" /\ r.inputState = "FIRING"
         /\ r.buffer = e.buffer /\ r.def = e.def
  <1>1. e.inputState = "CONFIRMING"
    BY DEF Entry
  <1>2. r.inputState = "FIRING" /\ r.buffer = e.buffer /\ r.def = e.def
    BY <1>1 DEF stratagemEngine_onConfirm, StratagemEngineState
  <1>3. ~r.confirmVisible
    BY <1>1 DEF stratagemEngine_onConfirm, StratagemEngineState
  <1>4. QED  BY <1>1, <1>2, <1>3 DEF Entry
-----------------------------------------------------------------------------
\* Steps of the radio, the clock and the loop that leave the engine alone.
EngineIdle ==
  \/ ReadClock \/ LinkTick \/ ServeConsole \/ SkipFire \/ NoTouch \/ Tick
  \/ \E f \in StatusFields : DropField(f) \/ LoadField(f) \/ RxStore(f)
  \/ \E p \in Air : RecvStatus(p)

\* The packets a step sends, as the three-step sequence sees them.
FireCmdSent == \E i \in DOMAIN sent : sent[i].msgType = "FIRE_CMD"

(* Steps of the loop and the callback that leave the engine alone send no  *)
(* FIRE_CMD.                                                               *)
LEMMA EngineIdleEffect ==
  ASSUME EngineIdle
  PROVE  gEngine' = gEngine /\ ~FireCmdSent'
  <1>1. gEngine' = gEngine
    BY DEF EngineIdle, ReadClock, LinkTick, ServeConsole, SkipFire, NoTouch,
           Tick, DropField, LoadField, RxStore, RecvStatus, loopVars
  <1>2. \/ sent' = <<>>
        \/ sent' = <<[msgType |-> "HEARTBEAT"]>>
        \/ \E arm \in BOOLEAN : sent' = <<[msgType |-> "ARM_SET", arm |-> arm]>>
    BY DEF EngineIdle, ReadClock, LinkTick, ServeConsole, SkipFire, NoTouch,
           Tick, DropField, LoadField, RxStore, RecvStatus
  <1>3. QED  BY <1>1, <1>2 DEF FireCmdSent

(* One pass of edge detection and tick, as far as the player's entry goes. *)
LEMMA ServiceEffect ==
  ASSUME TypeOK, Entry(gEngine), ServiceEngine
  PROVE  /\ Entry(gEngine')
         /\ ~FireCmdSent'
         /\ \/ /\ gEngine' = gEngine
               /\ gEngine.inputState = "MATCHED" =>
                    ~(Elapsed(now, gEngine.matchedAtMs) >= POST_MATCH_LOCKOUT_MS)
            \/ /\ gEngine'.inputState = "IDLE" /\ gEngine'.buffer = <<>>
               /\ (gEngine'.def = gEngine.def
                   \/ gEngine'.def \in DOMAIN STRATAGEM_DB)
            \/ /\ gEngine.inputState = "MATCHED"
               /\ gEngine'.inputState = "CONFIRMING"
               /\ gEngine'.buffer = gEngine.buffer /\ gEngine'.def = gEngine.def
               /\ Elapsed(now, gEngine.matchedAtMs) >= POST_MATCH_LOCKOUT_MS
  <1>0. gEngine \in StratagemEngineState /\ now \in Millis
    BY DEF TypeOK
  <1>1. PICK e \in AfterEdge(AllLoaded) : gEngine' = stratagemEngine_tick(e, now)
    BY DEF ServiceEngine
  <1>2. e \in StratagemEngineState
    <2>1. PICK d : d \in Direction
      BY DEF Direction
    <2>2. QED  BY <1>0, <1>1, <2>1, EngineType DEF AfterEdge
  <1>3. \/ e = gEngine
        \/ /\ Entry(e) /\ e.inputState = "IDLE" /\ e.buffer = <<>>
           /\ (e.def = gEngine.def \/ e.def \in DOMAIN STRATAGEM_DB)
    <2>1. \/ e \in stratagemEngine_selectRandom(gEngine)
          \/ e = stratagemEngine_reset(gEngine)
          \/ e = gEngine
      BY <1>1 DEF AfterEdge
    <2>2. QED  BY <1>0, <2>1, SelectEffect, ResetEffect
  <1>4. ~FireCmdSent'
    BY DEF ServiceEngine, FireCmdSent
  <1>5. CASE e = gEngine
    BY <1>0, <1>1, <1>4, <1>5, EngineTickEffect
  <1>6. CASE /\ Entry(e) /\ e.inputState = "IDLE" /\ e.buffer = <<>>
             /\ (e.def = gEngine.def \/ e.def \in DOMAIN STRATAGEM_DB)
    <2>1. Entry(gEngine') /\ gEngine'.def = e.def
          /\ (gEngine' = e \/ (gEngine'.inputState = "IDLE" /\ gEngine'.buffer = <<>>))
      BY <1>0, <1>1, <1>2, <1>6, EngineTickEffect
    <2>2. QED  BY <1>4, <1>6, <2>1
  <1>7. QED  BY <1>3, <1>5, <1>6

(* The buffer always tells how far the player got with the active          *)
(* stratagem.                                                              *)
LEMMA EntryStep == TypeOK /\ EntryMatchesActive /\ [Next]_vars => EntryMatchesActive'
  <1> SUFFICES ASSUME TypeOK, Entry(gEngine), [Next]_vars PROVE Entry(gEngine')
    BY DEF EntryMatchesActive, Entry
  <1>0. gEngine \in StratagemEngineState /\ now \in Millis
    BY DEF TypeOK
  <1>1. CASE ServiceEngine
    BY <1>1, ServiceEffect
  <1>2. CASE SendFireCmd \/ BlockFire
    BY <1>0, <1>2, ResetEffect DEF SendFireCmd, BlockFire, AfterAttempt
  <1>3. ASSUME NEW d \in Direction, TouchArrow(d) PROVE Entry(gEngine')
    BY <1>0, <1>3, DirectionEffect DEF TouchArrow, stratagemEngine_isInputEnabled
  <1>4. CASE TouchConfirm
    BY <1>0, <1>4, ConfirmEffect DEF TouchConfirm
  <1>5. CASE Reboot
    <2>1. gEngine'.inputState = "IDLE" /\ gEngine'.buffer = <<>>
          /\ gEngine'.confirmVisible = FALSE
      BY <1>5 DEF Reboot, stratagemEngine_init
    <2>2. QED  BY <2>1 DEF Entry
  <1>6. CASE EngineIdle
    BY <1>6, EngineIdleEffect
  <1>7. CASE UNCHANGED vars
    BY <1>7 DEF vars, loopVars
  <1>8. QED
    BY <1>1, <1>2, <1>3, <1>4, <1>5, <1>6, <1>7 DEF Next, LoopStep, EngineIdle

(* EntryMatchesActive holds in every reachable state.                      *)
THEOREM EntryMatchesActiveHolds == Spec => []EntryMatchesActive
  <1>1. Init => EntryMatchesActive
    BY DEF Init, EntryMatchesActive, stratagemEngine_init
  <1>2. QED  BY <1>1, EntryStep, TypeCorrect, PTL DEF Spec

(* A confirmed request is sent or refused before the player can touch the  *)
(* screen again.                                                           *)
THEOREM ConfirmIsAnsweredHolds == Spec => []ConfirmIsAnswered
  <1>1. Init => ConfirmIsAnswered
    BY DEF Init, ConfirmIsAnswered
  <1>2. TypeOK /\ ConfirmIsAnswered /\ [Next]_vars => ConfirmIsAnswered'
    <2> SUFFICES ASSUME TypeOK, ConfirmIsAnswered, [Next]_vars
                 PROVE  ConfirmIsAnswered'
      OBVIOUS
    <2>1. CASE SkipFire
      BY <2>1 DEF SkipFire, stratagemEngine_readyToFire, ConfirmIsAnswered
    <2>2. CASE SendFireCmd \/ BlockFire
      <3>1. gEngine'.inputState = "IDLE"
        BY <2>2, ResetEffect DEF SendFireCmd, BlockFire, AfterAttempt, TypeOK
      <3>2. QED  BY <3>1 DEF ConfirmIsAnswered
    <2>3. CASE pc' = pc /\ gEngine' = gEngine
      BY <2>3 DEF ConfirmIsAnswered
    <2>4. CASE pc' # "touch"
      BY <2>4 DEF ConfirmIsAnswered
    <2>5. ASSUME ~SkipFire, ~SendFireCmd, ~BlockFire
          PROVE  pc' # "touch" \/ (pc' = pc /\ gEngine' = gEngine)
      BY <2>5 DEF Next, LoopStep, ReadClock, LinkTick, DropField, LoadField,
                  ServeConsole, ServiceEngine, NoTouch, TouchArrow,
                  TouchConfirm, Tick, RecvStatus, RxStore, Reboot, vars, loopVars
    <2>6. QED  BY <2>1, <2>2, <2>3, <2>4, <2>5
  <1>3. QED  BY <1>1, <1>2, TypeCorrect, PTL DEF Spec
-----------------------------------------------------------------------------
(* Each thing that can be wrong with a STATUS fails a check of onRecv, so  *)
(* only what the launcher itself sent is stored.                           *)
LEMMA OnlyGenuineAccepted ==
  ASSUME NEW p \in Air, Accepted(p)
  PROVE  p \in StatusPackets
  <1> SUFFICES ASSUME NEW q \in StatusPackets, p \in Deviations(q) PROVE FALSE
    BY DEF Air
  <1>1. PICK w : q = [mac |-> "LAUNCHER", len |-> PacketSize("STATUS"), magic |-> 167,
                      version |-> 1, msgType |-> "STATUS", intact |-> TRUE,
                      payload |-> w]
    BY DEF StatusPackets, Packet, PACKET_MAGIC, PROTOCOL_VERSION
  <1>2. PacketSize("STATUS") = 32
    BY DEF PacketSize, HeaderSize, PayloadSize
  <1>3. CASE p = [q EXCEPT !.mac = "STRANGER"]
    BY <1>1, <1>3 DEF Accepted
  <1>4. CASE p = [q EXCEPT !.len = HeaderSize + 3]
    BY <1>1, <1>4 DEF Accepted, HeaderSize
  <1>5. CASE p = [q EXCEPT !.len = @ + 1]
    <2>1. p.len = PacketSize("STATUS") + 1
      BY <1>1, <1>5
    <2>2. QED  BY <1>2, <2>1 DEF Accepted
  <1>6. CASE p = [q EXCEPT !.intact = FALSE]
    BY <1>1, <1>6 DEF Accepted
  <1>7. CASE p = [q EXCEPT !.magic = 0]
    BY <1>1, <1>7 DEF Accepted, PACKET_MAGIC
  <1>8. CASE p = [q EXCEPT !.version = 2]
    BY <1>1, <1>8 DEF Accepted, PROTOCOL_VERSION
  <1>9. CASE p = [q EXCEPT !.msgType = "OTHER"]
    BY <1>1, <1>9 DEF Accepted
  <1>10. QED  BY <1>3, <1>4, <1>5, <1>6, <1>7, <1>8, <1>9 DEF Deviations

(* The value a field has, or will have once the callback has stored it,    *)
(* speaks for the launcher's last STATUS.  The link is only called armed   *)
(* less often than that, since the timeout clears the flag.                *)
Stored(f) == IF f \in DOMAIN rx THEN rx[f] ELSE gLink[f]
MirrorInv ==
  /\ DOMAIN rx \subseteq StatusFields
  /\ "online" \in DOMAIN rx => rx.online
  /\ Stored("armed") => "ARMED" \in told
  /\ "armed" \in DOMAIN rx => (rx.armed <=> "ARMED" \in told)
  /\ Stored("continuityOk") <=> "PRESENT" \in told

\* Steps that touch neither the link state nor what was heard of the launcher.
LinkIdle == UNCHANGED <<gLink, rx, told>>

(* Every store of a STATUS that was told carries its claim, and the        *)
(* timeout only withdraws claims.                                          *)
LEMMA MirrorStep == TypeOK /\ DropInv /\ MirrorInv /\ [Next]_vars => MirrorInv'
  <1> SUFFICES ASSUME TypeOK, DropInv, MirrorInv, [Next]_vars PROVE MirrorInv'
    OBVIOUS
  <1>0. gLink \in LauncherLinkState
    BY DEF TypeOK
  <1>1. CASE LinkTick
    <2>1. \A f \in {"armed", "continuityOk"} : gLink'[f] = gLink[f]
      BY <1>0, <1>1 DEF LinkTick, LauncherLinkState
    <2>2. QED  BY <1>1, <2>1 DEF LinkTick, MirrorInv, Stored, ghostVars
  <1>2. ASSUME NEW f \in StatusFields, DropField(f) PROVE MirrorInv'
    <2>1. f \in {"online", "armed"} /\ gLink' = [gLink EXCEPT ![f] = FALSE]
      BY <1>2 DEF DropField, DropInv
    <2>2. /\ gLink'.continuityOk = gLink.continuityOk
          /\ gLink'.armed => gLink.armed
      BY <1>0, <2>1, Zenon DEF LauncherLinkState
    <2>3. QED  BY <1>2, <2>2 DEF DropField, MirrorInv, Stored, ghostVars
  <1>3. ASSUME NEW p \in Air, RecvStatus(p) PROVE MirrorInv'
    <2>1. p \in StatusPackets
      BY <1>3, OnlyGenuineAccepted DEF RecvStatus
    <2>2. /\ rx' = applyStatusPayload(p.payload, millis)
          /\ told' = Claims \cap {p.payload.launcherState, p.payload.continuityState}
      BY <1>3, <2>1 DEF RecvStatus
    <2>3. /\ p.payload.launcherState \in {"ARMED", "DISARMED"}
          /\ p.payload.continuityState \in {"PRESENT", "OPEN"}
      BY <2>1 DEF StatusPackets, Packet
    <2>4. /\ "ARMED" \in told' <=> p.payload.launcherState = "ARMED"
          /\ "PRESENT" \in told' <=> p.payload.continuityState = "PRESENT"
      BY <2>2, <2>3 DEF Claims
    <2>5. /\ DOMAIN rx' = StatusFields /\ rx'.online
          /\ rx'.armed <=> "ARMED" \in told'
          /\ rx'.continuityOk <=> "PRESENT" \in told'
      BY <2>2, <2>4, StatusStores
    <2>6. QED  BY <2>5 DEF MirrorInv, Stored, StatusFields
  <1>4. ASSUME NEW f \in StatusFields, RxStore(f) PROVE MirrorInv'
    <2>1. /\ DOMAIN rx' = DOMAIN rx \ {f} /\ f \in DOMAIN rx
          /\ \A g \in DOMAIN rx' : rx'[g] = rx[g]
          /\ gLink' = [gLink EXCEPT ![f] = rx[f]] /\ told' = told
      BY <1>4, RestOfStores DEF RxStore
    <2>2. \A g \in {"armed", "continuityOk"} : Stored(g)' = Stored(g)
      BY <1>0, <2>1 DEF Stored, LauncherLinkState
    <2>3. QED  BY <2>1, <2>2 DEF MirrorInv
  <1>5. CASE Reboot
    <2>1. rx' = <<>> /\ ~gLink'.armed /\ ~gLink'.continuityOk /\ told' = {}
      BY <1>5 DEF Reboot
    <2>2. DOMAIN rx' = {}
      BY <2>1
    <2>3. QED  BY <2>1, <2>2 DEF MirrorInv, Stored
  <1>6. CASE LinkIdle
    BY <1>6 DEF LinkIdle, MirrorInv, Stored
  <1>7. CASE UNCHANGED vars
    BY <1>7 DEF vars, linkVars, ghostVars, MirrorInv, Stored
  <1>8. QED
    BY <1>1, <1>2, <1>3, <1>4, <1>5, <1>6, <1>7
       DEF Next, LoopStep, LinkIdle, ReadClock, LoadField, ServeConsole,
           ServiceEngine, SkipFire, SendFireCmd, BlockFire, NoTouch, TouchArrow,
           TouchConfirm, Tick, linkVars, ghostVars

(* The inductive invariant about the wrist's copy of the launcher.         *)
LEMMA MirrorHolds == Spec => [](TypeOK /\ DropInv /\ MirrorInv)
  <1>1. Init => DropInv /\ MirrorInv
    <2> SUFFICES ASSUME Init PROVE DropInv /\ MirrorInv
      OBVIOUS
    <2>1. rx = <<>> /\ ~gLink.armed /\ ~gLink.continuityOk /\ told = {}
          /\ pc # "drop"
      BY DEF Init
    <2>2. DOMAIN rx = {}
      BY <2>1
    <2>3. QED  BY <2>1, <2>2 DEF MirrorInv, DropInv, Stored
  <1>2. QED  BY <1>1, DropStep, MirrorStep, TypeCorrect, PTL DEF Spec

(* Stored and cleared field by field at the same time, the link never ends *)
(* up against the launcher's last word.                                    *)
THEOREM LinkMirrorsStatusHolds == Spec => []LinkMirrorsStatus
  <1>1. MirrorInv => LinkMirrorsStatus
    BY DEF MirrorInv, Stored, LinkMirrorsStatus
  <1>2. QED  BY <1>1, MirrorHolds, PTL
-----------------------------------------------------------------------------
(* The loop refines the three-step sequence, step by step.                 *)
LEMMA ThreeStep ==
  ASSUME TypeOK, EntryMatchesActive, [Next]_vars
  PROVE  [ThreeSteps!Next]_(ThreeSteps!vars)
  <1> DEFINE target  == IF gEngine.def = NoDef THEN <<>> ELSE Sequence(gEngine.def)
             target2 == IF gEngine'.def = NoDef THEN <<>> ELSE Sequence(gEngine'.def)
             sentCmd == \E i \in DOMAIN sent' : sent'[i].msgType = "FIRE_CMD"
  <1>0. /\ gEngine \in StratagemEngineState /\ Entry(gEngine)
        /\ now \in Millis /\ (sentCmd <=> FireCmdSent')
    BY DEF TypeOK, EntryMatchesActive, Entry, FireCmdSent
  <1>a. ASSUME gEngine'.inputState = "IDLE", gEngine'.buffer = <<>>,
               gEngine'.def = gEngine.def, ~sentCmd
        PROVE  ThreeSteps!Abandon
    BY <1>a DEF ThreeSteps!Abandon
  <1>q. ASSUME gEngine' = gEngine, ~sentCmd
        PROVE  ThreeSteps!Quiet
    BY <1>q DEF ThreeSteps!Quiet
  <1>1. CASE ServiceEngine
    <2>1. /\ ~sentCmd
          /\ \/ gEngine' = gEngine
             \/ /\ gEngine'.inputState = "IDLE" /\ gEngine'.buffer = <<>>
                /\ (gEngine'.def = gEngine.def
                    \/ gEngine'.def \in DOMAIN STRATAGEM_DB)
             \/ /\ gEngine.inputState = "MATCHED"
                /\ gEngine'.inputState = "CONFIRMING"
                /\ gEngine'.buffer = gEngine.buffer /\ gEngine'.def = gEngine.def
      BY <1>0, <1>1, ServiceEffect
    <2>2. CASE gEngine' = gEngine
      BY <1>q, <2>1, <2>2 DEF ThreeSteps!Next
    <2>3. CASE /\ gEngine'.inputState = "IDLE" /\ gEngine'.buffer = <<>>
               /\ gEngine'.def = gEngine.def
      BY <1>a, <2>1, <2>3 DEF ThreeSteps!Next
    <2>4. CASE /\ gEngine'.inputState = "IDLE" /\ gEngine'.buffer = <<>>
               /\ gEngine'.def \in DOMAIN STRATAGEM_DB
      <3>1. target2 = Sequence(gEngine'.def)
        BY <2>4, SequenceType
      <3>2. ThreeSteps!Draw
        BY <2>1, <2>4, <3>1 DEF ThreeSteps!Draw
      <3>3. QED  BY <3>2 DEF ThreeSteps!Next
    <2>5. CASE /\ gEngine.inputState = "MATCHED"
               /\ gEngine'.inputState = "CONFIRMING"
               /\ gEngine'.buffer = gEngine.buffer /\ gEngine'.def = gEngine.def
      <3>1. ThreeSteps!Prompt
        BY <2>1, <2>5 DEF ThreeSteps!Prompt
      <3>2. QED  BY <3>1 DEF ThreeSteps!Next
    <2>6. QED  BY <2>1, <2>2, <2>3, <2>4, <2>5
  <1>2. CASE SendFireCmd
    <2>1. /\ gEngine.inputState = "FIRING" /\ gEngine' = stratagemEngine_reset(gEngine)
          /\ sentCmd
      BY <1>2 DEF SendFireCmd, stratagemEngine_readyToFire, AfterAttempt
    <2>2. gEngine.buffer = target
      BY <1>0, <2>1, FullMatch DEF Entry, StratagemEngineState
    <2>3. /\ gEngine'.inputState = "IDLE" /\ gEngine'.buffer = <<>>
          /\ gEngine'.def = gEngine.def
      BY <1>0, <2>1, ResetEffect
    <2>4. ThreeSteps!Command
      BY <2>1, <2>2, <2>3 DEF ThreeSteps!Command
    <2>5. QED  BY <2>4 DEF ThreeSteps!Next
  <1>3. CASE BlockFire
    <2>1. /\ gEngine' = stratagemEngine_reset(gEngine) /\ ~sentCmd
      BY <1>3 DEF BlockFire, AfterAttempt
    <2>2. QED  BY <1>0, <1>a, <2>1, ResetEffect DEF ThreeSteps!Next
  <1>4. ASSUME NEW d \in Direction, TouchArrow(d) PROVE ThreeSteps!Next
    <2>1. /\ gEngine' = stratagemEngine_onDirection(gEngine, d, now) /\ ~sentCmd
          /\ gEngine.def # NoDef /\ gEngine.inputState \in {"IDLE", "INPUTTING"}
      BY <1>4 DEF TouchArrow, stratagemEngine_isInputEnabled
    <2>2. /\ gEngine'.def = gEngine.def
          /\ \/ gEngine'.inputState = "IDLE" /\ gEngine'.buffer = <<>>
             \/ /\ Len(gEngine.buffer) < Len(target)
                /\ d = target[Len(gEngine.buffer) + 1]
                /\ gEngine'.buffer = Append(gEngine.buffer, d)
                /\ gEngine'.inputState = IF gEngine'.buffer = target
                                         THEN "MATCHED" ELSE "INPUTTING"
      BY <1>0, <2>1, DirectionEffect
    <2>3. CASE gEngine'.inputState = "IDLE" /\ gEngine'.buffer = <<>>
      BY <1>a, <2>1, <2>2, <2>3 DEF ThreeSteps!Next
    <2>4. CASE /\ Len(gEngine.buffer) < Len(target)
               /\ d = target[Len(gEngine.buffer) + 1]
               /\ gEngine'.buffer = Append(gEngine.buffer, d)
               /\ gEngine'.inputState = IF gEngine'.buffer = target
                                        THEN "MATCHED" ELSE "INPUTTING"
      <3>1. ThreeSteps!Press(d)
        BY <2>1, <2>2, <2>4 DEF ThreeSteps!Press
      <3>2. QED  BY <3>1 DEF ThreeSteps!Next
    <2>5. QED  BY <2>2, <2>3, <2>4
  <1>5. CASE TouchConfirm
    <2>1. /\ gEngine.inputState = "CONFIRMING" /\ gEngine'.inputState = "FIRING"
          /\ gEngine'.buffer = gEngine.buffer /\ gEngine'.def = gEngine.def
          /\ ~sentCmd
      BY <1>0, <1>5, ConfirmEffect DEF TouchConfirm
    <2>2. ThreeSteps!Confirm
      BY <2>1 DEF ThreeSteps!Confirm
    <2>3. QED  BY <2>2 DEF ThreeSteps!Next
  <1>6. CASE Reboot
    <2>1. /\ gEngine'.inputState = "IDLE" /\ gEngine'.buffer = <<>>
          /\ gEngine'.def = NoDef /\ ~sentCmd
      BY <1>6 DEF Reboot, stratagemEngine_init
    <2>2. ThreeSteps!Restart
      BY <2>1 DEF ThreeSteps!Restart
    <2>3. QED  BY <2>2 DEF ThreeSteps!Next
  <1>7. CASE EngineIdle
    BY <1>0, <1>7, <1>q, EngineIdleEffect DEF ThreeSteps!Next
  <1>8. CASE UNCHANGED vars
    BY <1>8 DEF vars, loopVars, ThreeSteps!vars
  <1>9. QED
    BY <1>1, <1>2, <1>3, <1>4, <1>5, <1>6, <1>7, <1>8
       DEF Next, LoopStep, EngineIdle

(* No interleaving of touches, timeouts, disarms, re-rolls and reboots     *)
(* sends a FIRE_CMD that was not completed, prompted and confirmed.        *)
THEOREM ThreeStepSpecHolds == Spec => ThreeStepSpec
  <1>1. Init => ThreeSteps!Init
    BY DEF Init, stratagemEngine_init, ThreeSteps!Init
  <1>2. TypeOK /\ EntryMatchesActive /\ [Next]_vars
          => [ThreeSteps!Next]_(ThreeSteps!vars)
    BY ThreeStep
  <1>3. QED
    BY <1>1, <1>2, TypeCorrect, EntryMatchesActiveHolds, PTL
       DEF Spec, ThreeStepSpec, ThreeSteps!Spec
=============================================================================
