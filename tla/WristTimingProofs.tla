--------------------------- MODULE WristTimingProofs ---------------------------
(***************************************************************************)
(* What the wrist knows of time, for every width of the clock and every    *)
(* timeout: an online launcher was heard recently, a FIRE_CMD rests on a   *)
(* recent STATUS, and the prompt opens only after the lockout.             *)
(***************************************************************************)
EXTENDS WristProofs

\* How long ago the hardware clock read t, and how old loop()'s `now` is.
Since(t) == Elapsed(millis, t)
Lag == Since(now)

\* A pass ends before MAX_ITER_MS is over.
PassInv == Lag <= MAX_ITER_MS

\* A STATUS being stored arrived when its stamp says, within MAX_RX_MS.
StoreInv ==
  DOMAIN rx # {} => /\ Since(RxStamp) <= MAX_RX_MS
                    /\ statusAge <= Since(RxStamp)

\* The stamp of an online launcher, once stored, either came after `now` was
\* read or is older than `now` by no more than the timeout; by a pass more
\* until the pass has tested it, and cleared online where it must.
LinkSlack ==
  IF pc = "link" \/ (pc = "drop" /\ "online" \in todo) THEN MAX_ITER_MS ELSE 0
OnlineInv ==
  gLink.online /\ "lastStatusRxMs" \notin DOMAIN rx /\ gLink.lastStatusRxMs # 0 =>
    \/ /\ Since(gLink.lastStatusRxMs) <= Lag
       /\ statusAge <= Since(gLink.lastStatusRxMs)
    \/ /\ Elapsed(now, gLink.lastStatusRxMs) <= LAUNCHER_TIMEOUT_MS + LinkSlack
       /\ statusAge <= Lag + Elapsed(now, gLink.lastStatusRxMs)

\* A lockout that is over is seen by the next pass, and its stamp is at most
\* one pass older than the arrow that completed the sequence.
LockSlack == IF pc \in {"link", "drop", "console", "edge"} THEN MAX_ITER_MS ELSE 0
LockInv ==
  gEngine.inputState = "MATCHED" =>
    /\ Elapsed(now, gEngine.matchedAtMs) <= POST_MATCH_LOCKOUT_MS + LockSlack
    /\ \/ sinceMatch = GHOST_CAP
       \/ sinceMatch + MAX_ITER_MS >= Elapsed(now, gEngine.matchedAtMs) + Lag

\* The fields loop() has found TRUE at the final gate were claimed by a STATUS
\* the observer has not forgotten, and the launcher is online until the gate
\* is decided.
EvidenceInv ==
  /\ told \subseteq heard
  /\ gLink.armed => "ARMED" \in heard
  /\ gLink.continuityOk => "PRESENT" \in heard
  /\ pc = "fire" /\ stratagemEngine_readyToFire(gEngine) =>
       /\ "online" \notin todo => gLink.online
       /\ "armed" \notin todo => "ARMED" \in heard
       /\ "continuityOk" \notin todo => "PRESENT" \in heard
-----------------------------------------------------------------------------
(* The assumptions on the constants, as the proofs below use them.         *)
LEMMA Durations ==
  /\ LAUNCHER_TIMEOUT_MS \in Nat /\ POST_MATCH_LOCKOUT_MS \in Nat
  /\ MAX_ITER_MS \in Nat /\ MAX_RX_MS \in Nat /\ CLOCK_WRAP \in Nat
  /\ GHOST_CAP \in Nat
  /\ MAX_RX_MS <= LAUNCHER_TIMEOUT_MS
  /\ LAUNCHER_TIMEOUT_MS + MAX_ITER_MS < CLOCK_WRAP
  /\ POST_MATCH_LOCKOUT_MS + MAX_ITER_MS < CLOCK_WRAP
  BY WristTimingAssumption, WristAssumption, ClockAssumption

(* The stamps are readings of the clock, and so are their differences.     *)
LEMMA Readings ==
  ASSUME TypeOK
  PROVE  /\ millis \in Millis /\ now \in Millis /\ RxStamp \in Millis
         /\ gLink.lastStatusRxMs \in Millis /\ gEngine.matchedAtMs \in Millis
         /\ statusAge \in Nat /\ sinceMatch \in 0 .. GHOST_CAP
         /\ Lag \in Nat /\ Since(RxStamp) \in Nat
         /\ Since(gLink.lastStatusRxMs) \in Nat
         /\ Elapsed(now, gLink.lastStatusRxMs) \in Nat
         /\ Elapsed(now, gEngine.matchedAtMs) \in Nat
  <1>1. gLink.lastStatusRxMs \in Millis
    BY DEF TypeOK, LauncherLinkState
  <1>2. gEngine.matchedAtMs \in Millis
    BY DEF TypeOK, StratagemEngineState
  <1>3. RxStamp \in Millis
    <2>1. "lastStatusRxMs" \in DOMAIN rx => rx.lastStatusRxMs \in Millis
      BY DEF TypeOK
    <2>2. QED  BY <1>1, <2>1 DEF RxStamp
  <1>4. /\ millis \in Millis /\ now \in Millis
        /\ statusAge \in 0 .. GHOST_CAP /\ sinceMatch \in 0 .. GHOST_CAP
    BY DEF TypeOK
  <1>5. QED
    BY <1>1, <1>2, <1>3, <1>4, ElapsedType, WristAssumption DEF Lag, Since

(* The clock stops at MAX_ITER_MS past `now` until a new pass reads it.    *)
LEMMA PassStep == TypeOK /\ PassInv /\ [Next]_vars => PassInv'
  <1> SUFFICES ASSUME TypeOK, PassInv, [Next]_vars PROVE PassInv'
    OBVIOUS
  <1> USE DEF PassInv, Lag, Since
  <1>0. /\ millis \in Millis /\ now \in Millis /\ 0 \in Millis /\ Lag \in Nat
    BY ClockType, Readings
  <1>1. CASE Tick
    <2>1. Lag + 1 <= MAX_ITER_MS /\ Lag + 1 < CLOCK_WRAP
      BY <1>0, <1>1, Durations DEF Tick
    <2>2. QED
      BY <1>0, <1>1, <2>1, ElapsedGrows DEF Tick, loopVars
  <1>2. CASE ReadClock
    BY <1>0, <1>2, ElapsedSelf, Durations DEF ReadClock
  <1>3. CASE Reboot
    BY <1>0, <1>3, ElapsedSelf, Durations DEF Reboot
  <1>4. ASSUME ~Tick, ~ReadClock, ~Reboot
        PROVE  UNCHANGED <<millis, now>>
    BY <1>4 DEF Next, LoopStep, LinkTick, DropField, LoadField, ServeConsole,
                ServiceEngine, SkipFire, SendFireCmd, BlockFire, NoTouch,
                TouchArrow, TouchConfirm, RecvStatus, RxStore, vars, loopVars
  <1>5. QED  BY <1>1, <1>2, <1>3, <1>4

\* Steps that leave the stamps of the link, and the clock, alone.
LinkStampsKept ==
  /\ UNCHANGED <<millis, statusAge, rx>>
  /\ gLink'.lastStatusRxMs = gLink.lastStatusRxMs

(* Apart from the clock, a reboot and the callback, nothing touches the    *)
(* stamp of the link or the age of the STATUS.                             *)
LEMMA LinkStampsKeptBy ==
  ASSUME TypeOK, DropInv, [Next]_vars, ~Tick, ~Reboot,
         \A p \in Air : ~RecvStatus(p), \A f \in StatusFields : ~RxStore(f)
  PROVE  LinkStampsKept
  <1>0. gLink \in LauncherLinkState
    BY DEF TypeOK
  <1>1. CASE LinkTick
    BY <1>0, <1>1 DEF LinkTick, LinkStampsKept, LauncherLinkState, ghostVars
  <1>2. ASSUME NEW f \in StatusFields, DropField(f) PROVE LinkStampsKept
    <2>1. f # "lastStatusRxMs"
      BY <1>2 DEF DropField, DropInv
    <2>2. QED
      BY <1>0, <1>2, <2>1
         DEF DropField, LinkStampsKept, LauncherLinkState, ghostVars
  <1>3. ASSUME ~LinkTick, \A f \in StatusFields : ~DropField(f)
        PROVE  LinkStampsKept
    BY <1>3 DEF LinkStampsKept, Next, LoopStep, ReadClock, LoadField,
                ServeConsole, ServiceEngine, SkipFire, SendFireCmd, BlockFire,
                NoTouch, TouchArrow, TouchConfirm, vars, linkVars, ghostVars
  <1>4. QED  BY <1>1, <1>2, <1>3

(* The callback stamps the STATUS when it begins and ends within           *)
(* MAX_RX_MS.                                                              *)
LEMMA StoreStep ==
  TypeOK /\ DropInv /\ StoreInv /\ [Next]_vars => StoreInv'
  <1> SUFFICES ASSUME TypeOK, DropInv, StoreInv, [Next]_vars PROVE StoreInv'
    OBVIOUS
  <1> USE DEF StoreInv, Since
  <1>0. /\ millis \in Millis /\ RxStamp \in Millis /\ statusAge \in Nat
        /\ Since(RxStamp) \in Nat /\ gLink \in LauncherLinkState
    BY Readings DEF TypeOK
  <1>1. CASE Tick
    <2>1. /\ UNCHANGED <<rx, gLink>> /\ millis' = NextMillis(millis)
          /\ DOMAIN rx # {} => Since(RxStamp) < MAX_RX_MS
          /\ statusAge' <= statusAge + 1
      BY <1>0, <1>1 DEF Tick, Aged, linkVars
    <2>2. RxStamp' = RxStamp
      BY <2>1 DEF RxStamp
    <2>3. DOMAIN rx # {} => Elapsed(millis', RxStamp) = Since(RxStamp) + 1
      <3>1. DOMAIN rx # {} => Since(RxStamp) + 1 < CLOCK_WRAP
        BY <1>0, <2>1, Durations
      <3>2. QED  BY <1>0, <2>1, <3>1, ElapsedGrows
    <2>4. statusAge' \in Nat
      BY <1>0, <1>1 DEF Tick, Aged
    <2>5. QED  BY <1>0, <2>1, <2>2, <2>3, <2>4, Durations
  <1>2. ASSUME NEW p \in Air, RecvStatus(p) PROVE StoreInv'
    <2>1. p \in StatusPackets
      BY <1>2, OnlyGenuineAccepted DEF RecvStatus
    <2>2. /\ rx' = applyStatusPayload(p.payload, millis) /\ millis' = millis
          /\ statusAge' = 0
      BY <1>2, <2>1 DEF RecvStatus
    <2>3. RxStamp' = millis
      BY <2>2, StatusStores DEF RxStamp, StatusFields
    <2>4. QED  BY <1>0, <2>2, <2>3, ElapsedSelf, Durations
  <1>3. ASSUME NEW f \in StatusFields, RxStore(f) PROVE StoreInv'
    <2>1. /\ DOMAIN rx' = DOMAIN rx \ {f} /\ f \in DOMAIN rx
          /\ \A g \in DOMAIN rx' : rx'[g] = rx[g]
          /\ gLink' = [gLink EXCEPT ![f] = rx[f]]
          /\ UNCHANGED <<millis, statusAge>>
      BY <1>3, RestOfStores DEF RxStore
    <2>2. RxStamp' = RxStamp
      BY <1>0, <2>1 DEF RxStamp, LauncherLinkState
    <2>3. QED  BY <2>1, <2>2
  <1>4. CASE Reboot
    <2>1. rx' = <<>>
      BY <1>4 DEF Reboot
    <2>2. DOMAIN rx' = {}
      BY <2>1
    <2>3. QED  BY <2>2
  <1>5. CASE LinkStampsKept
    BY <1>5 DEF LinkStampsKept, RxStamp
  <1>6. QED  BY <1>1, <1>2, <1>3, <1>4, <1>5, LinkStampsKeptBy
-----------------------------------------------------------------------------
(* A stamp no older than the timeout satisfies OnlineInv.                  *)
LEMMA RecentStamp ==
  ASSUME NEW a \in Millis, NEW b \in Millis, NEW t \in Millis,
         Elapsed(a, b) <= LAUNCHER_TIMEOUT_MS, NEW age \in Nat,
         age <= Elapsed(a, b)
  PROVE  \/ Elapsed(a, b) <= Elapsed(a, t) /\ age <= Elapsed(a, b)
         \/ /\ Elapsed(t, b) <= LAUNCHER_TIMEOUT_MS
            /\ age <= Elapsed(a, t) + Elapsed(t, b)
  <1>1. /\ Elapsed(a, b) \in Nat /\ Elapsed(a, t) \in Nat
        /\ Elapsed(t, b) \in Nat /\ LAUNCHER_TIMEOUT_MS \in Nat
    BY ElapsedType, Durations
  <1>2. CASE Elapsed(a, b) <= Elapsed(a, t)
    BY <1>2
  <1>3. CASE Elapsed(a, b) >= Elapsed(a, t)
    <2>1. Elapsed(a, b) = Elapsed(t, b) + Elapsed(a, t)
      BY <1>3, ElapsedThrough
    <2>2. QED  BY <1>1, <2>1
  <1>4. QED  BY <1>1, <1>2, <1>3

(* The timeout test of each pass renews the bound on the age of the stamp, *)
(* and a stamp taken after `now` is younger than the pass.                 *)
LEMMA OnlineStep ==
  /\ TypeOK /\ DropInv /\ PassInv /\ StoreInv /\ OnlineInv /\ [Next]_vars
  => OnlineInv'
  <1> DEFINE L == gLink.lastStatusRxMs
             T == LAUNCHER_TIMEOUT_MS
             M == MAX_ITER_MS
             Recent == \/ /\ Since(L)' <= Lag' /\ statusAge' <= Since(L)'
                       \/ /\ Elapsed(now', L') <= T + LinkSlack'
                          /\ statusAge' <= Lag' + Elapsed(now', L')
  <1> SUFFICES ASSUME TypeOK, DropInv, PassInv, StoreInv, OnlineInv, [Next]_vars,
                      gLink'.online, "lastStatusRxMs" \notin DOMAIN rx', L' # 0
               PROVE  Recent
    BY DEF OnlineInv
  <1>0. /\ millis \in Millis /\ now \in Millis /\ L \in Millis
        /\ statusAge \in Nat /\ Lag \in Nat /\ Since(L) \in Nat
        /\ Elapsed(now, L) \in Nat /\ LinkSlack \in {0, M}
        /\ gLink \in LauncherLinkState
    BY Readings DEF TypeOK, LinkSlack
  <1>1. /\ T \in Nat /\ M \in Nat /\ T + M < CLOCK_WRAP /\ MAX_RX_MS <= T
        /\ MAX_RX_MS \in Nat /\ CLOCK_WRAP \in Nat /\ Lag <= M
    BY Durations DEF PassInv
  \* Nothing this invariant reads changes but the slack.
  <1>2. ASSUME UNCHANGED <<millis, now, statusAge, rx>>, L' = L,
               gLink.online, LinkSlack' = LinkSlack
               \/ (Elapsed(now, L) <= T /\ LinkSlack' = 0)
        PROVE  Recent
    <2>1. \/ Since(L) <= Lag /\ statusAge <= Since(L)
          \/ /\ Elapsed(now, L) <= T + LinkSlack
             /\ statusAge <= Lag + Elapsed(now, L)
      BY <1>2 DEF OnlineInv
    <2>2. Since(L)' = Since(L) /\ Lag' = Lag
      BY <1>2 DEF Since, Lag
    <2>3. QED  BY <1>0, <1>1, <1>2, <2>1, <2>2
  <1>3. CASE Tick
    <2>1. /\ UNCHANGED <<now, gLink, rx, pc, todo>> /\ millis' = NextMillis(millis)
          /\ Lag < M /\ statusAge' \in Nat /\ statusAge' <= statusAge + 1
      BY <1>0, <1>3, Durations DEF Tick, Aged, linkVars, loopVars, Lag, Since
    <2>2. \/ Since(L) <= Lag /\ statusAge <= Since(L)
          \/ /\ Elapsed(now, L) <= T + LinkSlack
             /\ statusAge <= Lag + Elapsed(now, L)
      BY <2>1 DEF OnlineInv
    <2>3. Lag' = Lag + 1
      <3>1. Lag + 1 < CLOCK_WRAP
        BY <1>0, <1>1, <2>1
      <3>2. QED  BY <1>0, <2>1, <3>1, ElapsedGrows DEF Lag, Since
    <2>4. LinkSlack' = LinkSlack
      BY <2>1 DEF LinkSlack
    <2>5. CASE Since(L) <= Lag /\ statusAge <= Since(L)
      <3>1. Since(L) + 1 < CLOCK_WRAP
        BY <1>0, <1>1, <2>1, <2>5
      <3>2. Since(L)' = Since(L) + 1
        BY <1>0, <2>1, <3>1, ElapsedGrows DEF Since
      <3>3. QED  BY <1>0, <2>1, <2>3, <2>5, <3>2
    <2>6. CASE /\ Elapsed(now, L) <= T + LinkSlack
               /\ statusAge <= Lag + Elapsed(now, L)
      BY <1>0, <1>1, <2>1, <2>3, <2>4, <2>6
    <2>7. QED  BY <2>2, <2>5, <2>6
  <1>4. CASE ReadClock
    <2>1. /\ UNCHANGED <<millis, gLink, rx, statusAge>> /\ now' = millis
          /\ pc = "top" /\ pc' = "link"
      BY <1>4 DEF ReadClock, linkVars, ghostVars
    <2>2. \/ Since(L) <= Lag /\ statusAge <= Since(L)
          \/ /\ Elapsed(now, L) <= T
             /\ statusAge <= Lag + Elapsed(now, L)
      <3>1. LinkSlack = 0
        BY <2>1 DEF LinkSlack
      <3>2. QED  BY <1>0, <1>1, <2>1, <3>1 DEF OnlineInv
    <2>3. Lag' = 0 /\ LinkSlack' = M /\ Elapsed(now', L') = Since(L)
      BY <1>0, <2>1, ElapsedSelf DEF Lag, Since, LinkSlack
    <2>4. CASE Since(L) <= Lag /\ statusAge <= Since(L)
      BY <1>0, <1>1, <2>1, <2>3, <2>4
    <2>5. CASE Elapsed(now, L) <= T /\ statusAge <= Lag + Elapsed(now, L)
      <3>1. Since(L) = Lag + Elapsed(now, L)
        <4>1. Elapsed(millis, now) = Lag
          BY DEF Lag, Since
        <4>2. Lag + Elapsed(now, L) < CLOCK_WRAP
          BY <1>0, <1>1, <2>5
        <4>3. QED  BY <1>0, <4>1, <4>2, ElapsedAdds DEF Since
      <3>2. QED  BY <1>0, <1>1, <2>1, <2>3, <2>5, <3>1
    <2>6. QED  BY <2>2, <2>4, <2>5
  <1>5. CASE LinkTick
    <2>1. /\ UNCHANGED <<millis, now, statusAge, rx>>
          /\ L' = L /\ gLink'.online = gLink.online /\ pc = "link"
          /\ IF LauncherTimedOut(gLink, now)
             THEN pc' = "drop" /\ todo' = {"online", "armed"}
             ELSE pc' = "console"
      BY <1>0, <1>5 DEF LinkTick, ghostVars, LauncherLinkState
    <2>2. LinkSlack = M
      BY <2>1 DEF LinkSlack
    <2>3. CASE LauncherTimedOut(gLink, now)
      <3>1. LinkSlack' = M
        BY <2>1, <2>3 DEF LinkSlack
      <3>2. QED  BY <1>2, <2>1, <2>2, <3>1
    <2>4. CASE ~LauncherTimedOut(gLink, now)
      <3>1. LinkSlack' = 0
        BY <2>1, <2>4 DEF LinkSlack
      <3>2. Elapsed(now, L) <= T
        BY <1>0, <1>1, <2>1, <2>4 DEF LauncherTimedOut
      <3>3. QED  BY <1>2, <2>1, <3>1, <3>2
    <2>5. QED  BY <2>3, <2>4
  <1>6. ASSUME NEW f \in StatusFields, DropField(f)
        PROVE  Recent
    <2>1. /\ UNCHANGED <<millis, now, statusAge, rx>> /\ pc = "drop"
          /\ f \in {"online", "armed"} /\ f \in todo /\ todo' = todo \ {f}
          /\ gLink' = [gLink EXCEPT ![f] = FALSE]
          /\ pc' = IF todo' = {} THEN "console" ELSE "drop"
      BY <1>6 DEF DropField, DropInv, ghostVars
    <2>2. f = "armed"
      BY <1>0, <2>1, Zenon DEF LauncherLinkState
    <2>3. L' = L /\ gLink'.online = gLink.online
      BY <1>0, <2>1, <2>2 DEF LauncherLinkState
    <2>4. LinkSlack' = LinkSlack
      BY <2>1, <2>2 DEF LinkSlack
    <2>5. QED  BY <1>2, <2>1, <2>3, <2>4
  <1>7. ASSUME NEW f \in StatusFields, RxStore(f)
        PROVE  Recent
    <2>1. /\ DOMAIN rx' = DOMAIN rx \ {f} /\ f \in DOMAIN rx
          /\ gLink' = [gLink EXCEPT ![f] = rx[f]]
          /\ UNCHANGED <<millis, now, statusAge, pc, todo>>
      BY <1>7, RestOfStores DEF RxStore, loopVars
    <2>2. L' = RxStamp
      BY <1>0, <2>1 DEF RxStamp, LauncherLinkState
    <2>3. RxStamp \in Millis /\ Since(RxStamp) <= T /\ statusAge <= Since(RxStamp)
      BY <1>1, <2>1, Readings DEF StoreInv
    <2>4. \/ Since(RxStamp) <= Lag /\ statusAge <= Since(RxStamp)
          \/ /\ Elapsed(now, RxStamp) <= T
             /\ statusAge <= Lag + Elapsed(now, RxStamp)
      BY <1>0, <2>3, RecentStamp DEF Lag, Since
    <2>5. Lag' = Lag /\ Since(L)' = Since(RxStamp) /\ LinkSlack' = LinkSlack
          /\ Elapsed(now', L') = Elapsed(now, RxStamp)
      BY <2>1, <2>2 DEF Lag, Since, LinkSlack
    <2>6. Elapsed(now, RxStamp) \in Nat
      BY <1>0, <2>3, ElapsedType
    <2>7. QED  BY <1>0, <1>1, <2>1, <2>4, <2>5, <2>6
  <1>8. ASSUME NEW p \in Air, RecvStatus(p) PROVE FALSE
    <2>1. rx' = applyStatusPayload(p.payload, millis)
      BY <1>8 DEF RecvStatus
    <2>2. QED  BY <2>1, StatusStores DEF StatusFields
  <1>9. ~Reboot
    BY DEF Reboot
  <1>10. CASE \/ \E f \in StatusFields : LoadField(f)
              \/ ServeConsole \/ ServiceEngine \/ SkipFire \/ SendFireCmd
              \/ BlockFire \/ NoTouch \/ \E d \in Direction : TouchArrow(d)
              \/ TouchConfirm
    <2>1. UNCHANGED <<millis, now, statusAge, rx, gLink>>
          /\ pc \notin {"link", "drop"} /\ pc' \notin {"link", "drop"}
      BY <1>10 DEF LoadField, ServeConsole, ServiceEngine, SkipFire, SendFireCmd,
                   BlockFire, NoTouch, TouchArrow, TouchConfirm, linkVars, ghostVars
    <2>2. LinkSlack' = LinkSlack
      BY <2>1 DEF LinkSlack
    <2>3. QED  BY <1>2, <2>1, <2>2
  <1>11. CASE UNCHANGED vars
    BY <1>2, <1>11 DEF vars, loopVars, linkVars, ghostVars, LinkSlack
  <1>12. QED
    BY <1>3, <1>4, <1>5, <1>6, <1>7, <1>8, <1>9, <1>10, <1>11 DEF Next, LoopStep
-----------------------------------------------------------------------------
(* Each pass tests the lockout, so a MATCHED entry is never older than the *)
(* lockout and a pass.                                                     *)
LEMMA LockStep ==
  /\ TypeOK /\ EntryMatchesActive /\ PassInv /\ LockInv /\ [Next]_vars
  => LockInv'
  <1> DEFINE m    == gEngine.matchedAtMs
             LOCK == POST_MATCH_LOCKOUT_MS
             M    == MAX_ITER_MS
  <1> SUFFICES ASSUME TypeOK, EntryMatchesActive, PassInv, LockInv, [Next]_vars,
                      gEngine'.inputState = "MATCHED"
               PROVE  /\ Elapsed(now', m') <= LOCK + LockSlack'
                      /\ \/ sinceMatch' = GHOST_CAP
                         \/ sinceMatch' + M >= Elapsed(now', m') + Lag'
    BY DEF LockInv
  <1> DEFINE Served == /\ Elapsed(now', m') <= LOCK + LockSlack'
                       /\ \/ sinceMatch' = GHOST_CAP
                          \/ sinceMatch' + M >= Elapsed(now', m') + Lag'
  <1>0. /\ millis \in Millis /\ now \in Millis /\ m \in Millis /\ Lag \in Nat
        /\ sinceMatch \in 0 .. GHOST_CAP /\ LockSlack \in {0, M}
        /\ Elapsed(now, m) \in Nat
        /\ gEngine \in StratagemEngineState /\ Entry(gEngine)
    BY Readings DEF TypeOK, LockSlack, EntryMatchesActive, Entry
  <1>1. /\ LOCK \in Nat /\ M \in Nat /\ LOCK + M < CLOCK_WRAP
        /\ GHOST_CAP \in Nat /\ CLOCK_WRAP \in Nat /\ Lag <= M
    BY Durations DEF PassInv
  <1>2. ASSUME UNCHANGED <<millis, now, gEngine, sinceMatch>>,
               LockSlack' = LockSlack \/ (Elapsed(now, m) <= LOCK /\ LockSlack' = 0)
        PROVE  Served
    <2>1. /\ Elapsed(now, m) <= LOCK + LockSlack
          /\ \/ sinceMatch = GHOST_CAP
             \/ sinceMatch + M >= Elapsed(now, m) + Lag
      BY <1>2 DEF LockInv
    <2>2. Lag' = Lag
      BY <1>2 DEF Since, Lag
    <2>3. QED  BY <1>0, <1>1, <1>2, <2>1, <2>2
  <1>3. CASE Tick
    <2>1. /\ UNCHANGED <<now, gEngine, pc>> /\ millis' = NextMillis(millis)
          /\ Lag < M /\ sinceMatch' = Aged(sinceMatch)
      BY <1>3 DEF Tick, loopVars, Lag, Since
    <2>2. Lag' = Lag + 1
      <3>1. Lag + 1 < CLOCK_WRAP
        BY <1>0, <1>1, <2>1
      <3>2. QED  BY <1>0, <2>1, <3>1, ElapsedGrows DEF Lag, Since
    <2>3. sinceMatch' = GHOST_CAP \/ sinceMatch' = sinceMatch + 1
      BY <1>0, <1>1, <2>1 DEF Aged
    <2>4. sinceMatch = GHOST_CAP => sinceMatch' = GHOST_CAP
      BY <1>0, <1>1, <2>1 DEF Aged
    <2>5. LockSlack' = LockSlack
      BY <2>1 DEF LockSlack
    <2>6. QED  BY <1>0, <1>1, <2>1, <2>2, <2>3, <2>4, <2>5 DEF LockInv
  <1>4. CASE ReadClock
    <2>1. /\ UNCHANGED <<millis, gEngine, sinceMatch>> /\ now' = millis
          /\ pc = "top" /\ pc' = "link"
      BY <1>4 DEF ReadClock, ghostVars
    <2>2. LockSlack = 0 /\ LockSlack' = M /\ Lag' = 0
      BY <1>0, <2>1, ElapsedSelf DEF LockSlack, Lag, Since
    <2>3. /\ Elapsed(now, m) <= LOCK
          /\ \/ sinceMatch = GHOST_CAP
             \/ sinceMatch + M >= Elapsed(now, m) + Lag
      BY <1>0, <1>1, <2>1, <2>2 DEF LockInv
    <2>4. Elapsed(millis, m) = Lag + Elapsed(now, m)
      <3>1. Elapsed(millis, now) = Lag
        BY DEF Lag, Since
      <3>2. Lag + Elapsed(now, m) < CLOCK_WRAP
        BY <1>0, <1>1, <2>3
      <3>3. QED  BY <1>0, <3>1, <3>2, ElapsedAdds
    <2>5. QED  BY <1>0, <1>1, <2>1, <2>2, <2>3, <2>4
  <1>5. CASE ServiceEngine
    <2>1. /\ gEngine' = gEngine /\ ~(Elapsed(now, m) >= LOCK)
      BY <1>0, <1>5, ServiceEffect
    <2>2. UNCHANGED <<millis, now, sinceMatch>> /\ pc' = "fire"
      BY <1>5 DEF ServiceEngine
    <2>3. LockSlack' = 0
      BY <2>2 DEF LockSlack
    <2>4. QED  BY <1>0, <1>1, <1>2, <2>1, <2>2, <2>3
  <1>6. ASSUME NEW d \in Direction, TouchArrow(d) PROVE Served
    <2>1. /\ UNCHANGED <<millis, now>> /\ sinceMatch' = 0 /\ pc' = "top"
          /\ gEngine' = stratagemEngine_onDirection(gEngine, d, now)
          /\ gEngine.def # NoDef /\ gEngine.inputState \in {"IDLE", "INPUTTING"}
      BY <1>6 DEF TouchArrow, stratagemEngine_isInputEnabled
    <2>2. m' = now
      BY <1>0, <2>1, DirectionEffect
    <2>3. Elapsed(now', m') = 0 /\ Lag' = Lag /\ LockSlack' = 0
      BY <1>0, <2>1, <2>2, ElapsedSelf DEF Lag, Since, LockSlack
    <2>4. QED  BY <1>0, <1>1, <2>1, <2>3
  <1>7. ~TouchConfirm
    BY <1>0, ConfirmEffect DEF TouchConfirm
  <1>8. ~SendFireCmd /\ ~BlockFire /\ ~Reboot
    <2>1. ~SendFireCmd /\ ~BlockFire
      BY <1>0, ResetEffect DEF SendFireCmd, BlockFire, AfterAttempt
    <2>2. QED  BY <2>1 DEF Reboot, stratagemEngine_init
  <1>9. CASE \/ LinkTick \/ ServeConsole \/ SkipFire \/ NoTouch
             \/ \E f \in StatusFields : DropField(f) \/ LoadField(f) \/ RxStore(f)
             \/ \E p \in Air : RecvStatus(p)
    <2>1. UNCHANGED <<millis, now, gEngine, sinceMatch>>
      BY <1>9 DEF LinkTick, ServeConsole, SkipFire, NoTouch, DropField, LoadField,
                  RxStore, RecvStatus, loopVars, ghostVars
    <2>2. \/ pc' = pc
          \/ {pc, pc'} \subseteq {"link", "drop", "console", "edge"}
          \/ {pc, pc'} \cap {"link", "drop", "console", "edge"} = {}
      BY <1>9 DEF LinkTick, ServeConsole, SkipFire, NoTouch, DropField, LoadField,
                  RxStore, RecvStatus, loopVars
    <2>3. LockSlack' = LockSlack
      BY <2>2 DEF LockSlack
    <2>4. QED  BY <1>2, <2>1, <2>3
  <1>10. CASE UNCHANGED vars
    BY <1>2, <1>10 DEF vars, loopVars, ghostVars, LockSlack
  <1>11. QED
    BY <1>3, <1>4, <1>5, <1>6, <1>7, <1>8, <1>9, <1>10 DEF Next, LoopStep
-----------------------------------------------------------------------------
(* A flag of the link that is set was claimed by a STATUS heard since, and *)
(* the gate's loads find no other.                                         *)
LEMMA EvidenceStep ==
  /\ TypeOK /\ DropInv /\ MirrorInv /\ EvidenceInv /\ [Next]_vars
  => EvidenceInv'
  <1> DEFINE Gate == /\ "online" \notin todo => gLink.online
                     /\ "armed" \notin todo => "ARMED" \in heard
                     /\ "continuityOk" \notin todo => "PRESENT" \in heard
  <1> SUFFICES ASSUME TypeOK, DropInv, MirrorInv, EvidenceInv, [Next]_vars
               PROVE  EvidenceInv'
    OBVIOUS
  <1>0. gLink \in LauncherLinkState /\ MirrorInv'
    BY MirrorStep DEF TypeOK
  \* The link speaks for the last STATUS, so the observer may forget the others
  \* while neither task uses the fields.
  <1>1. ASSUME heard' = HeardAt(pc', rx'), told' = told, pc' # "fire",
               UNCHANGED <<gLink, rx>>
        PROVE  EvidenceInv'
    <2>1. DOMAIN rx = {} => /\ gLink.armed => "ARMED" \in told
                            /\ gLink.continuityOk => "PRESENT" \in told
      BY DEF MirrorInv, Stored
    <2>2. QED  BY <1>1, <2>1 DEF EvidenceInv, HeardAt
  <1>2. CASE SkipFire \/ SendFireCmd \/ BlockFire
    BY <1>1, <1>2 DEF SkipFire, SendFireCmd, BlockFire, linkVars
  <1>3. ASSUME NEW f \in StatusFields, RxStore(f) PROVE EvidenceInv'
    <2>1. /\ DOMAIN rx' = DOMAIN rx \ {f} /\ f \in DOMAIN rx
          /\ gLink' = [gLink EXCEPT ![f] = rx[f]]
          /\ heard' = HeardAt(pc, rx') /\ UNCHANGED <<pc, todo, gEngine, told>>
      BY <1>3, RestOfStores DEF RxStore, loopVars
    <2>2. heard' \in {told, heard} /\ (pc = "fire" => heard' = heard)
      BY <2>1 DEF HeardAt
    <2>3. told' \subseteq heard'
      BY <2>1, <2>2 DEF EvidenceInv
    <2>4. gLink.online => gLink'.online
      BY <1>0, <2>1, Zenon DEF LauncherLinkState, MirrorInv
    <2>5. (gLink'.armed => "ARMED" \in heard')
          /\ (gLink'.continuityOk => "PRESENT" \in heard')
      <3>1. gLink'.armed => (gLink.armed \/ (f = "armed" /\ rx.armed))
        BY <1>0, <2>1, Zenon DEF LauncherLinkState
      <3>2. gLink'.continuityOk =>
              (gLink.continuityOk \/ (f = "continuityOk" /\ rx.continuityOk))
        BY <1>0, <2>1, Zenon DEF LauncherLinkState
      <3>3. CASE heard' = heard
        BY <2>1, <3>1, <3>2, <3>3 DEF EvidenceInv, MirrorInv, Stored
      <3>4. CASE heard' = told /\ DOMAIN rx' = {}
        BY <1>0, <2>1, <3>4 DEF MirrorInv, Stored
      <3>5. QED  BY <2>1, <3>3, <3>4 DEF HeardAt
    <2>6. pc = "fire" /\ stratagemEngine_readyToFire(gEngine) => Gate'
      BY <2>1, <2>2, <2>4 DEF EvidenceInv
    <2>7. QED  BY <2>1, <2>3, <2>5, <2>6 DEF EvidenceInv
  <1>4. ASSUME NEW p \in Air, RecvStatus(p) PROVE EvidenceInv'
    <2>1. /\ heard' = heard \cup told' /\ UNCHANGED <<pc, todo, gEngine, gLink>>
      BY <1>4, OnlyGenuineAccepted DEF RecvStatus, loopVars
    <2>2. QED  BY <2>1 DEF EvidenceInv
  <1>5. ASSUME NEW f \in StatusFields, LoadField(f) PROVE EvidenceInv'
    <2>1. /\ gLink[f] /\ todo' = todo \ {f}
          /\ UNCHANGED <<pc, gEngine, gLink, told, heard>>
      BY <1>5 DEF LoadField, linkVars, ghostVars
    <2>2. QED  BY <2>1 DEF EvidenceInv
  <1>6. ASSUME NEW f \in StatusFields, DropField(f) PROVE EvidenceInv'
    <2>1. /\ gLink' = [gLink EXCEPT ![f] = FALSE] /\ pc' # "fire"
          /\ UNCHANGED <<told, heard>> /\ f \in {"online", "armed"}
      BY <1>6 DEF DropField, DropInv, ghostVars
    <2>2. /\ gLink'.armed => gLink.armed
          /\ gLink'.continuityOk => gLink.continuityOk
      BY <1>0, <2>1, Zenon DEF LauncherLinkState
    <2>3. QED  BY <2>1, <2>2 DEF EvidenceInv
  <1>7. CASE LinkTick
    <2>1. /\ \A f \in {"armed", "continuityOk"} : gLink'[f] = gLink[f]
          /\ pc' # "fire" /\ UNCHANGED <<told, heard>>
      BY <1>0, <1>7 DEF LinkTick, LauncherLinkState, ghostVars
    <2>2. QED  BY <2>1 DEF EvidenceInv
  <1>8. CASE ServiceEngine
    <2>1. /\ UNCHANGED <<gLink, told, heard>>
          /\ stratagemEngine_readyToFire(gEngine') =>
               todo' = {"online", "armed", "continuityOk"}
      BY <1>8 DEF ServiceEngine, FireGate, linkVars
    <2>2. QED  BY <2>1 DEF EvidenceInv
  <1>9. CASE Reboot
    BY <1>9 DEF Reboot, EvidenceInv
  <1>10. CASE \/ ReadClock \/ ServeConsole \/ NoTouch
              \/ \E d \in Direction : TouchArrow(d)
              \/ TouchConfirm
    BY <1>10 DEF ReadClock, ServeConsole, NoTouch, TouchArrow, TouchConfirm,
                 EvidenceInv, linkVars, ghostVars
  <1>11. CASE Tick \/ UNCHANGED vars
    BY <1>11 DEF Tick, vars, loopVars, linkVars, ghostVars, EvidenceInv
  <1>12. QED
    BY <1>2, <1>3, <1>4, <1>5, <1>6, <1>7, <1>8, <1>9, <1>10, <1>11
       DEF Next, LoopStep
-----------------------------------------------------------------------------
\* All that the theorems below rest on.
WristInv ==
  /\ TypeOK /\ EntryMatchesActive /\ DropInv /\ MirrorInv
  /\ PassInv /\ StoreInv /\ OnlineInv /\ LockInv /\ EvidenceInv

(* The inductive invariant of the timing theorems: all of the above        *)
(* together.                                                               *)
THEOREM WristInvHolds == Spec => []WristInv
  <1> DEFINE TimeInv == PassInv /\ StoreInv /\ OnlineInv /\ LockInv /\ EvidenceInv
  <1>1. Init => TimeInv
    <2> SUFFICES ASSUME Init PROVE TimeInv
      OBVIOUS
    <2>1. /\ millis = 0 /\ now = 0 /\ rx = <<>> /\ ~gLink.online /\ told = {}
          /\ ~gLink.armed /\ ~gLink.continuityOk /\ gEngine.inputState = "IDLE"
      BY DEF Init, stratagemEngine_init
    <2>2. DOMAIN rx = {}
      BY <2>1
    <2>3. Lag = 0
      BY <2>1, ClockType, ElapsedSelf DEF Lag, Since
    <2>4. EvidenceInv
      BY <2>1 DEF EvidenceInv, stratagemEngine_readyToFire
    <2>5. QED
      BY <2>1, <2>2, <2>3, <2>4, Durations DEF PassInv, StoreInv, OnlineInv, LockInv
  <1>2. /\ TypeOK /\ EntryMatchesActive /\ DropInv /\ MirrorInv
        /\ TimeInv /\ [Next]_vars
        => TimeInv'
    BY PassStep, StoreStep, OnlineStep, LockStep, EvidenceStep
  <1> HIDE DEF TimeInv
  <1>3. Spec => []TimeInv
    BY <1>1, <1>2, MirrorHolds, EntryMatchesActiveHolds, PTL DEF Spec
  <1>4. TypeOK /\ EntryMatchesActive /\ DropInv /\ MirrorInv /\ TimeInv => WristInv
    BY DEF TimeInv, WristInv
  <1>5. QED  BY <1>3, <1>4, MirrorHolds, EntryMatchesActiveHolds, PTL

(* online is never older news than the timeout and two passes, except when *)
(* the last STATUS came at millis() = 0: the age of that one has no bound. *)
THEOREM OnlineMeansRecentHolds == Spec => []OnlineMeansRecent
  <1>1. WristInv => OnlineMeansRecent
    <2> SUFFICES ASSUME WristInv, gLink.online, RxStamp # 0
                 PROVE  statusAge <= LAUNCHER_TIMEOUT_MS + 2 * MAX_ITER_MS
      BY DEF OnlineMeansRecent
    <2>0. /\ TypeOK /\ Lag <= MAX_ITER_MS /\ Lag \in Nat /\ statusAge \in Nat
          /\ Since(gLink.lastStatusRxMs) \in Nat /\ Since(RxStamp) \in Nat
          /\ Elapsed(now, gLink.lastStatusRxMs) \in Nat
          /\ LinkSlack \in {0, MAX_ITER_MS}
      BY Readings DEF WristInv, PassInv, LinkSlack
    <2>1. CASE "lastStatusRxMs" \in DOMAIN rx
      BY <2>0, <2>1, Durations DEF WristInv, StoreInv
    <2>2. CASE "lastStatusRxMs" \notin DOMAIN rx
      <3>1. gLink.lastStatusRxMs # 0
        BY <2>2 DEF RxStamp
      <3>2. QED  BY <2>0, <2>2, <3>1, Durations DEF WristInv, OnlineInv
    <2>3. QED  BY <2>1, <2>2
  <1>2. QED  BY <1>1, WristInvHolds, PTL

(* The prompt opens only after the lockout, give or take a pass.  Only a   *)
(* measurement that is not cut off before the lockout can tell.            *)
THEOREM LockoutServedHolds ==
  ASSUME GHOST_CAP >= POST_MATCH_LOCKOUT_MS - MAX_ITER_MS
  PROVE  Spec => LockoutServed
  <1>1. WristInv /\ [Next]_vars =>
          [gEngine.inputState = "MATCHED" /\ gEngine'.inputState = "CONFIRMING" =>
             sinceMatch >= POST_MATCH_LOCKOUT_MS - MAX_ITER_MS]_vars
    <2> SUFFICES ASSUME WristInv, [Next]_vars, gEngine.inputState = "MATCHED",
                        gEngine'.inputState = "CONFIRMING"
                 PROVE  sinceMatch >= POST_MATCH_LOCKOUT_MS - MAX_ITER_MS
      OBVIOUS
    <2>0. /\ TypeOK /\ gEngine \in StratagemEngineState /\ Entry(gEngine)
          /\ Lag \in Nat /\ sinceMatch \in 0 .. GHOST_CAP /\ now \in Millis
          /\ Elapsed(now, gEngine.matchedAtMs) \in Nat
      BY Readings DEF WristInv, TypeOK, EntryMatchesActive, Entry
    <2>1. ServiceEngine
      <3>1. ~SendFireCmd /\ ~BlockFire
        BY <2>0, ResetEffect DEF SendFireCmd, BlockFire, AfterAttempt
      <3>2. ~TouchConfirm /\ ~Reboot
        BY <2>0 DEF TouchConfirm, Entry, Reboot, stratagemEngine_init
      <3>3. \A d \in Direction : ~TouchArrow(d)
        BY DEF TouchArrow, stratagemEngine_isInputEnabled
      <3>4. ~EngineIdle
        BY EngineIdleEffect
      <3>5. QED
        BY <3>1, <3>2, <3>3, <3>4 DEF Next, LoopStep, EngineIdle, vars, loopVars
    <2>2. Elapsed(now, gEngine.matchedAtMs) >= POST_MATCH_LOCKOUT_MS
      BY <2>0, <2>1, ServiceEffect
    <2>3. QED
      BY <2>0, <2>2, Durations DEF WristInv, LockInv
  <1>2. QED  BY <1>1, WristInvHolds, PTL DEF Spec, LockoutServed

(* A FIRE_CMD carries the stratagem completed and confirmed, and rests on  *)
(* claims of ARMED and PRESENT in the last STATUS or in one that came      *)
(* since the gate began, and on a STATUS no older than the timeout and a   *)
(* pass, unless that one came at millis() = 0: then its age has no bound.  *)
THEOREM FireIsJustifiedHolds == Spec => FireIsJustified
  <1> DEFINE Justified ==
        \A i \in DOMAIN sent' : sent'[i].msgType = "FIRE_CMD" =>
          /\ \E def \in DOMAIN STRATAGEM_DB :
                /\ STRATAGEM_DB[def].id = sent'[i].stratagemId
                /\ Sequence(def) = gEngine.buffer
                /\ sent'[i].inputLength = Len(gEngine.buffer)
          /\ {"ARMED", "PRESENT"} \subseteq heard
          /\ \/ statusAge <= LAUNCHER_TIMEOUT_MS + MAX_ITER_MS
             \/ RxStamp = 0
  <1>1. ASSUME WristInv, SendFireCmd PROVE Justified
    <2>0. /\ TypeOK /\ gEngine \in StratagemEngineState /\ Entry(gEngine)
          /\ gEngine.inputState = "FIRING" /\ todo = {} /\ pc = "fire"
      BY <1>1 DEF WristInv, TypeOK, EntryMatchesActive, Entry, SendFireCmd,
                  stratagemEngine_readyToFire, AllLoaded
    <2>1. /\ gEngine.def \in DOMAIN STRATAGEM_DB /\ gEngine.def # NoDef
          /\ gEngine.buffer = Sequence(gEngine.def)
      BY <2>0, FullMatch DEF Entry, StratagemEngineState
    <2>2. sent' = <<[msgType |-> "FIRE_CMD",
                     stratagemId |-> STRATAGEM_DB[gEngine.def].id,
                     inputLength |-> Len(gEngine.buffer),
                     requestToken |-> gFireToken',
                     matchedAtMs |-> gEngine.matchedAtMs]>>
      BY <1>1, <2>1 DEF SendFireCmd, Ids
    <2>3. gLink.online /\ {"ARMED", "PRESENT"} \subseteq heard
      BY <1>1, <2>0 DEF WristInv, EvidenceInv, stratagemEngine_readyToFire
    <2>4. \/ statusAge <= LAUNCHER_TIMEOUT_MS + MAX_ITER_MS
          \/ RxStamp = 0
      <3>0. /\ Lag <= MAX_ITER_MS /\ Lag \in Nat /\ statusAge \in Nat
            /\ Since(gLink.lastStatusRxMs) \in Nat /\ Since(RxStamp) \in Nat
            /\ Elapsed(now, gLink.lastStatusRxMs) \in Nat /\ LinkSlack = 0
        BY <1>1, <2>0, Readings DEF WristInv, PassInv, LinkSlack
      <3>1. CASE "lastStatusRxMs" \in DOMAIN rx
        BY <1>1, <3>0, <3>1, Durations DEF WristInv, StoreInv
      <3>2. CASE "lastStatusRxMs" \notin DOMAIN rx
        <4>1. gLink.lastStatusRxMs = RxStamp
          BY <3>2 DEF RxStamp
        <4>2. QED  BY <1>1, <2>3, <3>0, <3>2, <4>1, Durations DEF WristInv, OnlineInv
      <3>3. QED  BY <3>1, <3>2
    <2>5. QED  BY <2>1, <2>2, <2>3, <2>4
  <1>2. ASSUME Next, ~SendFireCmd PROVE Justified
    <2>1. CASE EngineIdle
      BY <2>1, EngineIdleEffect DEF FireCmdSent
    <2>2. CASE ServiceEngine \/ BlockFire \/ TouchConfirm \/ Reboot
               \/ \E d \in Direction : TouchArrow(d)
      BY <2>2 DEF ServiceEngine, BlockFire, TouchConfirm, Reboot, TouchArrow
    <2>3. QED
      BY <1>2, <2>1, <2>2 DEF Next, LoopStep, EngineIdle
  <1>3. WristInv /\ [Next]_vars => [Justified]_vars
    <2> SUFFICES ASSUME WristInv, [Next]_vars, ~(UNCHANGED vars) PROVE Justified
      OBVIOUS
    <2> HIDE DEF Justified
    <2> QED  BY <1>1, <1>2
  <1>4. QED  BY <1>3, WristInvHolds, PTL DEF Spec, FireIsJustified
=============================================================================
