----------------------------- MODULE MCLauncher -----------------------------
(* Instances of Launcher for TLC.  One clock unit is 500 ms.               *)
EXTENDS Launcher, FiniteSets

MCTokens == {1, 2}
MCOneToken == {1}
\* One averaged reading for a short, an open and a present igniter.
MCRawReadings == {0, 245, 2998}
MCTwoReadings == {245, 2998}

\* Everything a later step can read: stamps and payloads are dropped where the
\* code never reads them again before overwriting them, and so are the records
\* kept for an observer.
LiveState ==
    <<millis, now, pc, gPrev, gLastStatusTxMs, continuity,
      [gState EXCEPT !.lastEvent = "NONE", !.faultCode = "NONE",
         !.lastCommandRxMs = IF gState.state = "FIRED" THEN @ ELSE 0],
      IF igniter.active THEN igniter.pulseStartMs ELSE CLOCK_WRAP,
      gAck.pending,
      IF pendingArm.valid THEN <<pendingArm.arm>> ELSE <<>>,
      IF pendingFire.valid THEN pendingFire.requestToken ELSE 0>>

\* The same with everything an invariant can read.  Tokens are only ever compared,
\* so of the two it is enough to know which place holds the same one.
TokenState ==
    LET owed == IF gAck.pending THEN gAck.token ELSE 0
        asked == IF pendingFire.valid THEN pendingFire.requestToken ELSE 0
    IN  <<owed # 0, asked # 0, owed = asked, owed \in openFires,
          asked \in openFires, Cardinality(openFires)>>
ObservedState ==
    <<millis, now, pc, gPrev, gLastStatusTxMs, continuity,
      [gState EXCEPT !.lastEvent = "NONE",
         !.lastCommandRxMs = IF gState.state = "FIRED" THEN @ ELSE 0],
      IF igniter.active THEN igniter.pulseStartMs ELSE CLOCK_WRAP,
      IF pendingArm.valid THEN <<pendingArm.arm>> ELSE <<>>,
      TokenState, gateHighFor, sampleAge, reported>>
=============================================================================
