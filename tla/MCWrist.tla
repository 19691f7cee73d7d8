------------------------------ MODULE MCWrist ------------------------------
(* Instances of Wrist for TLC.  One clock unit is 1000 ms.                 *)
EXTENDS Wrist, Stratagems

\* Two sequences with a common first arrow, and one that is not drawn.
MCStratagemDB ==
    <<[id |-> 1, sequence |-> <<"UP", "RIGHT">>, inLaunchPool |-> TRUE],
      [id |-> 2, sequence |-> <<"UP">>,          inLaunchPool |-> FALSE],
      [id |-> 4, sequence |-> <<"UP", "LEFT">>,  inLaunchPool |-> TRUE]>>

\* Everything a later step can read: stamps of the engine are dropped where the
\* code overwrites them before it reads them, and so are the heartbeat timer,
\* the token counter and the records kept for an observer.
LiveState ==
    <<millis, now, pc, todo, rx, gWasArmed,
      [gLink EXCEPT !.lastHeartbeatSentMs = 0],
      [gEngine EXCEPT !.previousPoolIndex = 0,
         !.lastInputMs = IF gEngine.inputState = "INPUTTING" THEN @ ELSE 0,
         !.matchedAtMs = IF gEngine.inputState = "MATCHED" THEN @ ELSE 0]>>

\* The same with what the safety properties read (an offline link's age begins
\* anew with the next STATUS, and only a completed entry has a lockout).
ObservedState ==
    <<LiveState,
      IF gLink.online \/ "online" \in DOMAIN rx THEN statusAge ELSE 0,
      IF gEngine.inputState = "MATCHED" THEN sinceMatch ELSE 0, told, heard>>

\* Live states with what OfflineMeansSilence, and what NoFireAcrossDisarm reads.
SilenceState == <<LiveState, statusAge>>
SessionState == <<LiveState, lapse>>
=============================================================================
