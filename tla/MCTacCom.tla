------------------------------ MODULE MCTacCom ------------------------------
(* An instance of TacCom for TLC: a clock of two values.                    *)
EXTENDS TacCom

\* Requests that a mailbox, a packet under way, the slot of the ack or the wrist's
\* last ack still names, or that are yet to be sent.
Live(r) ==
    \/ r > requests \/ lastAck.token = r
    \/ pendingFire = <<r>> \/ gAck = [pending |-> TRUE, token |-> r]
    \/ \E i \in DOMAIN toWrist : toWrist[i] \in {FireAck(r, TRUE), FireAck(r, FALSE)}
    \/ \E i \in DOMAIN toLauncher : toLauncher[i] = FireCmd(r)

\* Everything a later step or a property can read: events and fault codes are
\* never read, stamps only in the state that compares them, and what became of a
\* request only while something names it.
LiveState ==
    <<igniter.active, pendingArm, pendingFire,
      [gState EXCEPT !.lastEvent = "NONE", !.faultCode = "NONE",
         !.lastCommandRxMs = IF gState.state = "FIRED" THEN @ ELSE 0],
      IF gAck.pending THEN gAck.token ELSE 0,
      gLink, lastAck, confirmed, gWasArmed, requests, radioVars,
      [r \in Requests |-> IF Live(r) THEN <<outcome[r], raises[r], r \in repeated>>
                          ELSE <<>>],
      unarmed, armSent, missed, lingering, settled>>
=============================================================================
