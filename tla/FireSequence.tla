---------------------------- MODULE FireSequence ----------------------------
(***************************************************************************)
(* What the wrist promises about a FIRE_CMD, without clock, link or passes *)
(* of a loop: the three steps of docs/PROJECT_SPEC.md, "no shortcuts".     *)
(*                                                                         *)
(*  - A command is sent only by Command, after the player has pressed the  *)
(*    arrows of the drawn sequence one by one, the prompt has opened and   *)
(*    the player has confirmed: each in a step of its own, in this order.  *)
(*  - One confirmation is worth one command.                               *)
(*  - Whatever interrupts the player, a new draw included, begins again    *)
(*    with no arrows: a sequence is never completed by arrows of another.  *)
(***************************************************************************)
EXTENDS Naturals, Sequences

CONSTANTS Arrows,
          Targets        \* the sequences that may be drawn

VARIABLES step,          \* how far the player is
          entered,       \* the arrows pressed so far
          target,        \* the sequence drawn, <<>> before the first draw
          commanded      \* the last step sent a command

vars == <<step, entered, target, commanded>>

Init ==
    /\ step = "IDLE" /\ entered = <<>>
    /\ target = <<>> /\ commanded = FALSE

\* Time passes, or a command sent is in the past.
Quiet == commanded' = FALSE /\ UNCHANGED <<step, entered, target>>

Draw ==
    /\ target' \in Targets
    /\ step' = "IDLE" /\ entered' = <<>> /\ commanded' = FALSE

\* The next arrow of the sequence drawn.
Press(d) ==
    /\ step \in {"IDLE", "INPUTTING"}
    /\ Len(entered) < Len(target) /\ d = target[Len(entered) + 1]
    /\ entered' = Append(entered, d)
    /\ step' = IF entered' = target THEN "MATCHED" ELSE "INPUTTING"
    /\ commanded' = FALSE /\ UNCHANGED target

Prompt ==
    /\ step = "MATCHED" /\ step' = "CONFIRMING"
    /\ commanded' = FALSE /\ UNCHANGED <<entered, target>>

Confirm ==
    /\ step = "CONFIRMING" /\ step' = "FIRING"
    /\ commanded' = FALSE /\ UNCHANGED <<entered, target>>

Command ==
    /\ step = "FIRING" /\ entered = target
    /\ commanded' = TRUE
    /\ step' = "IDLE" /\ entered' = <<>> /\ UNCHANGED target

\* A wrong arrow, a pause, a disarm, or a closed final gate.
Abandon ==
    /\ step' = "IDLE" /\ entered' = <<>>
    /\ commanded' = FALSE /\ UNCHANGED target

Restart == step' = "IDLE" /\ entered' = <<>> /\ target' = <<>> /\ commanded' = FALSE

Next == \/ Quiet \/ Draw \/ Prompt \/ Confirm \/ Command \/ Abandon \/ Restart
        \/ \E d \in Arrows : Press(d)

Spec == Init /\ [][Next]_vars
=============================================================================
