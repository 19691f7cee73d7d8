------------------------- MODULE IgnitionAuthority -------------------------
(***************************************************************************)
(* What the launcher promises about its ignition gate, without clock,      *)
(* radio, mailboxes or stages of a loop.                                   *)
(*                                                                         *)
(*  - The gate rises only in one step, Fire, which consumes a request made *)
(*    earlier and needs the key ON, the phase ARMED and continuity last    *)
(*    read as PRESENT.                                                     *)
(*  - ARMED is entered only from DISARMED with the key ON, and turning the *)
(*    key OFF leaves ARMED and FIRING in that very step.                   *)
(*  - The gate falls only at the end of a pulse (or in a reset), and FAULT *)
(*    is left only by a disarm command, the end of a pulse or a reset.     *)
(***************************************************************************)
VARIABLES phase, key, gate, continuity, request

vars == <<phase, key, gate, continuity, request>>

Init ==
    /\ phase = "DISARMED" /\ key = FALSE /\ gate = FALSE
    /\ continuity = "UNKNOWN" /\ request = FALSE

KeyOn ==
    /\ ~key /\ key' = TRUE
    /\ UNCHANGED <<phase, gate, continuity, request>>

KeyOff ==
    /\ key /\ key' = FALSE
    /\ phase' = IF phase \in {"ARMED", "FIRING"} THEN "DISARMED" ELSE phase
    /\ UNCHANGED <<gate, continuity, request>>

Sample ==
    /\ continuity' \in {"UNKNOWN", "OPEN", "PRESENT", "SHORT_FAULT"}
    /\ UNCHANGED <<phase, key, gate, request>>

Arm ==
    /\ key /\ phase = "DISARMED" /\ phase' = "ARMED"
    /\ UNCHANGED <<key, gate, continuity, request>>

Disarm ==
    /\ phase' = "DISARMED"
    /\ UNCHANGED <<key, gate, continuity, request>>

Request ==
    /\ request' = TRUE
    /\ UNCHANGED <<phase, key, gate, continuity>>

Fire ==
    /\ request /\ key /\ phase = "ARMED" /\ continuity = "PRESENT"
    /\ phase' = "FIRING" /\ gate' = TRUE /\ request' = FALSE
    /\ UNCHANGED <<key, continuity>>

Reject ==
    /\ request /\ request' = FALSE
    /\ phase' = "FAULT"
    /\ UNCHANGED <<key, gate, continuity>>

PulseEnd ==
    /\ gate /\ gate' = FALSE
    /\ phase' \in {"FIRED", "DISARMED"}
    /\ UNCHANGED <<key, continuity, request>>

CooldownOver ==
    /\ phase = "FIRED" /\ phase' = "DISARMED"
    /\ UNCHANGED <<key, gate, continuity, request>>

Reset ==
    /\ phase' = "DISARMED" /\ key' = FALSE /\ gate' = FALSE
    /\ continuity' = "UNKNOWN" /\ request' = FALSE

Next == \/ KeyOn \/ KeyOff \/ Sample \/ Arm \/ Disarm \/ Request
        \/ Fire \/ Reject \/ PulseEnd \/ CooldownOver \/ Reset

Spec == Init /\ [][Next]_vars
=============================================================================
