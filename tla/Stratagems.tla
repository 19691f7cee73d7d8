----------------------------- MODULE Stratagems -----------------------------
(***************************************************************************)
(* The table STRATAGEM_DB of lib/common/stratagems.cpp: the identifier of  *)
(* each entry (stratagems.h), its arrows, and whether it may be drawn.     *)
(***************************************************************************)
EXTENDS Naturals, Sequences

U == "UP"
D == "DOWN"
L == "LEFT"
R == "RIGHT"

\* An entry that is not drawn, and one of the launch pool.
Def(id, sequence) ==
    [id |-> id, sequence |-> sequence, inLaunchPool |-> FALSE]
Pool(id, sequence) ==
    [id |-> id, sequence |-> sequence, inLaunchPool |-> TRUE]

Eagle ==
    <<Pool(1, <<U, R, D, R>>), Def(2, <<U, R, D, D, D>>), Def(3, <<U, R, R>>),
      Pool(4, <<U, R, U, L>>), Def(5, <<U, R, D, U>>),
      Def(6, <<U, R, D, D, R>>), Def(7, <<U, R, U, D>>)>>

Orbital ==
    <<Pool(10, <<R, R, D, R>>), Def(11, <<R, R, R>>),
      Def(12, <<R, U, D, D, R>>), Def(13, <<R, D, U, R, D>>),
      Def(14, <<R, D, L, U, U>>), Def(15, <<R, D, U, U, L, D, D>>),
      Def(16, <<R, R, D, L, R, D>>), Def(17, <<R, R, L, D>>),
      Def(18, <<R, R, D, R>>), Def(19, <<R, R, D, L, R, U>>),
      Def(20, <<R, D, R, D, R, D>>), Def(21, <<R, R, D, U>>)>>

Mission ==
    <<Pool(30, <<U, D, R, L, U>>), Pool(31, <<D, D, R, U>>),
      Def(32, <<U, D, R, U>>), Def(33, <<U, U, L, U, R>>),
      Def(34, <<D, U, L, D, U, R, D, U>>), Def(35, <<D, U, D, U>>),
      Def(36, <<D, D, D, U, U>>), Def(37, <<L, R, U, U, U>>),
      Def(38, <<R, U, U, D>>)>>

SHIPPED_DB == Eagle \o Orbital \o Mission

\* What the rest of the code takes for granted of the table: its identifiers
\* are unique, a sequence fits the input buffer (MAX_STRATAGEM_LEN) and ends,
\* and the marked entries fill the launch pool (LAUNCH_POOL_SIZE).
ASSUME ShippedTable ==
    /\ \A i, j \in DOMAIN SHIPPED_DB :
          SHIPPED_DB[i].id = SHIPPED_DB[j].id => i = j
    /\ \A i \in DOMAIN SHIPPED_DB :
          /\ Len(SHIPPED_DB[i].sequence) \in 1 .. 8
          /\ \A k \in DOMAIN SHIPPED_DB[i].sequence :
                SHIPPED_DB[i].sequence[k] \in {U, D, L, R}
    /\ Len(SelectSeq(SHIPPED_DB, LAMBDA def : def.inLaunchPool)) = 5
=============================================================================
