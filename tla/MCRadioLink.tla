---------------------------- MODULE MCRadioLink ----------------------------
(* Instances of RadioLink for TLC.                                         *)
EXTENDS RadioLink

MCTokens == {1, 2, 3}
=============================================================================
