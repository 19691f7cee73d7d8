-------------------------------- MODULE Clock --------------------------------
(***************************************************************************)
(* The clock both units read with millis(): a uint32_t of milliseconds,    *)
(* here counted modulo CLOCK_WRAP, and the unsigned difference with which  *)
(* all the code measures time.                                             *)
(***************************************************************************)
EXTENDS Integers

CONSTANT CLOCK_WRAP                \* 2^32 in the code

ASSUME ClockAssumption == CLOCK_WRAP \in Nat \ {0}

Millis == 0 .. CLOCK_WRAP - 1

\* now - stamp on uint32_t: a stamp later than now gives a huge difference.
Elapsed(now, stamp) == (now - stamp) % CLOCK_WRAP

\* The clock runs on past its width.
ClockWithoutWrap(t) == t + 1
NextMillis(t) == (t + 1) % CLOCK_WRAP
=============================================================================
