----------------------------- MODULE ClockProofs -----------------------------
(***************************************************************************)
(* Lemmas about the clock and the unsigned differences of its readings,    *)
(* for every width of the clock.                                           *)
(***************************************************************************)
EXTENDS Clock, TLAPS

(* The clock stays a uint32_t.                                             *)
LEMMA ClockType == 0 \in Millis /\ \A t \in Millis : NextMillis(t) \in Millis
  BY ClockAssumption DEF Millis, NextMillis

(* Elapsed is the difference of two readings of a clock of CLOCK_WRAP      *)
(* values, whichever of them is the greater number.                        *)
LEMMA ElapsedByCases ==
  ASSUME NEW a \in Millis, NEW b \in Millis
  PROVE  Elapsed(a, b) = IF a >= b THEN a - b ELSE a - b + CLOCK_WRAP
  BY ClockAssumption DEF Millis, Elapsed

(* The clock wraps to 0 after its last value.                              *)
LEMMA NextMillisByCases ==
  ASSUME NEW a \in Millis
  PROVE  NextMillis(a) = IF a + 1 = CLOCK_WRAP THEN 0 ELSE a + 1
  BY ClockAssumption DEF Millis, NextMillis

(* A difference is again a uint32_t.                                       *)
LEMMA ElapsedType ==
  ASSUME NEW a \in Millis, NEW b \in Millis
  PROVE  Elapsed(a, b) \in Nat /\ Elapsed(a, b) < CLOCK_WRAP
  BY ClockAssumption, ElapsedByCases DEF Millis

(* No time has passed since this very reading.                             *)
LEMMA ElapsedSelf ==
  ASSUME NEW a \in Millis
  PROVE  Elapsed(a, a) = 0
  BY ElapsedByCases DEF Millis

(* A millisecond makes every difference grow by one, short of a wrap of it. *)
LEMMA ElapsedGrows ==
  ASSUME NEW a \in Millis, NEW b \in Millis, Elapsed(a, b) + 1 < CLOCK_WRAP
  PROVE  Elapsed(NextMillis(a), b) = Elapsed(a, b) + 1
  <1>1. NextMillis(a) \in Millis
    BY ClockType
  <1>2. QED
    BY <1>1, ClockAssumption, ElapsedByCases, NextMillisByCases DEF Millis

(* Time from b to a goes through t unless t comes before b: then the       *)
(* difference a - t is the greater one.                                    *)
LEMMA ElapsedThrough ==
  ASSUME NEW a \in Millis, NEW b \in Millis, NEW t \in Millis,
         Elapsed(a, b) >= Elapsed(a, t)
  PROVE  Elapsed(a, b) = Elapsed(t, b) + Elapsed(a, t)
  BY ClockAssumption, ElapsedByCases DEF Millis

(* Two differences add up as long as their sum does not wrap.              *)
LEMMA ElapsedAdds ==
  ASSUME NEW a \in Millis, NEW t \in Millis, NEW b \in Millis,
         Elapsed(a, t) + Elapsed(t, b) < CLOCK_WRAP
  PROVE  Elapsed(a, b) = Elapsed(a, t) + Elapsed(t, b)
  BY ClockAssumption, ElapsedByCases DEF Millis
=============================================================================
