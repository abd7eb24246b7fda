---------------------------- MODULE ResponseTime ----------------------------
(***************************************************************************)
(* How statsEntry.logResponseTime rounds a response time, in milliseconds, *)
(* to the key under which it is counted.                                   *)
(***************************************************************************)
EXTENDS Integers

\* round(val, .5, places) for unit = 10^-places: to a multiple of unit, half up.
\* On the times below 10^15 float64 computes the same.
RoundTo(val, unit) ==
  IF 2 * (val % unit) >= unit THEN unit * (val \div unit) + unit ELSE unit * (val \div unit)

Unit(t) == IF t < 100 THEN 1 ELSE IF t < 1000 THEN 10 ELSE IF t < 10000 THEN 100 ELSE 1000

RoundedResponseTime(t) == IF t < 100 THEN t ELSE RoundTo(t, Unit(t))

-----------------------------------------------------------------------------
Distance(a, b) == IF a < b THEN b - a ELSE a - b

\* The percentiles computed from the keys are within five percent of the times
\* that were recorded.
WithinFivePercent(t) == 20 * Distance(RoundedResponseTime(t), t) <= t

\* Rounding keeps the order of the times, also where the unit changes, so that
\* percentiles of the keys are percentiles of the times.
OrderKept(t) == RoundedResponseTime(t) <= RoundedResponseTime(t + 1)

\* No multiple of the unit is closer to the time than its key, and of two that
\* are as close the key is the larger one.
IsNearest(t) ==
  LET key == RoundedResponseTime(t)
      unit == Unit(t)
  IN  /\ key % unit = 0
      /\ \A m \in {key - unit, key + unit} :
           Distance(m, t) >= Distance(key, t) /\ (Distance(m, t) = Distance(key, t) => m < key)
=============================================================================
