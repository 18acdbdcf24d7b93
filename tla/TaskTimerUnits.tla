--------------------------- MODULE TaskTimerUnits ---------------------------
(***************************************************************************)
(* Clock readings and stored durations.  The clock counts ticks; the       *)
(* duration columns hold whole minutes, rounded as Math.round does (to the *)
(* nearest, halves up).                                                    *)
(***************************************************************************)
EXTENDS Integers

CONSTANT TicksPerMinute     \* 60000 in the code: Date counts milliseconds

ASSUME TicksAssumption == TicksPerMinute \in Nat \ {0}

\* Math.round(d / 60000) for a length of time d, d >= 0
RoundMinutes(d) == (2 * d + TicksPerMinute) \div (2 * TicksPerMinute)

\* Math.max(0, n)
AtLeastZero(n) == IF n < 0 THEN 0 ELSE n
=============================================================================
