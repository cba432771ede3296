--------------------------- MODULE MCPeriodicTimer ---------------------------
(* Intervals for TLC: with Nano = 2 the nanoseconds 1 and the clock carry  *)
(* into the seconds, and -1 is refused when the clock reads 0.             *)
EXTENDS PeriodicTimer

TwoIntervals == {[sec |-> 0, nsec |-> 1], [sec |-> 1, nsec |-> 0]}

SomeIntervals == TwoIntervals \cup {[sec |-> 0, nsec |-> -1]}
==============================================================================
