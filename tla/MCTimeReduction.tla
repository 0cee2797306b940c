-------------------------- MODULE MCTimeReduction ---------------------------
(* Instances of TimeReduction for TLC. *)
EXTENDS TimeReduction

\* 50 * (1 - exp(-5 * increase / 100)) for increases below, at and above the
\* threshold, and far above it.
Rates == [i \in Increases |-> CASE i < 4 -> 0 [] i < 20 -> 9 [] i < 100 -> 39 [] OTHER -> 50]

\* A clock that the owner took below zero, and two above it.
ClockTimes == {-10, 20, 60}
=============================================================================
