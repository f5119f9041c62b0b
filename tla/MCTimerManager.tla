--------------------------- MODULE MCTimerManager ---------------------------
(***************************************************************************)
(* Instances of TimerManager for TLC.                                      *)
(***************************************************************************)
EXTENDS TimerManager

CONSTANTS x1, x2, x3

\* Two timers with different periods and, for x3, one that is due at once.
Periods == [x \in Timers |-> CASE x = x1 -> 1 [] x = x2 -> 2 [] OTHER -> 0]
=============================================================================
