------------------------------ MODULE MCWakeup ------------------------------
(***************************************************************************)
(* Instances of Wakeup for TLC.                                            *)
(***************************************************************************)
EXTENDS Wakeup

CONSTANTS w1, bound

\* One job is bound to the worker w1; it yields READY once.
MCBoundTo == [j \in Jobs |-> IF j = bound THEN w1 ELSE None]
MCMaxYield == [j \in Jobs |-> IF j = bound THEN 1 ELSE 0]
=============================================================================
