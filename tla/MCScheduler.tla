----------------------------- MODULE MCScheduler -----------------------------
(***************************************************************************)
(* Instances of Scheduler for TLC.                                         *)
(***************************************************************************)
EXTENDS Scheduler

CONSTANTS j1

\* No job is bound to a thread.
NoPins == [j \in Jobs |-> -1]

\* j1 is bound to the worker, whose id follows that of the caller.
PinWorker == [j \in Jobs |-> IF j = j1 THEN 1 ELSE -1]
=============================================================================
