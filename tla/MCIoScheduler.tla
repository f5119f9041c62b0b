---------------------------- MODULE MCIoScheduler ----------------------------
(***************************************************************************)
(* Instances of IoScheduler for TLC.                                       *)
(***************************************************************************)
EXTENDS IoScheduler

CONSTANTS j1, s1, s2, k1, k2

NoPins == [j \in Jobs |-> -1]

\* k1 and k2 are the callbacks that wake s1 and s2.
Callbacks == [s \in Sleepers |-> IF s = s1 THEN k1 ELSE k2]
=============================================================================
