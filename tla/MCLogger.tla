------------------------------ MODULE MCLogger ------------------------------
(***************************************************************************)
(* An instance of Logger for TLC.                                          *)
(***************************************************************************)
EXTENDS Logger

\* The levels are 2 and 3; the higher one disables the lines.
MCLevelOf == [l \in Lines |-> 2]

Interchangeable == Permutations(Threads) \cup Permutations(Lines)
=============================================================================
