------------------------------ MODULE MCConfig ------------------------------
(***************************************************************************)
(* Instances of Config for TLC.                                            *)
(***************************************************************************)
EXTENDS Config, TLC

CONSTANTS v1, v2, y1, y2, n1, n2

\* Two variables of one name, each of a type of its own.
OwnTypes == [v \in Vars |-> IF v = v1 THEN y1 ELSE y2]
SameName == [v \in Vars |-> n1]

\* A document with a text that does not parse, a name that nobody has, and the
\* same name twice.
Texts == {<< <<n1, Unparsable>>, <<n2, 1>>, <<n1, 1>>, <<n1, 0>> >>}

\* Threads and callbacks are each interchangeable.
Interchangeable == Permutations(Threads) \cup Permutations(Callbacks)
=============================================================================
