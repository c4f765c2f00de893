--------------------------- MODULE MCModelRefresh ---------------------------
(* Instances of ModelRefresh for TLC. *)
EXTENDS ModelRefresh, TLC

CONSTANTS u1, u2

OneUser  == {u1}
TwoUsers == {u1, u2}

\* The threads are interchangeable.
Threads == Permutations(TwoUsers)
=============================================================================
