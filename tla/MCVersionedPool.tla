--------------------------- MODULE MCVersionedPool ---------------------------
(* Instances of VersionedPool for TLC. *)
EXTENDS VersionedPool, TLC

CONSTANTS u1, u2, u3, mA, mB

TwoUsers   == {u1, u2}
ThreeUsers == {u1, u2, u3}
TwoModels  == {mA, mB}

\* The threads are interchangeable.
Threads == Permutations(ThreeUsers)
=============================================================================
