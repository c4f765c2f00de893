---------------------------- MODULE MCMultistep ----------------------------
(* The instance of Multistep for TLC: three interactions are enough for a line,  *)
(* a fork, two roots, a missing ancestor and a cycle.                            *)
EXTENDS Multistep

MCMulti == {"identity", "suffix_sum", "suffix_mean"}
=============================================================================
