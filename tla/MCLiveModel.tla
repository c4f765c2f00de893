----------------------------- MODULE MCLiveModel -----------------------------
(* The instance of LiveModel for TLC: every mode with every pair of protocol  *)
(* version and model type, with and without the other options, and baselines  *)
(* of every length up to the number of slots.                                 *)
EXTENDS LiveModel

MCSetups ==
    {s \in Configurations :
        /\ s.callback => ~s.background
        /\ s.encoded => s.version = 1 /\ s.mode = "ONLINE"}
MCBaselines == {<<>>, <<1>>, <<1, 0>>}
Symmetry == Permutations(Users)
=============================================================================
