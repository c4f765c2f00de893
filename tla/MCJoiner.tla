------------------------------ MODULE MCJoiner ------------------------------
(* The instance of Joiner for TLC.  Rewards are multiples of six, so that the *)
(* averages of up to three of them are whole.                                 *)
EXTENDS Joiner

Interaction(type, mode, good, deferred, matches, baselines) ==
    [type |-> type, mode |-> mode, good |-> good, deferred |-> deferred,
     matches |-> matches, baselines |-> baselines]
Outcome(good, taken, value, time, index) ==
    [good |-> good, taken |-> taken, value |-> value, time |-> time, index |-> index]
Config(function, default, type, mode) ==
    [function |-> function, default |-> default, type |-> type, mode |-> mode]

MCInteractions == {Interaction("CB", "Online", TRUE, FALSE, {}, TRUE),
                   Interaction("CB", "Online", TRUE, TRUE, {}, TRUE),
                   Interaction("CB", "Online", FALSE, FALSE, {}, TRUE),
                   Interaction("CCB", "Apprentice", TRUE, FALSE, {1}, TRUE),
                   Interaction("CCB", "Online", TRUE, FALSE, {}, TRUE),
                   Interaction("CCB", "Apprentice", TRUE, FALSE, {1}, FALSE)}
MCOutcomes == {Outcome(TRUE, FALSE, 12, 2, 0), Outcome(TRUE, FALSE, 6, 1, 1),
               Outcome(TRUE, TRUE, 0, 1, -1), Outcome(FALSE, FALSE, 0, 1, -1)}
MCConfigs == {Config(f, 18, "CB", "Online") : f \in RewardFunctions}
                \cup {Config("sum", 18, "CCB", "Online"),
                      Config("sum", 18, "CCB", "Apprentice")}
Symmetry == Permutations(EventIds)
=============================================================================
