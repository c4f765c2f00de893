--------------------------- MODULE MCAsyncBatcher ---------------------------
(* Instances of AsyncBatcher for TLC: see README.md for what each bound is *)
(* for.                                                                    *)
EXTENDS AsyncBatcherInvariant, TLC

CONSTANTS p1, p2

TwoProducers == {p1, p2}

TwoSizes == {1, 2}

NoFaults  == {}
AllFaults == {"event", "finalize", "send"}

\* The threads of the application are interchangeable in the safety runs.
Threads == Permutations(TwoProducers)
=============================================================================
