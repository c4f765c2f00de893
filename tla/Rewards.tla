------------------------------- MODULE Rewards -------------------------------
(***************************************************************************)
(* The reward functions of event_processors/reward.h, each a loop over the *)
(* outcomes of an event in the order they were read, and what each is      *)
(* meant to compute.  An outcome is a record with its value, the time it   *)
(* was enqueued and whether it only reports that the action was taken.     *)
(*                                                                         *)
(* Rewards are integers, and quotients are rounded down.  Smallest stands  *)
(* for numeric_limits<float>::min, the smallest positive float, Largest    *)
(* for numeric_limits<float>::max and Never for TimePoint::max.            *)
(***************************************************************************)
EXTENDS Integers, Sequences, SequencesExt, FiniteSetsExt

Smallest == 0  \* rounds to zero on the grid of the rewards
Largest  == 1000
Never    == 1000

\* Where the outcomes that carry a reward stand: ~action_taken.
Observed(outcomes) == {k \in DOMAIN outcomes : ~outcomes[k].taken}

\* The loop that sum and average share, over the first k outcomes.
SumAndN(outcomes) ==
    LET acc[k \in 0 .. Len(outcomes)] ==
            IF k = 0 THEN [sum |-> 0, N |-> 0]
            ELSE IF outcomes[k].taken THEN acc[k - 1]
            ELSE [sum |-> acc[k - 1].sum + outcomes[k].value, N |-> acc[k - 1].N + 1]
    IN  acc[Len(outcomes)]

RewardSum(outcomes, default) ==
    IF SumAndN(outcomes).N = 0 THEN default ELSE SumAndN(outcomes).sum

RewardAverage(outcomes, default) ==
    IF SumAndN(outcomes).N = 0 THEN default
    ELSE SumAndN(outcomes).sum \div SumAndN(outcomes).N

MinLoop(outcomes) ==
    LET least[k \in 0 .. Len(outcomes)] ==
            IF k = 0 THEN Largest
            ELSE IF ~outcomes[k].taken /\ outcomes[k].value < least[k - 1]
                 THEN outcomes[k].value ELSE least[k - 1]
    IN  least[Len(outcomes)]

RewardMin(outcomes, default) ==
    IF MinLoop(outcomes) = Largest THEN default ELSE MinLoop(outcomes)

MaxLoop(outcomes) ==
    LET most[k \in 0 .. Len(outcomes)] ==
            IF k = 0 THEN Smallest
            ELSE IF ~outcomes[k].taken /\ outcomes[k].value > most[k - 1]
                 THEN outcomes[k].value ELSE most[k - 1]
    IN  most[Len(outcomes)]

RewardMax(outcomes, default) ==
    IF MaxLoop(outcomes) = Smallest THEN default ELSE MaxLoop(outcomes)

\* The places of the observed outcomes, from the least value to the greatest.
Sorted(outcomes) ==
    LET n == Cardinality(Observed(outcomes))
    IN  CHOOSE p \in [1 .. n -> Observed(outcomes)] :
            \A a, b \in 1 .. n :
               a < b => p[a] # p[b] /\ outcomes[p[a]].value <= outcomes[p[b]].value

RewardMedian(outcomes, default) ==
    LET n == Cardinality(Observed(outcomes))
        values == [k \in 1 .. n |-> outcomes[Sorted(outcomes)[k]].value]
    IN  IF n = 0 THEN default
        ELSE IF n % 2 = 0 THEN (values[n \div 2] + values[n \div 2 + 1]) \div 2
        ELSE values[n \div 2 + 1]

EarliestLoop(outcomes, default) ==
    LET best[k \in 0 .. Len(outcomes)] ==
            IF k = 0 THEN [value |-> default, time |-> Never]
            ELSE IF ~outcomes[k].taken /\ outcomes[k].time < best[k - 1].time
                 THEN [value |-> outcomes[k].value, time |-> outcomes[k].time]
                 ELSE best[k - 1]
    IN  best[Len(outcomes)]

RewardEarliest(outcomes, default) == EarliestLoop(outcomes, default).value

RewardFunctions == {"earliest", "average", "sum", "min", "max", "median"}

\* set_reward_function picks one of them.
RewardOf(function, outcomes, default) ==
    CASE function = "earliest" -> RewardEarliest(outcomes, default)
      [] function = "average"  -> RewardAverage(outcomes, default)
      [] function = "sum"      -> RewardSum(outcomes, default)
      [] function = "min"      -> RewardMin(outcomes, default)
      [] function = "max"      -> RewardMax(outcomes, default)
      [] function = "median"   -> RewardMedian(outcomes, default)

----------------------------------------------------------------------------
(* What a reward must be, said without loops *)

Total(outcomes, D) == MapThenSumSet(LAMBDA k : outcomes[k].value, D)

ValuesOf(outcomes) == {outcomes[k].value : k \in Observed(outcomes)}

\* v is the n-th of the values, counted from the least.
IsNth(v, n, outcomes) ==
    LET D == Observed(outcomes)
    IN  /\ v \in ValuesOf(outcomes)
        /\ Cardinality({k \in D : outcomes[k].value < v}) < n
        /\ Cardinality({k \in D : outcomes[k].value <= v}) >= n

\* r is the value of the outcome enqueued first; of those enqueued at one time,
\* of the one that was read first.
IsEarliest(r, outcomes) ==
    \E i \in Observed(outcomes) :
        /\ r = outcomes[i].value
        /\ \A j \in Observed(outcomes) \ {i} :
              /\ outcomes[i].time <= outcomes[j].time
              /\ j < i => outcomes[i].time < outcomes[j].time

\* r is the reward of those outcomes.  Nothing is said of the values the loops
\* use for "no outcome": a largest value that is not positive, a smallest that
\* is no less than Largest, and outcomes without a time before Never.
IsReward(r, function, outcomes, default) ==
    LET D == Observed(outcomes)
        n == Cardinality(D)
    IN  IF D = {} THEN r = default
        ELSE CASE function = "sum"     -> r = Total(outcomes, D)
               [] function = "average" -> /\ r * n <= Total(outcomes, D)
                                          /\ Total(outcomes, D) < r * n + n
               [] function = "min"     -> LET least == Min(ValuesOf(outcomes))
                                          IN  least < Largest => r = least
               [] function = "max"     -> LET most == Max(ValuesOf(outcomes))
                                          IN  most > Smallest => r = most
               [] function = "median"  ->
                    \E u, v \in ValuesOf(outcomes) :
                        /\ IsNth(u, (n + 1) \div 2, outcomes)
                        /\ IsNth(v, n \div 2 + 1, outcomes)
                        /\ 2 * r <= u + v /\ u + v < 2 * r + 2
               [] function = "earliest" ->
                    (\E k \in D : outcomes[k].time < Never) => IsEarliest(r, outcomes)
=============================================================================
