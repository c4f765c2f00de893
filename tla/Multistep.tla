------------------------------ MODULE Multistep ------------------------------
(***************************************************************************)
(* Multi-step episodes, end to end: the decisions and outcomes of one      *)
(* episode (request_episodic_decision of live_model_impl.cc, multistep.cc, *)
(* multistep_loop.cc) and the joining of its events by the trainer         *)
(* (external_parser/joiners/multistep_example_joiner.cc).                  *)
(*                                                                         *)
(* Interactions name the interaction they follow; the joiner orders the    *)
(* resulting forest and gives each interaction a reward made of its own    *)
(* and of the later ones.  Event ids are numbers, given once.  Between the *)
(* two sides events may be lost and interactions repeated; the service     *)
(* that collects them puts the events whose primary id is the episode into *)
(* one payload.                                                            *)
(***************************************************************************)
EXTENDS Rewards, FiniteSets

CONSTANTS InteractionIds,  \* a set of numbers
          Times,           \* enqueued times of interactions
          Values,          \* values of outcomes
          Functions,       \* reward functions of the configuration
          MultiFunctions,  \* multistep reward functions
          DefaultReward,
          Deferred,        \* those of the interactions whose action is deferred
          MaxOutcomes,     \* bound: outcomes reported
          MaxFaults        \* bound: events lost or repeated on their way

Episode == -1  \* the id of the episode
NoId    == 0   \* no previous_id, no index

ASSUME MultistepAssumption ==
    /\ InteractionIds \subseteq Nat \ {0} /\ Deferred \subseteq InteractionIds
    /\ Times \subseteq Nat /\ Values \subseteq Int /\ DefaultReward \in Int
    /\ Functions \subseteq RewardFunctions
    /\ MultiFunctions \subseteq {"identity", "suffix_sum", "suffix_mean"}
    /\ MaxOutcomes \in Nat /\ MaxFaults \in Nat

VARIABLES
    depths,        \* episode_history::_depths
    interactions,  \* logged interaction events
    announced,     \* number of Episode events logged, and decisions before each
    outcomes,      \* logged outcome events, in order
    function,      \* _reward_calculation and _multistep_reward_calculation
    batch,         \* the payload the joiner got, once it got it
    order,         \* _order
    rewards,       \* _rewards
    credited       \* examples given to the learner

clientVars  == <<depths, interactions, announced, outcomes>>
joinerVars  == <<batch, order, rewards, credited>>
episodeVars == <<clientVars, function, joinerVars>>

NoBatch == [read |-> FALSE]

----------------------------------------------------------------------------
(* The client *)

EpisodeInit ==
    /\ depths = <<>> /\ interactions = {} /\ announced = <<>> /\ outcomes = <<>>
    /\ function \in [step : Functions, multi : MultiFunctions]
    /\ batch = NoBatch /\ order = <<>> /\ rewards = <<>> /\ credited = {}

DepthOf(id) == IF id \in DOMAIN depths THEN depths[id] ELSE 0

\* Mutant of Updated: the depth is that of the previous interaction.
Updated_SameDepth(id, previous) ==
    [i \in DOMAIN depths \cup {id} |->
        IF i = id THEN DepthOf(previous) ELSE depths[i]]

\* episode_history::update
Updated(id, previous) ==
    [i \in DOMAIN depths \cup {id} |->
        IF i = id THEN DepthOf(previous) + 1 ELSE depths[i]]

\* request_episodic_decision: the context gets the depth the history gives, the
\* history is updated, and the first interaction announces the episode.  Ids are
\* numbered as the decisions come; the times at the service give any order.
Decide(id, previous, time) ==
    /\ batch = NoBatch
    /\ id \notin DOMAIN depths
    /\ \A i \in InteractionIds : i < id => i \in DOMAIN depths
    /\ depths' = Updated(id, previous)
    /\ announced' = IF Cardinality(DOMAIN depths') = 1
                    THEN Append(announced, Cardinality(interactions)) ELSE announced
    /\ interactions' = interactions \cup
         {[id |-> id, previous |-> previous, depth |-> DepthOf(previous) + 1,
           deferred |-> id \in Deferred, time |-> time]}
    /\ UNCHANGED <<outcomes, function, joinerVars>>

\* An outcome event.  about is what the caller reported on, for the properties.
Report(primary, index, about, value, taken) ==
    /\ batch = NoBatch /\ Len(outcomes) < MaxOutcomes
    /\ outcomes' = Append(outcomes, [primary |-> primary, index |-> index,
                                     about |-> about, value |-> value, taken |-> taken])
    /\ UNCHANGED <<depths, interactions, announced, function, joinerVars>>

\* report_outcome(episode_id, event_id, ...)
ReportOutcome(id, value) == Report(Episode, id, id, value, FALSE)

\* report_outcome(event_id, episode, ...) passes the event id as primary id.
ReportOutcomeWithState(id, value) == Report(id, Episode, id, value, FALSE)

\* report_outcome(episode_id, ...)
ReportEpisodeOutcome(value) == Report(Episode, NoId, Episode, value, FALSE)

\* report_action_taken(episode_id, event_id)
ReportActionTaken(id) == Report(Episode, id, id, 0, TRUE)

----------------------------------------------------------------------------
(* The joiner *)

\* topo_sorter: a queue of ids for each id, of those that follow it, and one of
\* the roots, each by time and then id.  It is a depth first walk from the
\* roots; what is not reached from there is left out.
Layers(S) ==
    [p \in InteractionIds \cup {NoId} |->
        {[time |-> i.time, id |-> i.id] : i \in {j \in S : j.previous = p}}]

Foremost(layer) ==
    CHOOSE e \in layer : \A f \in layer \ {e} :
        e.time < f.time \/ (e.time = f.time /\ e.id < f.id)

\* One turn of the loop of get: the foremost of the layer on top of the stack is
\* the next of the result, and its own layer comes on top; an empty layer goes.
Turn(walk) ==
    LET top == Head(walk.stack)
        cur == Foremost(walk.layers[top])
    IN  IF walk.stack = <<>> THEN walk
        ELSE IF walk.layers[top] = {} THEN [walk EXCEPT !.stack = Tail(@)]
        ELSE [stack  |-> <<cur.id>> \o walk.stack,
              layers |-> [walk.layers EXCEPT ![top] = @ \ {cur}],
              result |-> Append(walk.result, cur.id)]

\* Mutant of PopulateOrder: the interactions in the order of their times.
PopulateOrder_ByTime(S) ==
    LET sorted == SetToSortSeq(S, LAMBDA i, j :
                      i.time < j.time \/ (i.time = j.time /\ i.id < j.id))
    IN  [k \in DOMAIN sorted |-> sorted[k].id]

\* The layer of each interaction comes and goes once, and so do the roots.
PopulateOrder(S) ==
    LET turns == 2 * Cardinality(S) + 1
        walk[k \in 0 .. turns] ==
            IF k = 0 THEN [stack |-> <<NoId>>, layers |-> Layers(S), result |-> <<>>]
            ELSE Turn(walk[k - 1])
    IN  walk[turns].result

\* What s has at those places, in order.
Picked(s, places) ==
    LET picked[k \in 0 .. Len(s)] ==
            IF k = 0 THEN <<>>
            ELSE IF k \in places THEN Append(picked[k - 1], s[k]) ELSE picked[k - 1]
    IN  picked[Len(s)]

\* process_outcome drops the time of an outcome: all have the same.
Parsed(o) == [value |-> o.value, taken |-> o.taken, time |-> 0]
OutcomesWith(index, os) ==
    LET sel == Picked(os, {k \in DOMAIN os : os[k].index = index})
    IN  [k \in DOMAIN sel |-> Parsed(sel[k])]

\* populate_episodic_rewards: the outcomes of the episode come first.
StepReward(id, os) ==
    RewardOf(function.step, OutcomesWith(NoId, os) \o OutcomesWith(id, os), DefaultReward)

\* Mutant of SuffixSum: a loop from the front.
SuffixSum_Forward(rs) ==
    FoldLeft(LAMBDA acc, k : [acc EXCEPT ![k + 1] = @ + acc[k]],
             rs, [k \in 1 .. Len(rs) - 1 |-> k])

\* multistep_reward_suffix_sum: a loop from the back, here over the last k.
SuffixSum(rs) ==
    LET sum[k \in 0 .. Len(rs)] ==
            IF k = 0 THEN 0 ELSE sum[k - 1] + rs[Len(rs) - k + 1]
    IN  [k \in 1 .. Len(rs) |-> sum[Len(rs) - k + 1]]

\* The divisions are kept as fractions: the reward is num / den.
Fractions(rs) == [k \in DOMAIN rs |-> [num |-> rs[k], den |-> 1]]
SuffixMean(rs) ==
    [k \in DOMAIN rs |-> [num |-> SuffixSum(rs)[k], den |-> Len(rs) - k + 1]]

EpisodicRewards(ids, os) ==
    LET steps == [k \in DOMAIN ids |-> StepReward(ids[k], os)]
    IN  CASE function.multi = "identity"    -> Fractions(steps)
          [] function.multi = "suffix_sum"  -> Fractions(SuffixSum(steps))
          [] function.multi = "suffix_mean" -> SuffixMean(steps)

\* A batch is read (on_new_batch, process_event, on_batch_read).  repeated are
\* the interactions that are in it twice, lost the place of an outcome that did
\* not arrive, or 0.
ReadBatch(S, repeated, lost) ==
    /\ batch = NoBatch /\ interactions # {}
    /\ S \subseteq interactions /\ repeated \subseteq S
    /\ Cardinality(interactions \ S) + Cardinality(repeated)
         + (IF lost = 0 THEN 0 ELSE 1) <= MaxFaults
    /\ LET arrived == Picked(outcomes, {k \in DOMAIN outcomes :
                                          k # lost /\ outcomes[k].primary = Episode})
       IN  /\ batch' = [read |-> TRUE, interactions |-> S, repeated |-> repeated,
                          outcomes |-> arrived]
           /\ order' = PopulateOrder(S)
           /\ rewards' = EpisodicRewards(order', arrived)
    /\ UNCHANGED <<clientVars, function, credited>>

\* process_joined: a repeated interaction is skipped, a deferred one needs an
\* outcome that says the action was taken.
ProcessJoinedStep ==
    /\ batch # NoBatch /\ order # <<>>
    /\ LET i == CHOOSE j \in batch.interactions : j.id = Head(order)
           activated == \E k \in DOMAIN batch.outcomes :
                           /\ batch.outcomes[k].index \in {i.id, NoId}
                           /\ batch.outcomes[k].taken
       IN  credited' = IF i \in batch.repeated \/ (i.deferred /\ ~activated)
                      THEN credited
                      ELSE credited \cup {[id |-> i.id, reward |-> Head(rewards)]}
    /\ order' = Tail(order) /\ rewards' = Tail(rewards)
    /\ UNCHANGED <<clientVars, function, batch>>

EpisodeNext ==
    \/ \E id \in InteractionIds, previous \in InteractionIds \cup {NoId}, time \in Times :
          Decide(id, previous, time)
    \/ \E id \in DOMAIN depths, value \in Values :
          \/ ReportOutcome(id, value)
          \/ ReportOutcomeWithState(id, value)
    \/ \E value \in Values : ReportEpisodeOutcome(value)
    \/ \E id \in DOMAIN depths : ReportActionTaken(id)
    \/ \E S \in SUBSET interactions : \E repeated \in SUBSET S :
          \E lost \in 0 .. Len(outcomes) :
             ReadBatch(S, repeated, lost)
    \/ ProcessJoinedStep

EpisodeSpec == EpisodeInit /\ [][EpisodeNext]_episodeVars

----------------------------------------------------------------------------
(* Properties *)

EpisodeTypeOK ==
    /\ DOMAIN depths = {i.id : i \in interactions}
    /\ \A id \in DOMAIN depths : depths[id] \in 1 .. Cardinality(interactions)
    /\ Len(outcomes) <= MaxOutcomes
    /\ Len(order) = Len(rewards)
    /\ {l.id : l \in credited} \subseteq InteractionIds

InteractionOf(id) == CHOOSE i \in interactions : i.id = id

\* The depth in the context of an interaction counts the interactions it
\* follows, itself included, and is the one the history keeps of it.
DepthIsPath ==
    \A i \in interactions :
        /\ depths[i.id] = i.depth
        /\ i.previous = NoId => i.depth = 1
        /\ i.depth > 1 =>
             /\ i.previous \in DOMAIN depths
             /\ i.depth = InteractionOf(i.previous).depth + 1

\* The trainer hears of an episode once, before the first of its interactions.
AnnouncedOnce ==
    announced = IF interactions = {} THEN <<>> ELSE <<0>>

\* The history of an episode, which the caller may carry through many calls,
\* goes with what was logged of it: depths and the announcement of the episode.
HistoryMatchesLog == EpisodeTypeOK /\ DepthIsPath /\ AnnouncedOnce

Received == {i.id : i \in batch.interactions}
PreviousOf(id) == InteractionOf(id).previous

\* An interaction and those it follows, back to the first or to one that is
\* missing: whatever has the one, and with each the one it follows, has them all.
LineOf(id) ==
    {j \in Received : \A C \in SUBSET Received :
        /\ id \in C
        /\ \A i \in C : PreviousOf(i) \in Received => PreviousOf(i) \in C
        => j \in C}
Rooted(id) == \E first \in LineOf(id) : PreviousOf(first) = NoId

\* Interactions whose line was received whole are ordered, each once and after
\* the one it follows, whatever the clocks say of the order of the two.
OrderFollowsPrevious ==
    [][batch = NoBatch /\ batch' # NoBatch =>
         /\ IsInjective(order')
         /\ ToSet(order') = {id \in Received : Rooted(id)}'
         /\ \A m, n \in DOMAIN order' :
               PreviousOf(order'[n]) = order'[m] => m < n]_episodeVars

Value(r, n) == r.num = n * r.den

\* The episode is one line of interactions, received without a gap.
IsLine ==
    /\ \A i, j \in Received : i # j => PreviousOf(i) # PreviousOf(j)
    /\ \A i \in Received : Rooted(i)

After(id) == {j \in Received : id \in LineOf(j)}

\* r is the reward of the interaction id of a line.
IsCredit(id, r) ==
    LET own == [i \in Received |-> [value |-> StepReward(i, batch.outcomes)]]
        total == Total(own, After(id))
    IN  CASE function.multi = "identity"    -> Value(r, own[id].value)
          [] function.multi = "suffix_sum"  -> Value(r, total)
          [] function.multi = "suffix_mean" ->
               r.num = total /\ r.den = Cardinality(After(id))

\* For an episode that is a line: each interaction is given, of its own step
\* reward and those of the interactions that follow it, the sum or the mean;
\* never one of an earlier step.
LineIsCredited ==
    batch # NoBatch /\ IsLine => \A l \in credited : IsCredit(l.id, l.reward)

\* "Report outcome of a decision based on a pair of episode and event
\* identifiers. The outcome is associated with an individual interaction"
\* (multistep_loop.h): an outcome that is reported for an interaction and
\* arrives is among the outcomes the reward of that interaction is made of.
OutcomeReachesInteraction ==
    batch # NoBatch => \A k \in DOMAIN outcomes :
        LET o == outcomes[k] IN
        o.about \in Received =>
            \/ \E n \in DOMAIN batch.outcomes : batch.outcomes[n].index = o.about
            \/ \E n \in DOMAIN outcomes : outcomes[n] = o /\ o.primary = Episode
=============================================================================
