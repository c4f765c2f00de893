------------------------------- MODULE Joiner -------------------------------
(***************************************************************************)
(* The binary parser of the trainer (external_parser): the loop of         *)
(* parse_example_binary.cc over the messages of a log file, the grouping   *)
(* and joining of joiners/example_joiner.cc and the labels of              *)
(* event_processors/joined_event.h.                                        *)
(*                                                                         *)
(* A joined payload is read event by event: events are grouped by id in    *)
(* the order of arrival, then the groups are joined one by one, each into  *)
(* an example to learn from or into nothing.  What the bytes of an event   *)
(* hold is given by its record: whether it decodes, its type and mode, its *)
(* value.  DedupInfo events that succeed are the subject of Dedup.         *)
(***************************************************************************)
EXTENDS Rewards, FiniteSets

CONSTANTS EventIds,
          Interactions,  \* contents of interaction events
          Outcomes,      \* contents of outcome events
          Configs,       \* contents of checkpoint messages
          Sticky,        \* settings the command line may fix
          MaxPayloads,   \* bound: regular messages in the file
          MaxEvents      \* bound: events in the file

Types == {"CB", "CCB", "Slates", "CA"}
Modes == {"Online", "Apprentice", "LoggingOnly"}
Settings == {"function", "default", "type", "mode"}
Unset == "unset"

\* Slots of a CCB interaction; the other types have one reward.
NumSlots == 2
SlotsOf(type) == IF type = "CCB" THEN 0 .. NumSlots - 1 ELSE {0}

ASSUME JoinerAssumption ==
    /\ \A i \in Interactions :
          /\ i.type \in Types /\ i.mode \in Modes
          /\ i.good \in BOOLEAN /\ i.deferred \in BOOLEAN
          /\ i.matches \subseteq SlotsOf(i.type) /\ i.baselines \in BOOLEAN
    /\ \A o \in Outcomes :
          /\ o.good \in BOOLEAN /\ o.taken \in BOOLEAN
          /\ o.value \in Int /\ o.time \in Nat /\ o.index \in -1 .. NumSlots
    /\ \A c \in Configs : c.function \in RewardFunctions
    /\ Sticky \subseteq Settings
    /\ MaxPayloads \in Nat /\ MaxEvents \in Nat

VARIABLES
    pc,       \* "reading" messages, "grouping" a payload, joining a "batch", "done"
    config,   \* _loop_info and _reward_calculation
    fixed,    \* settings given on the command line (sticky_value)
    payload,  \* regular messages read
    events,   \* number of events read
    grouped,  \* _batch_grouped_events: id -> events
    queue,    \* _batch_event_order
    learned   \* examples given to the learner

vars == <<pc, config, fixed, payload, events, grouped, queue, learned>>

NoGroups == <<>>

Ready == config.type # Unset /\ config.function # Unset

----------------------------------------------------------------------------
Init ==
    /\ pc = "reading"
    /\ fixed \in {{}, Sticky}
    /\ \E c \in Configs :
          config = [s \in Settings |->
                      IF s \in fixed THEN c[s]
                      ELSE IF s = "default" THEN 0
                      ELSE IF s = "mode" THEN "Online" ELSE Unset]
    /\ payload = 0 /\ events = 0
    /\ grouped = NoGroups /\ queue = <<>> /\ learned = <<>>

\* read_checkpoint_msg: what the command line fixed stays.
ReadCheckpoint(c) ==
    /\ pc = "reading"
    /\ config' = [s \in Settings |-> IF s \in fixed THEN config[s] ELSE c[s]]
    /\ UNCHANGED <<pc, fixed, payload, events, grouped, queue, learned>>

\* read_regular_msg before any checkpoint: the events are ignored.
IgnoreRegular ==
    /\ pc = "reading" /\ ~Ready /\ payload < MaxPayloads
    /\ payload' = payload + 1
    /\ UNCHANGED <<pc, config, fixed, events, grouped, queue, learned>>

ReadRegular ==
    /\ pc = "reading" /\ Ready /\ payload < MaxPayloads
    /\ payload' = payload + 1
    /\ \/ pc' = "grouping"
       \/ pc' = pc  \* verification failed
    /\ UNCHANGED <<config, fixed, events, grouped, queue, learned>>

\* Mutant of Group: an id is queued with each of its events.
Group_AlwaysQueued(id, e) ==
    /\ pc = "grouping" /\ events < MaxEvents
    /\ events' = events + 1
    /\ grouped' = IF id \in DOMAIN grouped
                  THEN [grouped EXCEPT ![id] = Append(@, e)]
                  ELSE [i \in DOMAIN grouped \cup {id} |->
                          IF i = id THEN <<e>> ELSE grouped[i]]
    /\ queue' = Append(queue, id)
    /\ UNCHANGED <<pc, config, fixed, payload, learned>>

\* process_event of an event of the payload.
Group(id, e) ==
    /\ pc = "grouping" /\ events < MaxEvents
    /\ events' = events + 1
    /\ grouped' = IF id \in DOMAIN grouped
                  THEN [grouped EXCEPT ![id] = Append(@, e)]
                  ELSE [i \in DOMAIN grouped \cup {id} |->
                          IF i = id THEN <<e>> ELSE grouped[i]]
    /\ queue' = IF id \in DOMAIN grouped THEN queue ELSE Append(queue, id)
    /\ UNCHANGED <<pc, config, fixed, payload, learned>>

GroupInteraction(id, i) == Group(id, [content |-> i, interaction |-> TRUE, from |-> payload])
GroupOutcome(id, o) == Group(id, [content |-> o, interaction |-> FALSE, from |-> payload])

\* process_event fails: on a malformed event or one of an episode the groups
\* stay, and are joined with those of the next payload although this one is said
\* to be skipped; on a dictionary that cannot be read they are cleared
\* (clear_batch_info).  The message loop goes on to the next message.
GroupFails(cleared) ==
    /\ pc = "grouping" /\ events < MaxEvents
    /\ pc' = "reading"
    /\ events' = events + 1
    /\ grouped' = IF cleared THEN NoGroups ELSE grouped
    /\ queue' = IF cleared THEN <<>> ELSE queue
    /\ UNCHANGED <<config, fixed, payload, learned>>

EndPayload ==
    /\ pc = "grouping"
    /\ pc' = "batch"
    /\ UNCHANGED <<config, fixed, payload, events, grouped, queue, learned>>

----------------------------------------------------------------------------
(* process_joined *)

NoInteraction == [found |-> FALSE, ok |-> TRUE, interaction |-> Unset, outcomes |-> <<>>]

\* process_interaction: of the configured type and mode, and readable.
Valid(i) == i.good /\ i.type = config.type /\ i.mode = config.mode

\* Mutant of JoinEvent: an outcome that cannot be read is left out.
JoinEvent_Lenient(je, e) ==
    IF e.interaction
    THEN IF Valid(e.content) /\ ~je.found
         THEN [je EXCEPT !.found = TRUE, !.interaction = e.content]
         ELSE je
    ELSE IF je.found /\ e.content.good
         THEN [je EXCEPT !.outcomes = Append(@, e.content)] ELSE je

\* One event of the group.  A second interaction does not replace the first
\* (emplace); an outcome is kept only when the interaction came before it, and
\* one that cannot be read invalidates what came before it.
JoinEvent(je, e) ==
    IF e.interaction
    THEN IF Valid(e.content) /\ ~je.found
         THEN [je EXCEPT !.found = TRUE, !.interaction = e.content]
         ELSE je
    ELSE IF ~je.found THEN je
         ELSE IF e.content.good THEN [je EXCEPT !.outcomes = Append(@, e.content)]
         ELSE [je EXCEPT !.ok = FALSE]

\* The events of the group in the order of their arrival.
Joined(group) ==
    LET je[n \in 0 .. Len(group)] ==
            IF n = 0 THEN NoInteraction ELSE JoinEvent(je[n - 1], group[n])
    IN  je[Len(group)]

\* is_joined_event_learnable: a deferred action is activated by an outcome.
Learnable(je) ==
    je.interaction.deferred => \E k \in DOMAIN je.outcomes : je.outcomes[k].taken

\* outcomes_map[slot]: the loop of calc_cost over the outcomes.
OutcomesAt(outcomes, slot) ==
    LET kept[k \in 0 .. Len(outcomes)] ==
            IF k = 0 THEN <<>>
            ELSE IF outcomes[k].index = slot THEN Append(kept[k - 1], outcomes[k])
            ELSE kept[k - 1]
    IN  kept[Len(outcomes)]

OutcomesOf(je, slot) ==
    IF je.interaction.type = "CCB" THEN OutcomesAt(je.outcomes, slot) ELSE je.outcomes

ApprenticeMatching    == 1
ApprenticeNotMatching == 0

\* calc_cost and set_apprentice_reward, for the rewards the labels use.
\* Apprentice mode rewards a match with the baseline; it is not implemented
\* for slates and continuous actions, which get the default reward.  A CCB
\* event without a baseline for each slot is left without rewards, and its
\* labels are read from past the end of an empty vector: any value.
Garbage == {-1, 0, 1}
RewardsOf(je) ==
    LET slots == SlotsOf(je.interaction.type)
        observed == [s \in slots |->
                       RewardOf(config.function, OutcomesOf(je, s), config.default)]
        matched == [s \in slots |-> IF s \in je.interaction.matches
                                    THEN ApprenticeMatching ELSE ApprenticeNotMatching]
    IN  IF je.interaction.mode # "Apprentice" THEN {observed}
        ELSE CASE je.interaction.type \in {"Slates", "CA"} ->
                    {[s \in slots |-> config.default]}
               [] je.interaction.type = "CCB" /\ ~je.interaction.baselines ->
                    [slots -> Garbage]
               [] OTHER -> {matched}

\* Mutant of ProcessJoined: a group that is learned from is not cleared.
ProcessJoined_Kept ==
    LET id == Head(queue)
        je == Joined(grouped[id])
    IN  /\ pc = "batch" /\ queue # <<>>
        /\ IF je.found /\ je.ok /\ Learnable(je)
           THEN /\ \E r \in RewardsOf(je) :
                     learned' = Append(learned, [id |-> id, rewards |-> r,
                                                 group |-> grouped[id], config |-> config])
                /\ UNCHANGED <<grouped, queue>>
           ELSE /\ learned' = learned
                /\ grouped' = [i \in DOMAIN grouped \ {id} |-> grouped[i]]
                /\ queue' = Tail(queue)
        /\ UNCHANGED <<pc, config, fixed, payload, events>>

\* One group is joined; whatever comes of it, its id is cleared.
ProcessJoined ==
    LET id == Head(queue)
        je == Joined(grouped[id])
    IN  /\ pc = "batch" /\ queue # <<>>
        /\ IF je.found /\ je.ok /\ Learnable(je)
           THEN \E r \in RewardsOf(je) :
                   learned' = Append(learned, [id |-> id, rewards |-> r,
                                               group |-> grouped[id], config |-> config])
           ELSE learned' = learned
        /\ grouped' = [i \in DOMAIN grouped \ {id} |-> grouped[i]]
        /\ queue' = Tail(queue)
        /\ UNCHANGED <<pc, config, fixed, payload, events>>

EndBatch ==
    /\ pc = "batch" /\ queue = <<>>
    /\ pc' = "reading"
    /\ UNCHANGED <<config, fixed, payload, events, grouped, queue, learned>>

\* The end of the file.
Eof ==
    /\ pc = "reading"
    /\ pc' = "done"
    /\ UNCHANGED <<config, fixed, payload, events, grouped, queue, learned>>

Next ==
    \/ \E c \in Configs : ReadCheckpoint(c)
    \/ IgnoreRegular
    \/ ReadRegular
    \/ \E id \in EventIds, i \in Interactions : GroupInteraction(id, i)
    \/ \E id \in EventIds, o \in Outcomes : GroupOutcome(id, o)
    \/ \E cleared \in BOOLEAN : GroupFails(cleared)
    \/ EndPayload
    \/ ProcessJoined
    \/ EndBatch
    \/ Eof

Spec == Init /\ [][Next]_vars

----------------------------------------------------------------------------
(* Properties *)

TypeOK ==
    /\ pc \in {"reading", "grouping", "batch", "done"}
    /\ DOMAIN config = Settings
    /\ payload \in 0 .. MaxPayloads
    /\ events \in 0 .. MaxEvents
    /\ DOMAIN grouped \subseteq EventIds
    /\ \A id \in DOMAIN grouped : grouped[id] # <<>>

\* The queue of ids and the map of groups never come apart: each group is
\* queued once, so that it is joined once and none is left behind.
QueueMatchesGroups ==
    /\ TypeOK
    /\ IsInjective(queue)
    /\ ToSet(queue) = DOMAIN grouped

Fits(i, c) == i.good /\ i.type = c.type /\ i.mode = c.mode

\* The n-th event of its group is the interaction an example is made of: the
\* first that can be read and is of the configured type and mode.
IsSource(l, n) ==
    /\ l.group[n].interaction /\ Fits(l.group[n].content, l.config)
    /\ \A m \in 1 .. n - 1 :
          l.group[m].interaction => ~Fits(l.group[m].content, l.config)

IsJustified(l) ==
    \E n \in DOMAIN l.group :
        LET i == l.group[n].content
            later == {m \in n + 1 .. Len(l.group) : ~l.group[m].interaction}
        IN  /\ IsSource(l, n)
            /\ \A m \in later : l.group[m].content.good
            /\ i.deferred => \E m \in later : l.group[m].content.taken
            /\ i.mode = "Apprentice" /\ i.type \in {"CB", "CCB"} /\ i.baselines =>
                 \A s \in SlotsOf(i.type) : l.rewards[s] = 1 <=> s \in i.matches

\* Nothing is learned from a group with an outcome behind its interaction that
\* cannot be read, nor of a deferred action that no such outcome activates; and
\* in apprentice mode the labels are the matches of that very interaction.
LearnedIsJustified == \A k \in DOMAIN learned : IsJustified(learned[k])

\* pos lists a set of numbers, from the least to the greatest.
Lists(pos, S) ==
    /\ {pos[k] : k \in DOMAIN pos} = S
    /\ \A j, k \in DOMAIN pos : j < k => pos[j] < pos[k]

\* Where the outcomes of a slot stand behind the n-th event of the group; for
\* the types without slots, where the outcomes stand.
OutcomesBehind(group, n, slot) ==
    {m \in n + 1 .. Len(group) :
        /\ ~group[m].interaction
        /\ group[n].content.type = "CCB" => group[m].content.index = slot}

\* The reward of a slot is that of the outcomes of the slot that were read after
\* the interaction, the n-th event of the group: of all of them, in the order
\* they were read, and of no others.
IsRewardOfSlot(l, n, slot) ==
    LET S == OutcomesBehind(l.group, n, slot)
    IN  \E pos \in [1 .. Cardinality(S) -> S] :
           /\ Lists(pos, S)
           /\ IsReward(l.rewards[slot], l.config.function,
                       [k \in DOMAIN pos |-> l.group[pos[k]].content], l.config.default)

IsRewarded(l) ==
    \E n \in DOMAIN l.group :
        LET i == l.group[n].content
        IN  /\ IsSource(l, n)
            /\ i.mode # "Apprentice" => \A slot \in SlotsOf(i.type) : IsRewardOfSlot(l, n, slot)

\* An example is learned for the reasons above, and with the reward of the
\* outcomes of its own event by the configured function.
LearnedIsRight ==
    /\ LearnedIsJustified
    /\ \A k \in DOMAIN learned : IsRewarded(learned[k])

\* An event is learned from at most once per payload it was grouped from: a
\* group is never joined with events of itself a second time.
LearnedOnce ==
    \A j, k \in DOMAIN learned :
        j # k /\ learned[j].id = learned[k].id =>
            \A m \in DOMAIN learned[j].group, n \in DOMAIN learned[k].group :
                learned[j].group[m].from # learned[k].group[n].from
=============================================================================
