-------------------------------- MODULE Dedup --------------------------------
(***************************************************************************)
(* Deduplication of the actions of interaction events, end to end.         *)
(*                                                                         *)
(* The sender: dedup_extensions over dedup_dict, action_dict_builder and   *)
(* dedup_collection_serializer (rlclientlib/dedup.cc).  The batcher's      *)
(* thread takes an event off the queue, replaces its actions by object     *)
(* ids (generic_event::transform), adds it to the batch and, when the      *)
(* batch is full, prepends the dictionary of the objects it uses.          *)
(*                                                                         *)
(* The receiver: example_joiner::process_dedup over lru_dedup_cache        *)
(* (external_parser), which resolves the ids of the events that follow a   *)
(* dictionary.  Batches may get lost, repeated and reordered on the way.   *)
(*                                                                         *)
(* The sizes that close a batch (the high water mark, the estimate of      *)
(* compression) are left open: a batch may be closed after any event.      *)
(***************************************************************************)
EXTENDS Integers, FiniteSets, Sequences, SequencesExt

CONSTANTS Objects,    \* contents of actions
          Ids,        \* object ids
          Hash,       \* hash_content: Objects -> Ids
          Contexts,   \* the action lists of events
          MaxEvents,  \* bound: events submitted
          MaxBatch,   \* bound: events in a batch
          MaxFaults   \* bound: failures of a compressor or of the serializer

ASSUME DedupAssumption ==
    /\ IsFiniteSet(Ids)
    /\ Hash \in [Objects -> Ids]
    /\ Contexts \subseteq Seq(Objects)
    /\ MaxEvents \in Nat /\ MaxBatch \in Nat \ {0} /\ MaxFaults \in Nat

VARIABLES
    dict,       \* dedup_dict::_entries: id -> count and content
    evt,        \* the event between its transform and its batch, or None
    used,       \* action_dict_builder::_used_objects: id -> count
    batch,      \* the events of the open batch
    net,        \* batches handed to the sender
    submitted,  \* number of events taken off the queue
    faults,     \* number of failures
    leaked,     \* references of events that were given up: id -> count
    lru,        \* the receiver's cache, most recent id first
    examples,   \* dedup_examples: cached ids -> content
    decoded     \* events the receiver rebuilt: what it saw, what was meant

senderVars   == <<dict, evt, used, batch, submitted, faults, leaked>>
receiverVars == <<lru, examples, decoded>>
vars         == <<senderVars, net, receiverVars>>

None == [event |-> "none"]
Zero == [i \in Ids |-> 0]
Missing == "missing"

----------------------------------------------------------------------------
(* dedup_dict *)

AddObject(d, o) ==
    LET h == Hash[o]
    IN  IF h \in DOMAIN d THEN [d EXCEPT ![h].count = @ + 1]
        ELSE [i \in DOMAIN d \cup {h} |->
                IF i = h THEN [count |-> 1, content |-> o] ELSE d[i]]

\* Mutant of AddObjects: only the first action of the event is added.
AddObjects_First(d, objs) == IF objs = <<>> THEN d ELSE AddObject(d, objs[1])

AddObjects(d, objs) == FoldLeft(AddObject, d, objs)

\* Mutant of RemoveAll: one reference is removed of each used id.
RemoveAll_One(d, counts) ==
    LET left(i) == d[i].count - (IF counts[i] > 0 THEN 1 ELSE 0)
    IN  [i \in {j \in DOMAIN d : left(j) > 0} |-> [d[i] EXCEPT !.count = left(i)]]

Lesser(a, b) == IF a <= b THEN a ELSE b

\* remove_object for every used id: at most the count that is there, and the
\* entry goes with its last reference.
RemoveAll(d, counts) ==
    LET left(i) == d[i].count - Lesser(d[i].count, counts[i])
    IN  [i \in {j \in DOMAIN d : left(j) > 0} |-> [d[i] EXCEPT !.count = left(i)]]

CountIds(counts, ids) ==
    [i \in Ids |-> counts[i] + Cardinality({k \in DOMAIN ids : ids[k] = i})]

UsedIds == {i \in Ids : used[i] > 0}

----------------------------------------------------------------------------
Init ==
    /\ dict = <<>> /\ evt = None /\ used = Zero /\ batch = <<>>
    /\ net = {} /\ submitted = 0 /\ faults = 0 /\ leaked = Zero
    /\ lru = <<>> /\ examples = <<>> /\ decoded = {}

\* transform: the actions go into the dictionary, the event keeps their ids.
Transform(objs) ==
    /\ evt = None /\ Len(batch) < MaxBatch /\ submitted < MaxEvents
    /\ dict' = AddObjects(dict, objs)
    /\ evt' = [objs |-> objs, ids |-> [i \in DOMAIN objs |-> Hash[objs[i]]]]
    /\ submitted' = submitted + 1
    /\ UNCHANGED <<used, batch, net, faults, leaked, receiverVars>>

\* action_dict_builder::add, then the event's own serialization.
AddToBatch ==
    /\ evt # None
    /\ \A i \in ToSet(evt.ids) : used[i] = 0 => i \in DOMAIN dict
    /\ used' = CountIds(used, evt.ids)
    /\ batch' = Append(batch, evt)
    /\ evt' = None
    /\ UNCHANGED <<dict, net, submitted, faults, leaked, receiverVars>>

\* An event fails after its transform: its compression, or serialization.
\* fill_buffer gives the batch up; the references of its events stay in the
\* dictionary for good.
Fail ==
    /\ evt # None /\ faults < MaxFaults
    /\ faults' = faults + 1
    /\ leaked' = [i \in Ids |-> leaked[i] + CountIds(used, evt.ids)[i]]
    /\ evt' = None /\ used' = Zero /\ batch' = <<>>
    /\ UNCHANGED <<dict, net, submitted, receiverVars>>

\* Permutations of the used ids: the order of an unordered_map.
Orders(S) == {s \in [1 .. Cardinality(S) -> S] : IsInjective(s)}

\* action_dict_builder::finalize: the values are read, the references removed,
\* then the dictionary is compressed; if that fails the batch is lost.
Finalize ==
    /\ evt = None /\ batch # <<>>
    /\ UsedIds \subseteq DOMAIN dict
    /\ dict' = RemoveAll(dict, used)
    /\ used' = Zero /\ batch' = <<>>
    /\ \/ /\ \E ids \in Orders(UsedIds) :
                net' = net \cup {[ids |-> ids,
                                  values |-> [i \in DOMAIN ids |-> dict[ids[i]].content],
                                  events |-> batch]}
          /\ faults' = faults
       \/ /\ faults < MaxFaults
          /\ faults' = faults + 1
          /\ net' = net
    /\ UNCHANGED <<evt, submitted, leaked, receiverVars>>

----------------------------------------------------------------------------
(* lru_dedup_cache *)

\* Mutant of Touch: an id that is cached keeps its place.
Touch_KeepsPlace(order, id) == IF id \in ToSet(order) THEN order ELSE <<id>> \o order

\* lru_pos
Place(order, id) == CHOOSE n \in DOMAIN order : order[n] = id

\* add puts a new id at the front, update moves one that is cached there.
Touch(order, id) ==
    <<id>> \o (IF id \in ToSet(order) THEN RemoveAt(order, Place(order, id)) ELSE order)
TouchAll(order, ids) == FoldLeft(Touch, order, ids)

\* Mutant of ClearAfter: the given id goes, too.
ClearAfter_OffByOne(order, id) ==
    SubSeq(order, 1, Place(order, id) - 1)

\* clear_after: everything behind the given id goes.
ClearAfter(order, id) == SubSeq(order, 1, Place(order, id))

\* An id that is cached keeps the example it has.
Cached(ids, values, n) ==
    [i \in DOMAIN examples \cup {ids[k] : k \in 1 .. n} |->
        IF i \in DOMAIN examples THEN examples[i]
        ELSE values[CHOOSE k \in 1 .. n : ids[k] = i]]

Keep(f, order) == [i \in ToSet(order) |-> f[i]]

Resolve(cache, e) ==
    [i \in DOMAIN e.ids |->
        IF e.ids[i] \in DOMAIN cache THEN cache[e.ids[i]] ELSE Missing]

\* process_dedup succeeds, and the events of the payload are rebuilt.
Receive(b) ==
    LET order == IF b.ids = <<>> THEN lru
                 ELSE ClearAfter(TouchAll(lru, b.ids), b.ids[1])
        cache == Keep(Cached(b.ids, b.values, Len(b.ids)), order)
    IN  /\ b \in net
        /\ lru' = order
        /\ examples' = cache
        /\ decoded' = decoded \cup {[saw |-> Resolve(cache, b.events[k]),
                                     meant |-> b.events[k].objs] :
                                       k \in DOMAIN b.events}
        /\ UNCHANGED <<senderVars, net>>

\* process_dedup fails on the JSON of the n-th object, one that is not cached:
\* the payload is skipped, the objects before it stay in the cache.
ReceiveFails(b, n) ==
    /\ b \in net
    /\ n \in DOMAIN b.ids /\ b.ids[n] \notin DOMAIN examples
    /\ lru' = TouchAll(lru, SubSeq(b.ids, 1, n - 1))
    /\ examples' = Cached(b.ids, b.values, n - 1)
    /\ UNCHANGED <<senderVars, net, decoded>>

Next ==
    \/ \E objs \in Contexts : Transform(objs)
    \/ AddToBatch
    \/ Fail
    \/ Finalize
    \/ \E b \in net : Receive(b)
    \/ \E b \in net : \E n \in DOMAIN b.ids : ReceiveFails(b, n)

Spec == Init /\ [][Next]_vars

\* The batcher's thread goes on as long as there are events.
FairSpec == Spec /\ WF_vars(AddToBatch) /\ WF_vars(Finalize)

----------------------------------------------------------------------------
(* Properties *)

TypeOK ==
    /\ DOMAIN dict \subseteq Ids
    /\ \A i \in DOMAIN dict :
          /\ dict[i].count \in Nat \ {0}
          /\ Hash[dict[i].content] = i
    /\ used \in [Ids -> Nat] /\ leaked \in [Ids -> Nat]
    /\ submitted \in 0 .. MaxEvents /\ faults \in 0 .. MaxFaults
    /\ DOMAIN examples = ToSet(lru) /\ IsInjective(lru)

Held == IF evt = None THEN used ELSE CountIds(used, evt.ids)

\* The references of the dictionary are those of the open batch, of the event
\* on its way into it and, for good, of the events given up by a failure:
\* without failures the dictionary is empty between batches.
ReferencesBalance ==
    TypeOK /\ \A i \in Ids :
        (IF i \in DOMAIN dict THEN dict[i].count ELSE 0) = Held[i] + leaked[i]

\* Whatever is lost, repeated or reordered on the way, and whatever dictionary
\* failed half way before, an event that is rebuilt has the actions the caller
\* passed: the cache never lacks one, and never holds a wrong one.
DecodedIsMeant == \A d \in decoded : d.saw = d.meant

\* "If we call clear_after with the first example of the new dedup payload we
\* can assume that anything after that can be evicted as it was not in the new
\* dedup payload" (lru_dedup_cache.h): after a payload the cache holds its ids
\* and nothing else.
CacheIsPayload ==
    [][\A b \in net : Receive(b) /\ b.ids # <<>> => DOMAIN examples' = ToSet(b.ids)]_vars

\* No "Key not found" ever holds an event up: what was taken off the queue
\* comes to its batch or is given up, and the batch is closed.
EventsMoveOn == evt # None \/ batch # <<>> ~> evt = None /\ batch = <<>>
=============================================================================
