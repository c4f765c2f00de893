---------------------------- MODULE AsyncBatcher ----------------------------
(***************************************************************************)
(* The asynchronous batcher of rlclientlib: application threads append     *)
(* events to a bounded event_queue; one background thread pops them,       *)
(* serializes them into batches and hands the batches to the sender; the   *)
(* destructor stops and joins that thread and flushes what is left.        *)
(*   logger/event_queue.h, logger/async_batcher.h                          *)
(*   utility/periodic_background_proc.h, utility/interruptable_sleeper.h   *)
(*   try_drop of ranking_event.cc and generic_event.cc                     *)
(*                                                                         *)
(* An event is named by its ticket, the number event_queue::push gives it  *)
(* under the queue's mutex.  Pushes and pops are serialized by that mutex  *)
(* and the list is only appended to, popped at its front and filtered, so  *)
(* the list is the set of its tickets and its front is the least of them.  *)
(***************************************************************************)
EXTENDS Integers, Sequences, FiniteSets, FiniteSetsExt

CONSTANTS
  Producers,      \* application threads that call append
  Sizes,          \* the sizes an event may have (size_estimate)
  MaxSize,        \* an upper bound of Sizes
  MaxCapacity,    \* config.send_queue_max_capacity
  HighWaterMark,  \* config.send_high_water_mark
  QueueMode,      \* config.queue_mode: "BLOCK" or "DROP"
  CountEvents,    \* config.event_counter_status = ENABLE
  Subsample,      \* config.subsample_rate < 1
  Faults,         \* the operations that may fail: "event", "finalize", "send"
  MaxAppends      \* bound: calls of append in a behaviour

ASSUME BatcherAssumption ==
  /\ IsFiniteSet(Producers)
  /\ MaxSize \in Nat
  /\ Sizes \subseteq 0..MaxSize
  /\ MaxCapacity \in Nat \ {0}
  /\ HighWaterMark \in Nat \ {0}
  /\ QueueMode \in {"BLOCK", "DROP"}
  /\ CountEvents \in BOOLEAN
  /\ Subsample \in BOOLEAN
  /\ Faults \subseteq {"event", "finalize", "send"}
  /\ MaxAppends \in Nat

VARIABLES
  \* event_queue
  queue,       \* tickets in _queue
  capacity,    \* _capacity: the sum of the sizes of the queued events
  eventIndex,  \* _event_index, and the number of events pushed
  dropPass,    \* _drop_pass
  unexamined,  \* tickets that the prune in progress has still to try
  event,       \* per ticket: size, draws survived, factors of _pass_prob
  \* application threads
  offered,     \* number of calls of append so far
  pc,          \* where each thread is in append
  \* the thread that flushes: the background thread, then the destructor
  bg,          \* state of the background thread
  interrupt,   \* interruptable_sleeper::_interrupt
  dtor,        \* progress of ~async_batcher
  fl,          \* location in flush / fill_buffer; "idle" outside
  remaining,   \* local `remaining' of flush
  inflight,    \* the popped event, until it is serialized: {} or {ticket}
  batch,       \* tickets in the collection serializer
  batchSize,   \* collection_serializer.size()
  endIndex,    \* _buffer_end_event_index
  range,       \* <<from, to>>: the indices counted in this buffer's metadata
  \* what left the batcher
  sent,        \* batches the sender took, in order
  pruned,      \* tickets dropped by prune (DROP mode)
  lost         \* tickets lost with an error reported to the error callback

queueVars   == <<queue, capacity, eventIndex, dropPass, unexamined, event>>
appendVars  == <<offered, pc>>
threadVars  == <<bg, interrupt, dtor>>
flushVars   == <<fl, remaining, inflight, batch, batchSize, endIndex, range>>
outcomeVars == <<sent, pruned, lost>>
vars == <<queueVars, appendVars, threadVars, flushVars, outcomeVars>>

-----------------------------------------------------------------------------
(* event_queue                                                             *)

Tickets == 1..eventIndex

\* Mutant: is_full with > for >=.
Full_OffByOne == capacity > MaxCapacity

\* is_full() reads _capacity without the queue's mutex.
Full == capacity >= MaxCapacity

\* (std::max)(0, static_cast<int>(_capacity) - static_cast<int>(size))
Less(c, s) == IF c >= s THEN c - s ELSE 0

\* The pass number append and push both give to try_drop when they subsample.
SubsamplePass == -1

\* try_drop multiplies _pass_prob and draws prg(drop_pass), which depends on
\* the event's id and on the pass only.  An event that survives keeps the
\* factor and the pass whose draw it survived.
Survive(e, pass) ==
  [size |-> e.size, draws |-> e.draws \cup {pass}, factors |-> e.factors + 1]

\* An event as append receives it, and after append has subsampled it.
NewEvent(s) == [size |-> s, draws |-> {}, factors |-> 0]
Subsampled(e) == IF Subsample THEN Survive(e, SubsamplePass) ELSE e

\* A prune holds the queue's mutex from its first entry to its last, while
\* is_full() of other threads reads the capacity it is changing.
QueueUnlocked == \A p \in Producers : pc[p] # "pruning"

\* push, with try_drop on the draw that the event survived in append.
Push(e) ==
  /\ QueueUnlocked
  /\ eventIndex' = eventIndex + 1
  /\ event' = [t \in 1..eventIndex + 1 |->
                 IF t \in Tickets THEN event[t] ELSE Subsampled(e)]
  /\ capacity' = capacity + e.size
  /\ queue' = queue \cup {eventIndex + 1}
  /\ UNCHANGED <<dropPass, unexamined>>

\* Mutants: pop from the back; pop that forgets the size.
Pop_Back(t) ==
  /\ QueueUnlocked
  /\ t \in queue
  /\ \A u \in queue : u <= t
  /\ queue' = queue \ {t}
  /\ capacity' = Less(capacity, event[t].size)
  /\ UNCHANGED <<eventIndex, dropPass, unexamined, event>>

Pop_KeepsCapacity(t) ==
  /\ QueueUnlocked
  /\ t \in queue
  /\ \A u \in queue : t <= u
  /\ queue' = queue \ {t}
  /\ UNCHANGED <<capacity, eventIndex, dropPass, unexamined, event>>

\* pop of the front of a queue that is not empty.
Pop(t) ==
  /\ QueueUnlocked
  /\ t \in queue
  /\ \A u \in queue : t <= u
  /\ queue' = queue \ {t}
  /\ capacity' = Less(capacity, event[t].size)
  /\ UNCHANGED <<eventIndex, dropPass, unexamined, event>>

-----------------------------------------------------------------------------
(* append, on a thread of the application                                  *)

\* Appends are made between init and the destructor: event_logger refuses
\* the earlier ones, and it owns the batcher.
MayAppend(p) ==
  /\ pc[p] = "idle"
  /\ bg # "none" /\ dtor = "alive"
  /\ offered < MaxAppends

\* try_drop drops the event: append returns success.
AppendSubsampledAway(p) ==
  /\ Subsample
  /\ MayAppend(p)
  /\ offered' = offered + 1
  /\ UNCHANGED <<queueVars, pc, threadVars, flushVars, outcomeVars>>

AppendPush(p, s) ==
  /\ MayAppend(p)
  /\ Push(Subsampled(NewEvent(s)))
  /\ offered' = offered + 1
  /\ pc' = [pc EXCEPT ![p] = "pushed"]
  /\ UNCHANGED <<threadVars, flushVars, outcomeVars>>

\* if (_queue.is_full()) in append, after the push and outside every lock.
CheckFull(p) ==
  /\ pc[p] = "pushed"
  /\ pc' = [pc EXCEPT ![p] =
       IF ~Full THEN "idle" ELSE IF QueueMode = "BLOCK" THEN "wait" ELSE "prune"]
  /\ UNCHANGED <<queueVars, offered, threadVars, flushVars, outcomeVars>>

\* One turn of _cv.wait(lk, pred): with _m locked, evaluate the predicate.  A
\* thread that found the queue full keeps _m until it sleeps.
WaitCheck(p) ==
  /\ pc[p] = "wait"
  /\ \A q \in Producers : pc[q] # "drowsy"
  /\ pc' = [pc EXCEPT ![p] = IF Full THEN "drowsy" ELSE "idle"]
  /\ UNCHANGED <<queueVars, offered, threadVars, flushVars, outcomeVars>>

\* The thread enters the condition variable's queue and releases _m.
FallAsleep(p) ==
  /\ pc[p] = "drowsy"
  /\ pc' = [pc EXCEPT ![p] = "sleeping"]
  /\ UNCHANGED <<queueVars, offered, threadVars, flushVars, outcomeVars>>

\* A condition variable may wake a thread that nobody notified.
SpuriousWakeup(p) ==
  /\ pc[p] = "sleeping"
  /\ pc' = [pc EXCEPT ![p] = "wait"]
  /\ UNCHANGED <<queueVars, offered, threadVars, flushVars, outcomeVars>>

\* prune: with the mutex, return if the queue is not full any more.
PruneBegin(p) ==
  /\ pc[p] = "prune"
  /\ QueueUnlocked
  /\ IF Full
     THEN /\ pc' = [pc EXCEPT ![p] = "pruning"]
          /\ unexamined' = queue
     ELSE /\ pc' = [pc EXCEPT ![p] = "idle"]
          /\ UNCHANGED unexamined
  /\ UNCHANGED <<queue, capacity, eventIndex, dropPass, event, offered,
                 threadVars, flushVars, outcomeVars>>

\* One turn of prune's loop: try_drop with the current pass erases the entry
\* or leaves it.
PruneEntry(p, t) ==
  /\ pc[p] = "pruning"
  /\ t \in unexamined
  /\ \A u \in unexamined : t <= u
  /\ unexamined' = unexamined \ {t}
  /\ \/ /\ queue' = queue \ {t}
        /\ capacity' = Less(capacity, event[t].size)
        /\ pruned' = pruned \cup {t}
        /\ UNCHANGED event
     \/ /\ event' = [event EXCEPT ![t] = Survive(@, dropPass)]
        /\ UNCHANGED <<queue, capacity, pruned>>
  /\ UNCHANGED <<eventIndex, dropPass, appendVars, threadVars, flushVars, sent, lost>>

\* Mutant: every prune draws with the same pass.
PruneEnd_SamePass(p) ==
  /\ pc[p] = "pruning"
  /\ unexamined = {}
  /\ pc' = [pc EXCEPT ![p] = "idle"]
  /\ UNCHANGED <<queueVars, offered, threadVars, flushVars, outcomeVars>>

PruneEnd(p) ==
  /\ pc[p] = "pruning"
  /\ unexamined = {}
  /\ dropPass' = dropPass + 1
  /\ pc' = [pc EXCEPT ![p] = "idle"]
  /\ UNCHANGED <<queue, capacity, eventIndex, unexamined, event, offered,
                 threadVars, flushVars, outcomeVars>>

-----------------------------------------------------------------------------
(* flush and fill_buffer, on the background thread or in the destructor    *)

\* The threads that call flush: run_iteration, and the destructor once the
\* background thread is joined.
OnBackgroundThread == bg = "running"
InDestructor       == dtor = "flushing"

\* flush returns: to the sleep of time_loop, or to the end of the destructor.
FlushReturns ==
  /\ fl' = "idle"
  /\ bg' = IF OnBackgroundThread THEN "asleep" ELSE bg
  /\ dtor' = IF InDestructor THEN "flushed" ELSE dtor

\* A buffer from the pool, and a collection serializer on it.
NewBuffer ==
  /\ batch' = {}
  /\ batchSize' = 0
  /\ range' = <<endIndex, endIndex>>

\* flush takes the size of the queue once, and counts it down.
FlushBegin ==
  /\ fl = "idle"
  /\ OnBackgroundThread \/ InDestructor
  /\ QueueUnlocked
  /\ IF queue = {}
     THEN /\ FlushReturns
          /\ UNCHANGED <<remaining, batch, batchSize, range>>
     ELSE /\ fl' = "fill"
          /\ remaining' = Cardinality(queue)
          /\ NewBuffer
          /\ UNCHANGED <<bg, dtor>>
  /\ UNCHANGED <<queueVars, appendVars, interrupt, inflight, endIndex, outcomeVars>>

\* The condition of fill_buffer's loop.
WantsMore == remaining > 0 /\ batchSize < HighWaterMark

FillPop(t) ==
  /\ fl = "fill" /\ WantsMore
  /\ Pop(t)
  /\ inflight' = {t}
  /\ fl' = IF QueueMode = "BLOCK" THEN "notify" ELSE "serialize"
  /\ UNCHANGED <<appendVars, threadVars, remaining, batch, batchSize, endIndex,
                 range, outcomeVars>>

\* pop returns false: the loop tries again, at once.
FillSpin ==
  /\ fl = "fill" /\ WantsMore
  /\ QueueUnlocked
  /\ queue = {}
  /\ UNCHANGED vars

Sleepers == {p \in Producers : pc[p] = "sleeping"}

\* _cv.notify_one(), without _m: it wakes one of the threads asleep by now.
FillNotify ==
  /\ fl = "notify"
  /\ fl' = "serialize"
  /\ \/ \E p \in Sleepers : pc' = [pc EXCEPT ![p] = "wait"]
     \/ Sleepers = {} /\ UNCHANGED pc
  /\ UNCHANGED <<queueVars, offered, threadVars, remaining, inflight, batch,
                 batchSize, endIndex, range, outcomeVars>>

\* Mutant: the event is serialized and not counted down.
FillSerialize_Uncounted(t) ==
  /\ fl = "serialize"
  /\ t \in inflight
  /\ batch' = batch \cup {t}
  /\ batchSize' = batchSize + event[t].size
  /\ inflight' = {}
  /\ fl' = "fill"
  /\ UNCHANGED <<queueVars, appendVars, threadVars, remaining, endIndex, range, outcomeVars>>

\* f_evt hands over the event and add serializes it.  If one of them fails,
\* fill_buffer returns at once: `remaining' still counts the event, and the
\* buffer, which only finalize completes, is sent as it is.
FillSerialize(t) ==
  /\ fl = "serialize"
  /\ t \in inflight
  /\ \/ /\ batch' = batch \cup {t}
        /\ batchSize' = batchSize + event[t].size
        /\ remaining' = remaining - 1
        /\ inflight' = {}
        /\ fl' = "fill"
     \/ /\ "event" \in Faults
        /\ fl' = "sendUnfinished"
        /\ UNCHANGED <<batch, batchSize, remaining, inflight>>
  /\ UNCHANGED <<queueVars, appendVars, threadVars, endIndex, range, outcomeVars>>

\* Mutant: _buffer_end_event_index is not moved.
FillFinalize_StaleEnd(last) ==
  /\ fl = "fill" /\ ~WantsMore
  /\ last \in batch
  /\ \A t \in batch : t <= last
  /\ range' = <<endIndex, last>>
  /\ fl' = "send"
  /\ UNCHANGED <<queueVars, appendVars, threadVars, remaining, inflight, batch,
                 batchSize, endIndex, outcomeVars>>

\* The end of fill_buffer.  `evt' still holds the last event of the batch:
\* its index moves _buffer_end_event_index before finalize can fail.
FillFinalize(last) ==
  /\ fl = "fill" /\ ~WantsMore
  /\ last \in batch
  /\ \A t \in batch : t <= last
  /\ IF CountEvents
     THEN endIndex' = last /\ range' = <<endIndex, last>>
     ELSE UNCHANGED <<endIndex, range>>
  /\ \/ fl' = "send"
     \/ "finalize" \in Faults /\ fl' = "sendUnfinished"
  /\ UNCHANGED <<queueVars, appendVars, threadVars, remaining, inflight, batch,
                 batchSize, outcomeVars>>

\* The loop of flush: another buffer while `remaining' > 0.
FlushContinues ==
  IF remaining > 0
  THEN /\ fl' = "fill"
       /\ NewBuffer
       /\ UNCHANGED <<bg, dtor>>
  ELSE /\ FlushReturns
       /\ batch' = {}
       /\ batchSize' = 0
       /\ UNCHANGED range

\* _sender->send of a finished buffer; its failure goes to the error callback.
FlushSend ==
  /\ fl = "send"
  /\ \/ /\ sent' = Append(sent, [events |-> batch, counted |-> range])
        /\ UNCHANGED lost
     \/ /\ "send" \in Faults
        /\ lost' = lost \cup batch
        /\ UNCHANGED sent
  /\ FlushContinues
  /\ UNCHANGED <<queueVars, appendVars, interrupt, remaining, inflight, endIndex, pruned>>

\* Mutant: the failure of fill_buffer is not reported.
FlushSendUnfinished_Silent ==
  /\ fl = "sendUnfinished"
  /\ inflight' = {}
  /\ FlushContinues
  /\ UNCHANGED <<queueVars, appendVars, interrupt, remaining, endIndex, outcomeVars>>

\* fill_buffer failed: the error callback runs, and the buffer is sent without
\* the body that finalize would have given it.
FlushSendUnfinished ==
  /\ fl = "sendUnfinished"
  /\ lost' = lost \cup batch \cup inflight
  /\ inflight' = {}
  /\ FlushContinues
  /\ UNCHANGED <<queueVars, appendVars, interrupt, remaining, endIndex, sent, pruned>>

-----------------------------------------------------------------------------
(* The background thread and the destructor                                *)

\* init starts the thread, and only then looks at the subsampling rate.
StartThread ==
  /\ bg = "none" /\ dtor = "alive"
  /\ bg' = "running"
  /\ UNCHANGED <<queueVars, appendVars, interrupt, dtor, flushVars, outcomeVars>>

\* Mutant: sleep returns the negation of what it should.
Wake_Inverted ==
  /\ bg = "asleep"
  /\ bg' = IF interrupt THEN "running" ELSE "exited"
  /\ UNCHANGED <<queueVars, appendVars, interrupt, dtor, flushVars, outcomeVars>>

\* _sleeper.sleep returns: true when the interval is over, false when interrupted.
Wake ==
  /\ bg = "asleep"
  /\ bg' = IF interrupt THEN "exited" ELSE "running"
  /\ UNCHANGED <<queueVars, appendVars, interrupt, dtor, flushVars, outcomeVars>>

\* Mutant: stop does not interrupt the sleep.
DestructorStop_NoInterrupt ==
  /\ dtor = "alive"
  /\ \A p \in Producers : pc[p] = "idle"
  /\ dtor' = IF bg = "none" THEN "joined" ELSE "stopping"
  /\ UNCHANGED <<queueVars, appendVars, bg, interrupt, flushVars, outcomeVars>>

\* ~async_batcher, when no append is in progress: _periodic_background_proc.stop()
\* interrupts the sleep, if the thread was started.
DestructorStop ==
  /\ dtor = "alive"
  /\ \A p \in Producers : pc[p] = "idle"
  /\ IF bg = "none"
     THEN dtor' = "joined" /\ UNCHANGED interrupt
     ELSE dtor' = "stopping" /\ interrupt' = TRUE
  /\ UNCHANGED <<queueVars, appendVars, bg, flushVars, outcomeVars>>

\* _background_thread.join() returns.
DestructorJoin ==
  /\ dtor = "stopping" /\ bg = "exited"
  /\ dtor' = "joined"
  /\ UNCHANGED <<queueVars, appendVars, bg, interrupt, flushVars, outcomeVars>>

\* Mutant: the destructor does not flush.
DestructorFlush_Skipped ==
  /\ dtor = "joined"
  /\ dtor' = "flushed"
  /\ UNCHANGED <<queueVars, appendVars, bg, interrupt, flushVars, outcomeVars>>

\* if (_queue.size() > 0) { flush(); }
DestructorFlush ==
  /\ dtor = "joined"
  /\ dtor' = IF queue # {} THEN "flushing" ELSE "flushed"
  /\ UNCHANGED <<queueVars, appendVars, bg, interrupt, flushVars, outcomeVars>>

\* The members are destroyed, and the destructor returns.
DestructorEnd ==
  /\ dtor = "flushed"
  /\ dtor' = "destroyed"
  /\ UNCHANGED <<queueVars, appendVars, bg, interrupt, flushVars, outcomeVars>>

Destroyed == dtor = "destroyed" /\ UNCHANGED vars

-----------------------------------------------------------------------------

Init ==
  /\ queue = {} /\ capacity = 0 /\ eventIndex = 0 /\ dropPass = 0
  /\ unexamined = {} /\ event = [t \in {} |-> NewEvent(0)]
  /\ offered = 0 /\ pc = [p \in Producers |-> "idle"]
  /\ bg = "none" /\ interrupt = FALSE /\ dtor = "alive"
  /\ fl = "idle" /\ remaining = 0 /\ inflight = {} /\ batch = {}
  /\ batchSize = 0 /\ endIndex = 0 /\ range = <<0, 0>>
  /\ sent = <<>> /\ pruned = {} /\ lost = {}

AppendBegin(p) == AppendSubsampledAway(p) \/ \E s \in Sizes : AppendPush(p, s)

\* The steps of a thread that is inside append.
AppendStep(p) ==
  \/ CheckFull(p) \/ WaitCheck(p) \/ FallAsleep(p)
  \/ PruneBegin(p) \/ PruneEnd(p)
  \/ \E t \in unexamined : PruneEntry(p, t)

FlushStep ==
  \/ FlushBegin \/ FillNotify \/ FillSpin \/ FlushSend \/ FlushSendUnfinished
  \/ \E t \in queue : FillPop(t)
  \/ \E t \in inflight : FillSerialize(t)
  \/ \E t \in batch : FillFinalize(t)

DestructorStep == DestructorJoin \/ DestructorFlush \/ DestructorEnd

Next ==
  \/ \E p \in Producers : AppendBegin(p) \/ AppendStep(p) \/ SpuriousWakeup(p)
  \/ FlushStep
  \/ StartThread \/ Wake
  \/ DestructorStop \/ DestructorStep
  \/ Destroyed

Spec == Init /\ [][Next]_vars

\* Every thread that can run runs, and a timed sleep ends.  Nothing forces the
\* application to append or to destroy the batcher, nor a condition variable
\* to wake a thread spuriously.
Fairness ==
  /\ \A p \in Producers : WF_vars(AppendStep(p))
  /\ WF_vars(FlushStep)
  /\ WF_vars(Wake)
  /\ WF_vars(DestructorStep)

FairSpec == Spec /\ Fairness

-----------------------------------------------------------------------------
(* Properties                                                              *)

Event == [size : Sizes, draws : SUBSET Int, factors : Nat]

Batch == [events : SUBSET Tickets, counted : Nat \X Nat]

QueueTypeOK ==
  /\ eventIndex \in Nat
  /\ dropPass \in Nat
  /\ capacity \in Nat
  /\ event \in [Tickets -> Event]
  /\ queue \subseteq Tickets
  /\ unexamined \subseteq queue

AppendTypeOK ==
  /\ offered \in 0..MaxAppends
  /\ pc \in [Producers -> {"idle", "pushed", "wait", "drowsy", "sleeping",
                           "prune", "pruning"}]

ThreadTypeOK ==
  /\ bg \in {"none", "running", "asleep", "exited"}
  /\ interrupt \in BOOLEAN
  /\ dtor \in {"alive", "stopping", "joined", "flushing", "flushed", "destroyed"}

FlushTypeOK ==
  /\ fl \in {"idle", "fill", "notify", "serialize", "send", "sendUnfinished"}
  /\ remaining \in Nat
  /\ inflight \subseteq Tickets
  /\ batch \subseteq Tickets
  /\ batchSize \in Nat
  /\ endIndex \in Nat
  /\ range \in Nat \X Nat

OutcomeTypeOK ==
  /\ sent \in Seq(Batch)
  /\ pruned \subseteq Tickets
  /\ lost \subseteq Tickets

TypeOK == QueueTypeOK /\ AppendTypeOK /\ ThreadTypeOK /\ FlushTypeOK /\ OutcomeTypeOK

Delivered == UNION {sent[i].events : i \in DOMAIN sent}
Pending   == queue \cup inflight \cup batch

\* The batches leave in the order in which the events were pushed, and no
\* event leaves twice: whatever threads append, prune and flush meanwhile, an
\* event that was sent was pushed before every event that is still inside,
\* and those before the flush keep their order in the batch, the popped event
\* and the queue.
SentInOrder ==
  /\ \A i, j \in DOMAIN sent : i < j =>
       \A a \in sent[i].events, b \in sent[j].events : a < b
  /\ \A d \in Delivered, t \in Pending : d < t
  /\ \A b \in batch, t \in queue \cup inflight : b < t
  /\ \A i \in inflight, q \in queue : i < q

\* Every event pushed is in one place only: still inside, sent, pruned, or
\* lost with a report to the error callback; once the destructor is done
\* nothing is inside, so a batcher that blocks and meets no fault has sent
\* every event (unit_test/async_batcher_test.cc:254 and :300).
EveryEventAccounted ==
  /\ Tickets = Pending \cup Delivered \cup pruned \cup lost
  /\ Pending \cap (Delivered \cup pruned \cup lost) = {}
  /\ Delivered \cap (pruned \cup lost) = {}
  /\ QueueMode = "BLOCK" /\ Faults = {} => pruned \cup lost = {}
  /\ dtor = "destroyed" => Pending = {}

\* The sizes of a set of tickets, added up.
TotalSize(ev, S) == MapThenSumSet(LAMBDA t : ev[t].size, S)

\* _capacity is the sum of the sizes of the queued events, also between two
\* entries of a prune: no push, pop or erase is counted twice or forgotten,
\* and the clamp at zero never hides such an error.
CapacityIsSum == capacity = TotalSize(event, queue)

Busy == {p \in Producers : pc[p] # "idle"}

\* append looks at the capacity after the push, so the queue grows past
\* send_queue_max_capacity; in BLOCK mode it does so by one event of each
\* thread that is still inside append, and by no more.
OvershootBounded ==
  QueueMode = "BLOCK" => capacity <= (MaxCapacity - 1) + Cardinality(Busy) * MaxSize

\* flush counts down a size it read at its start.  While nothing but flush
\* removes events, and no event fails, the queue holds what is still to come,
\* so fill_buffer never finds the queue empty.
SnapshotCovered ==
  QueueMode = "BLOCK" /\ "event" \notin Faults /\ fl # "idle" =>
    remaining <= Cardinality(queue) + Cardinality(inflight)

\* original_event_count lets a reader of the log weigh what throttling took:
\* unless a finished buffer is lost, the index ranges counted by the batches
\* sent follow each other without gap or overlap, each ends with the last
\* event of its batch, and holds all its events.
CountsAreContiguous ==
  CountEvents /\ Faults \cap {"finalize", "send"} = {} =>
    \A i \in DOMAIN sent :
      LET from == sent[i].counted[1]
          to   == sent[i].counted[2]
      IN  /\ from = (IF i = 1 THEN 0 ELSE sent[i - 1].counted[2])
          /\ to \in sent[i].events
          /\ sent[i].events \subseteq (from + 1)..to

\* _pass_prob is the probability that the event survived throttling: one
\* factor for each independent draw it survived.
PassProbIsSurvival ==
  \A t \in Tickets : event[t].factors = Cardinality(event[t].draws)

\* Every event that is pushed leaves the batcher: sent, pruned or reported.
EventuallyLeaves == \A t \in 1..MaxAppends : t \in Pending ~> t \notin Pending

\* The destructor returns.
ShutdownCompletes == dtor = "stopping" ~> dtor = "destroyed"

\* The batcher is an event channel.  It is lossless when it blocks and nothing
\* fails.
Channel == INSTANCE EventChannel WITH
  Lossy     <- QueueMode = "DROP" \/ Faults # {},
  accepted  <- eventIndex,
  pending   <- Pending,
  delivered <- [i \in DOMAIN sent |-> sent[i].events],
  open      <- dtor # "destroyed"

ImplementsChannel == Channel!Spec
=============================================================================
