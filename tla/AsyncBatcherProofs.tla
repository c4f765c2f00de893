------------------------- MODULE AsyncBatcherProofs -------------------------
EXTENDS AsyncBatcherInvariant, FiniteSetTheorems, TLAPS

\* A sequence over a set is one over a larger set.
LEMMA SeqMonotone ==
  ASSUME NEW S, NEW T, S \subseteq T, NEW s \in Seq(S)
  PROVE  s \in Seq(T)
OBVIOUS

\* A set of tickets is finite: the queue has given finitely many.
LEMMA TicketsFinite ==
  ASSUME eventIndex \in Nat, NEW S \in SUBSET Tickets
  PROVE  IsFiniteSet(S) /\ Cardinality(S) \in Nat
<1>1. IsFiniteSet(Tickets)
  BY FS_Interval DEF Tickets
<1>2. IsFiniteSet(S)
  BY <1>1, FS_Subset
<1>. QED
  BY <1>2, FS_CardinalityType

\* The types hold initially.
LEMMA InitTypeOK ==
  ASSUME Init
  PROVE  TypeOK
<1>1. QueueTypeOK
  BY DEF Init, QueueTypeOK, Tickets
<1>2. AppendTypeOK
  BY BatcherAssumption DEF Init, AppendTypeOK, BatcherAssumption
<1>3. ThreadTypeOK /\ FlushTypeOK
  BY DEF Init, ThreadTypeOK, FlushTypeOK
<1>4. OutcomeTypeOK
  BY DEF Init, OutcomeTypeOK
<1>. QED
  BY <1>1, <1>2, <1>3, <1>4 DEF TypeOK

\* A loop of the flush that pops an event has `remaining' > 0, and one prune
\* at a time examines the queue.
Locals ==
  /\ fl \in {"notify", "serialize"} => remaining > 0
  /\ QueueUnlocked => unexamined = {}

\* Sizes of events are natural numbers.
LEMMA SizesAreNaturals ==
  Sizes \subseteq Nat
BY BatcherAssumption DEF BatcherAssumption

\* The record of an event that was pushed, and its size.
LEMMA EventType ==
  ASSUME QueueTypeOK, NEW t \in Tickets
  PROVE  event[t] \in Event /\ event[t].size \in Nat
<1>1. event[t] \in Event
  BY DEF QueueTypeOK
<1>2. event[t].size \in Sizes
  BY <1>1 DEF Event
<1>. QED
  BY <1>1, <1>2, SizesAreNaturals

\* A try_drop that an event survives changes its pass probability only.
LEMMA SurviveType ==
  ASSUME NEW e \in Event, NEW pass \in Int
  PROVE  Survive(e, pass) \in Event /\ Survive(e, pass).size = e.size
BY DEF Event, Survive

\* The same for the two draws of append and push.
LEMMA SubsampledType ==
  ASSUME NEW e \in Event
  PROVE  Subsampled(e) \in Event /\ Subsampled(e).size = e.size
BY SurviveType DEF Subsampled, SubsamplePass

\* push gives the next ticket and adds the event's size to the capacity.
LEMMA PushType ==
  ASSUME QueueTypeOK, NEW s \in Sizes, Push(Subsampled(NewEvent(s)))
  PROVE  /\ QueueTypeOK'
         /\ Tickets' = Tickets \cup {eventIndex + 1}
         /\ capacity' = capacity + s
         /\ eventIndex + 1 \notin Tickets
<1>. DEFINE e == Subsampled(NewEvent(s))
<1>1. NewEvent(s) \in Event /\ NewEvent(s).size = s
  BY DEF Event, NewEvent
<1>2. e \in Event /\ e.size = s /\ Subsampled(e) \in Event /\ s \in Nat
  BY <1>1, SubsampledType, SizesAreNaturals
<1>3. /\ Tickets' = 1..eventIndex + 1 
      /\ Tickets' = Tickets \cup {eventIndex + 1}
      /\ eventIndex + 1 \notin Tickets
  BY DEF QueueTypeOK, Push, Tickets
<1>. HIDE DEF e
<1>4. event' = [t \in Tickets' |-> IF t \in Tickets THEN event[t] ELSE Subsampled(e)]
  BY <1>3 DEF Push, e
<1>5. event' \in [Tickets' -> Event]
  BY <1>2, <1>3, <1>4 DEF QueueTypeOK
<1>6. capacity' = capacity + s
  BY <1>2 DEF Push, e
<1>7. eventIndex' \in Nat /\ capacity' \in Nat /\ dropPass' \in Nat
  BY <1>2, <1>6 DEF QueueTypeOK, Push
<1>8. queue' \subseteq Tickets' /\ unexamined' \subseteq queue'
  BY <1>3 DEF QueueTypeOK, Push
<1>. QED
  BY <1>3, <1>5, <1>6, <1>7, <1>8 DEF QueueTypeOK

\* pop never raises the capacity, nor takes it below zero.
LEMMA PopType ==
  ASSUME QueueTypeOK, unexamined = {}, NEW t, Pop(t)
  PROVE  QueueTypeOK' /\ Tickets' = Tickets /\ capacity' <= capacity
<1>1. event[t].size \in Nat
  BY EventType DEF QueueTypeOK, Pop
<1>2. capacity' \in Nat /\ capacity' <= capacity
  BY <1>1 DEF QueueTypeOK, Pop, Less
<1>. QED
  BY <1>1, <1>2 DEF QueueTypeOK, Pop, Tickets

\* Nor does prune, whether the entry survives or is erased.
LEMMA PruneEntryType ==
  ASSUME QueueTypeOK, NEW p, NEW t \in unexamined, PruneEntry(p, t)
  PROVE  QueueTypeOK' /\ Tickets' = Tickets /\ capacity' <= capacity
<1>1. event[t] \in Event /\ event[t].size \in Nat
  BY EventType DEF QueueTypeOK
<1>2. capacity' \in Nat /\ capacity' <= capacity
  BY <1>1 DEF QueueTypeOK, PruneEntry, Less
<1>3. event' \in [Tickets -> Event]
  <2>1. Survive(event[t], dropPass) \in Event
    BY <1>1, SurviveType DEF QueueTypeOK
  <2>. QED
    BY <2>1 DEF QueueTypeOK, PruneEntry
<1>4. queue' \subseteq Tickets /\ unexamined' \subseteq queue'
  BY DEF QueueTypeOK, PruneEntry
<1>. QED
  BY <1>2, <1>3, <1>4 DEF QueueTypeOK, PruneEntry, Tickets

TypeInv == TypeOK /\ Locals

\* The part of the types that depends on the tickets given so far only grows.
LEMMA TicketsGrow ==
  ASSUME Tickets \subseteq Tickets', OutcomeTypeOK, UNCHANGED outcomeVars
  PROVE  OutcomeTypeOK'
<1>1. Batch \subseteq Batch'
  BY DEF Batch
<1>2. sent' \in Seq(Batch')
  BY <1>1, SeqMonotone DEF OutcomeTypeOK, outcomeVars
<1>. QED
  BY <1>2 DEF OutcomeTypeOK, outcomeVars

\* Without a push the tickets stay the same.
LEMMA SameTickets ==
  ASSUME UNCHANGED eventIndex
  PROVE  Tickets' = Tickets /\ Batch' = Batch
BY DEF Tickets, Batch

\* The queue keeps its type in a step that leaves it alone.
LEMMA QueueSame ==
  ASSUME QueueTypeOK, UNCHANGED queueVars
  PROVE  QueueTypeOK'
BY SameTickets DEF QueueTypeOK, queueVars

\* So do the outcomes.
LEMMA OutcomeSame ==
  ASSUME OutcomeTypeOK, UNCHANGED <<eventIndex, outcomeVars>>
  PROVE  OutcomeTypeOK'
BY SameTickets DEF OutcomeTypeOK, outcomeVars

\* So does the flush.
LEMMA FlushSame ==
  ASSUME FlushTypeOK, UNCHANGED <<eventIndex, flushVars>>
  PROVE  FlushTypeOK'
BY SameTickets DEF FlushTypeOK, flushVars

\* A step of the flush leaves the application threads and the queue alone,
\* except for its pop and for the thread it notifies.
LEMMA NewBufferType ==
  ASSUME FlushTypeOK, NewBuffer
  PROVE  batch' = {} /\ batchSize' \in Nat /\ range' \in Nat \X Nat
BY DEF FlushTypeOK, NewBuffer

\* The types at the end of a buffer, where flush goes on or returns.
LEMMA FlushContinuesType ==
  ASSUME FlushTypeOK, ThreadTypeOK, FlushContinues, UNCHANGED <<eventIndex, remaining, endIndex, interrupt>>,
         inflight' \subseteq Tickets
  PROVE  FlushTypeOK' /\ ThreadTypeOK' /\ fl' \in {"fill", "idle"}
<1>1. batch' = {} /\ batchSize' \in Nat /\ range' \in Nat \X Nat
  BY NewBufferType DEF FlushContinues, FlushTypeOK
<1>2. ThreadTypeOK' /\ fl' \in {"fill", "idle"}
  BY DEF FlushContinues, FlushReturns, ThreadTypeOK
<1>. QED
  BY <1>1, <1>2, SameTickets DEF FlushTypeOK

\* The types are preserved by a stutter.
LEMMA StutterTypeInv ==
  ASSUME TypeInv, UNCHANGED vars
  PROVE  TypeInv'
BY QueueSame, FlushSame, OutcomeSame
DEF vars, TypeInv, TypeOK, queueVars, appendVars, threadVars, flushVars, outcomeVars,
    AppendTypeOK, ThreadTypeOK, Locals, QueueUnlocked

\* The types are preserved by every step of an append.
LEMMA AppendTypeInv ==
  ASSUME TypeInv, NEW p \in Producers,
         AppendBegin(p) \/ AppendStep(p) \/ SpuriousWakeup(p)
  PROVE  TypeInv'
<1>. USE DEF TypeInv, TypeOK
<1>1. CASE AppendSubsampledAway(p)
  <2>1. AppendTypeOK' /\ Locals'
    BY <1>1, BatcherAssumption DEF AppendSubsampledAway, MayAppend, AppendTypeOK, Locals, QueueUnlocked,
       queueVars, flushVars, BatcherAssumption
  <2>. QED
    BY <1>1, <2>1, QueueSame, FlushSame, OutcomeSame
    DEF AppendSubsampledAway, queueVars, threadVars, ThreadTypeOK
<1>2. ASSUME NEW s \in Sizes, AppendPush(p, s)
      PROVE  TypeInv'
  <2>1. QueueTypeOK' /\ Tickets \subseteq Tickets'
    BY <1>2, PushType DEF AppendPush
  <2>2. AppendTypeOK'
    BY <1>2, BatcherAssumption DEF AppendPush, MayAppend, AppendTypeOK, BatcherAssumption
  <2>3. ThreadTypeOK' /\ FlushTypeOK'
    BY <1>2, <2>1 DEF AppendPush, threadVars, flushVars, ThreadTypeOK, FlushTypeOK
  <2>4. OutcomeTypeOK'
    BY <1>2, <2>1, TicketsGrow DEF AppendPush
  <2>5. Locals'
    BY <1>2 DEF AppendPush, flushVars, Push, Locals, QueueUnlocked, AppendTypeOK
  <2>. QED
    BY <2>1, <2>2, <2>3, <2>4, <2>5
<1>3. CASE CheckFull(p) \/ WaitCheck(p) \/ FallAsleep(p) \/ SpuriousWakeup(p)
  <2>1. AppendTypeOK' /\ Locals'
    BY <1>3 DEF CheckFull, WaitCheck, FallAsleep, SpuriousWakeup, AppendTypeOK, Locals,
       QueueUnlocked, queueVars, flushVars
  <2>2. UNCHANGED <<queueVars, threadVars, flushVars, outcomeVars>>
    BY <1>3 DEF CheckFull, WaitCheck, FallAsleep, SpuriousWakeup
  <2>. QED
    BY <2>1, <2>2, QueueSame, FlushSame, OutcomeSame DEF queueVars, threadVars, ThreadTypeOK
<1>4. CASE PruneBegin(p) \/ PruneEnd(p)
  <2>1. AppendTypeOK' /\ Locals' /\ QueueTypeOK'
    BY <1>4, SameTickets DEF PruneBegin, PruneEnd, AppendTypeOK, Locals, QueueUnlocked, QueueTypeOK, flushVars
  <2>2. UNCHANGED <<eventIndex, threadVars, flushVars, outcomeVars>>
    BY <1>4 DEF PruneBegin, PruneEnd
  <2>. QED
    BY <2>1, <2>2, FlushSame, OutcomeSame DEF threadVars, ThreadTypeOK
<1>5. ASSUME NEW t \in unexamined, PruneEntry(p, t)
      PROVE  TypeInv'
  <2>1. QueueTypeOK' /\ Tickets' = Tickets
    BY <1>5, PruneEntryType
  <2>2. AppendTypeOK' /\ Locals' /\ ThreadTypeOK'
    BY <1>5 DEF PruneEntry, appendVars, threadVars, flushVars, AppendTypeOK, ThreadTypeOK,
       Locals, QueueUnlocked
  <2>3. FlushTypeOK'
    BY <1>5, FlushSame DEF PruneEntry
  <2>4. OutcomeTypeOK'
    BY <1>5, SameTickets DEF PruneEntry, OutcomeTypeOK, QueueTypeOK
  <2>. QED
    BY <2>1, <2>2, <2>3, <2>4
<1>. QED
  BY <1>1, <1>2, <1>3, <1>4, <1>5 DEF AppendBegin, AppendStep

\* The types are preserved by every step of a flush.
LEMMA FlushTypeInv ==
  ASSUME TypeInv, FlushStep
  PROVE  TypeInv'
<1>. USE DEF TypeInv, TypeOK
<1>1. CASE FlushBegin
  <2>1. UNCHANGED <<queueVars, appendVars, outcomeVars, eventIndex, endIndex, inflight>>
    BY <1>1 DEF FlushBegin, queueVars
  <2>2. Cardinality(queue) \in Nat
    BY TicketsFinite DEF QueueTypeOK
  <2>3. ThreadTypeOK' /\ fl' \in {"fill", "idle"}
    BY <1>1 DEF FlushBegin, FlushReturns, ThreadTypeOK
  <2>4. remaining' \in Nat /\ batch' \subseteq Tickets /\ batchSize' \in Nat /\ range' \in Nat \X Nat
    BY <1>1, <2>2, NewBufferType DEF FlushBegin, FlushTypeOK
  <2>5. FlushTypeOK'
    BY <2>1, <2>3, <2>4, SameTickets DEF FlushTypeOK
  <2>. QED
    BY <2>1, <2>3, <2>5, QueueSame, OutcomeSame
    DEF appendVars, AppendTypeOK, Locals, QueueUnlocked, queueVars
<1>2. ASSUME NEW t \in queue, FillPop(t)
      PROVE  TypeInv'
  <2>1. QueueTypeOK' /\ Tickets' = Tickets /\ UNCHANGED eventIndex
    BY <1>2, PopType DEF FillPop, Pop, Locals
  <2>2. FlushTypeOK' /\ Locals'
    BY <1>2, <2>1 DEF FillPop, WantsMore, Pop, FlushTypeOK, Locals, QueueUnlocked, appendVars, QueueTypeOK
  <2>3. AppendTypeOK' /\ ThreadTypeOK'
    BY <1>2 DEF FillPop, appendVars, threadVars, AppendTypeOK, ThreadTypeOK
  <2>. QED
    BY <1>2, <2>1, <2>2, <2>3, OutcomeSame DEF FillPop
<1>3. CASE FillNotify
  <2>1. AppendTypeOK' /\ Locals'
    BY <1>3 DEF FillNotify, Sleepers, AppendTypeOK, Locals, QueueUnlocked, queueVars
  <2>2. FlushTypeOK' /\ ThreadTypeOK'
    BY <1>3, SameTickets DEF FillNotify, queueVars, FlushTypeOK, threadVars, ThreadTypeOK
  <2>. QED
    BY <1>3, <2>1, <2>2, QueueSame, OutcomeSame DEF FillNotify, queueVars
<1>4. ASSUME NEW t \in inflight, FillSerialize(t)
      PROVE  TypeInv'
  <2>1. event[t].size \in Nat /\ t \in Tickets
    BY EventType DEF FlushTypeOK
  <2>2. remaining' \in Nat /\ batch' \subseteq Tickets /\ batchSize' \in Nat /\ inflight' \subseteq Tickets
    BY <1>4, <2>1 DEF FillSerialize, FlushTypeOK, Locals
  <2>3. FlushTypeOK'
    BY <1>4, <2>2, SameTickets DEF FillSerialize, queueVars, FlushTypeOK
  <2>4. AppendTypeOK' /\ ThreadTypeOK' /\ Locals'
    BY <1>4 DEF FillSerialize, appendVars, threadVars, queueVars, AppendTypeOK, ThreadTypeOK,
       Locals, QueueUnlocked
  <2>. QED
    BY <1>4, <2>3, <2>4, QueueSame, OutcomeSame DEF FillSerialize, queueVars
<1>5. ASSUME NEW t \in batch, FillFinalize(t)
      PROVE  TypeInv'
  <2>1. t \in Nat
    BY DEF FlushTypeOK, Tickets, QueueTypeOK
  <2>2. FlushTypeOK'
    BY <1>5, <2>1, SameTickets DEF FillFinalize, queueVars, FlushTypeOK
  <2>3. AppendTypeOK' /\ ThreadTypeOK' /\ Locals'
    BY <1>5 DEF FillFinalize, appendVars, threadVars, queueVars, AppendTypeOK, ThreadTypeOK,
       Locals, QueueUnlocked
  <2>. QED
    BY <1>5, <2>2, <2>3, QueueSame, OutcomeSame DEF FillFinalize, queueVars
<1>6. CASE FlushSend
  <2>1. UNCHANGED <<queueVars, eventIndex, appendVars, remaining, endIndex, interrupt, inflight>>
    BY <1>6 DEF FlushSend, queueVars
  <2>2. FlushTypeOK' /\ ThreadTypeOK' /\ fl' \in {"fill", "idle"}
    BY <1>6, <2>1, FlushContinuesType DEF FlushSend, FlushTypeOK
  <2>3. [events |-> batch, counted |-> range] \in Batch
    BY DEF FlushTypeOK, Batch
  <2>4. OutcomeTypeOK'
    <3>1. sent' \in Seq(Batch)
      BY <1>6, <2>3 DEF FlushSend, OutcomeTypeOK
    <3>2. pruned' \subseteq Tickets /\ lost' \subseteq Tickets
      BY <1>6 DEF FlushSend, OutcomeTypeOK, FlushTypeOK
    <3>. QED
      BY <2>1, <3>1, <3>2, SameTickets DEF OutcomeTypeOK
  <2>5. AppendTypeOK' /\ Locals'
    BY <2>1, <2>2 DEF appendVars, queueVars, AppendTypeOK, Locals, QueueUnlocked
  <2>. QED
    BY <2>1, <2>2, <2>4, <2>5, QueueSame
<1>7. CASE FlushSendUnfinished
  <2>1. UNCHANGED <<queueVars, eventIndex, appendVars, remaining, endIndex, interrupt>> /\ inflight' = {}
    BY <1>7 DEF FlushSendUnfinished, queueVars
  <2>2. FlushTypeOK' /\ ThreadTypeOK' /\ fl' \in {"fill", "idle"}
    BY <1>7, <2>1, FlushContinuesType DEF FlushSendUnfinished
  <2>3. OutcomeTypeOK'
    BY <1>7, <2>1, SameTickets DEF FlushSendUnfinished, OutcomeTypeOK, FlushTypeOK
  <2>4. AppendTypeOK' /\ Locals'
    BY <2>1, <2>2 DEF appendVars, queueVars, AppendTypeOK, Locals, QueueUnlocked
  <2>. QED
    BY <2>1, <2>2, <2>3, <2>4, QueueSame
<1>. HIDE DEF TypeInv, TypeOK
<1>8. CASE UNCHANGED vars
  BY <1>8, StutterTypeInv
<1>. QED
  BY <1>1, <1>2, <1>3, <1>4, <1>5, <1>6, <1>7, <1>8 DEF FlushStep, FillSpin

\* The types are preserved by the start, the sleep and the end of the thread.
LEMMA ThreadTypeInv ==
  ASSUME TypeInv, StartThread \/ Wake \/ DestructorStop \/ DestructorStep
  PROVE  TypeInv'
<1>1. ThreadTypeOK' /\ UNCHANGED <<queueVars, appendVars, flushVars, outcomeVars>>
  BY DEF TypeInv, TypeOK, StartThread, Wake, DestructorStop, DestructorStep, DestructorJoin,
     DestructorFlush, DestructorEnd, ThreadTypeOK
<1>. QED
  BY <1>1, QueueSame, FlushSame, OutcomeSame
  DEF TypeInv, TypeOK, queueVars, appendVars, flushVars, AppendTypeOK, Locals, QueueUnlocked

\* The variables hold values of their types: _capacity and `remaining' never
\* go below zero, and every ticket the batcher handles is one the queue gave.
THEOREM TypeCorrect == Spec => []TypeOK
<1>1. Init => TypeInv
  BY InitTypeOK DEF TypeInv, Locals, Init
<1>2. TypeInv /\ [Next]_vars => TypeInv'
  BY AppendTypeInv, FlushTypeInv, ThreadTypeInv, StutterTypeInv DEF Next, Destroyed
<1>3. TypeInv => TypeOK
  BY DEF TypeInv
<1>. QED
  BY <1>1, <1>2, <1>3, PTL DEF Spec

-----------------------------------------------------------------------------
(* The control state                                                       *)

\* The steps of an append keep the control state in order: an append runs
\* only while no destructor does, and in the mode of its queue.
LEMMA ControlAppend ==
  ASSUME TypeOK, Control, NEW p \in Producers,
         AppendBegin(p) \/ AppendStep(p) \/ SpuriousWakeup(p)
  PROVE  Control'
<1>. USE DEF TypeOK, Control
<1>1. ThreadsApart'
  BY DEF AppendBegin, AppendSubsampledAway, AppendPush, MayAppend, AppendStep, CheckFull,
     WaitCheck, FallAsleep, PruneBegin, PruneEnd, PruneEntry, SpuriousWakeup, threadVars,
     flushVars, appendVars, ThreadsApart, AppendTypeOK
<1>2. ModesApart'
  BY DEF AppendBegin, AppendSubsampledAway, AppendPush, MayAppend, AppendStep, CheckFull,
     WaitCheck, FallAsleep, PruneBegin, PruneEnd, PruneEntry, SpuriousWakeup,
     appendVars, ModesApart, AppendTypeOK
<1>3. PruneAlone'
  BY DEF AppendBegin, AppendSubsampledAway, AppendPush, Push, MayAppend, AppendStep, CheckFull,
     WaitCheck, FallAsleep, PruneBegin, PruneEnd, PruneEntry, SpuriousWakeup, queueVars,
     appendVars, PruneAlone, QueueUnlocked, AppendTypeOK
<1>4. FlushLocals'
  <2>1. UNCHANGED flushVars
    BY DEF AppendBegin, AppendSubsampledAway, AppendPush, AppendStep, CheckFull,
       WaitCheck, FallAsleep, PruneBegin, PruneEnd, PruneEntry, SpuriousWakeup
  <2>2. Tickets \subseteq Tickets'
    BY DEF AppendBegin, AppendSubsampledAway, AppendPush, Push, AppendStep, CheckFull,
       WaitCheck, FallAsleep, PruneBegin, PruneEnd, PruneEntry, SpuriousWakeup, queueVars,
       Tickets, QueueTypeOK
  <2>. QED
    BY <2>1, <2>2 DEF flushVars, FlushLocals
<1>. QED
  BY <1>1, <1>2, <1>3, <1>4

\* The background thread and the destructor never flush at the same time.
LEMMA ControlThread ==
  ASSUME TypeOK, Control, StartThread \/ Wake \/ DestructorStop \/ DestructorStep
  PROVE  Control'
<1>. USE DEF TypeOK, Control
<1>1. UNCHANGED <<queueVars, appendVars, flushVars>>
  BY DEF StartThread, Wake, DestructorStop, DestructorStep, DestructorJoin, DestructorFlush,
     DestructorEnd
<1>2. ThreadsApart'
  BY <1>1 DEF StartThread, Wake, DestructorStop, DestructorStep, DestructorJoin, DestructorFlush,
     DestructorEnd, ThreadsApart, ThreadTypeOK, appendVars, flushVars
<1>. QED
  BY <1>1, <1>2 DEF queueVars, appendVars, flushVars, ModesApart, PruneAlone, QueueUnlocked,
     FlushLocals, Tickets

\* The steps of a flush keep what its locals hold at each location.
LEMMA ControlFlush ==
  ASSUME TypeOK, TypeOK', Control, FlushStep
  PROVE  Control'
<1>. USE DEF TypeOK, Control
<1>1. ThreadsApart'
  <2>1. UNCHANGED pc \/ \E q \in Sleepers : pc' = [pc EXCEPT ![q] = "wait"] /\ UNCHANGED dtor
    BY DEF FlushStep, FlushBegin, FillPop, FillSpin, FillNotify, FillSerialize, FillFinalize,
       FlushSend, FlushSendUnfinished, appendVars, vars, threadVars
  <2>2. \A p \in Producers : dtor' # "alive" => pc'[p] = "idle"
    BY <2>1 DEF FlushStep, FlushBegin, FlushReturns, FillPop, FillSpin, FillNotify, FillSerialize,
       FillFinalize, FlushSend, FlushSendUnfinished, FlushContinues, threadVars, vars, Sleepers,
       ThreadsApart, AppendTypeOK, OnBackgroundThread, InDestructor
  <2>3. /\ fl' # "idle" => bg' = "running" \/ dtor' = "flushing"
        /\ dtor' \notin {"alive", "stopping"} => bg' \in {"none", "exited"}
    BY DEF FlushStep, FlushBegin, FlushReturns, FillPop, FillSpin, FillNotify, FillSerialize,
       FillFinalize, FlushSend, FlushSendUnfinished, FlushContinues, threadVars, flushVars, vars,
       ThreadsApart, ThreadTypeOK, OnBackgroundThread, InDestructor
  <2>. QED
    BY <2>2, <2>3 DEF ThreadsApart
<1>2. ModesApart' /\ PruneAlone'
  <2>1. UNCHANGED unexamined
    BY DEF FlushStep, FlushBegin, FillPop, Pop, FillSpin, FillNotify, FillSerialize, FillFinalize,
       FlushSend, FlushSendUnfinished, queueVars, vars
  <2>2. UNCHANGED pc \/ \E q \in Sleepers : pc' = [pc EXCEPT ![q] = "wait"]
    BY DEF FlushStep, FlushBegin, FillPop, FillSpin, FillNotify, FillSerialize, FillFinalize,
       FlushSend, FlushSendUnfinished, appendVars, vars
  <2>. QED
    BY <2>1, <2>2 DEF ModesApart, PruneAlone, QueueUnlocked, Sleepers, AppendTypeOK
<1>3. FlushLocals'
  <2>1. CASE FlushBegin
    BY <2>1 DEF FlushBegin, FlushReturns, NewBuffer, FlushLocals
  <2>2. ASSUME NEW t \in queue, FillPop(t) PROVE FlushLocals'
    BY <2>2, SameTickets DEF FillPop, Pop, WantsMore, FlushLocals, QueueTypeOK, FlushTypeOK
  <2>3. CASE FillNotify
    BY <2>3, SameTickets DEF FillNotify, FlushLocals, queueVars
  <2>4. ASSUME NEW t \in inflight, FillSerialize(t) PROVE FlushLocals'
    BY <2>4, SameTickets DEF FillSerialize, FlushLocals, queueVars
  <2>5. ASSUME NEW t \in batch, FillFinalize(t) PROVE FlushLocals'
    BY <2>5, SameTickets DEF FillFinalize, FlushLocals, queueVars
  <2>6. CASE FlushSend
    BY <2>6 DEF FlushSend, FlushContinues, FlushReturns, NewBuffer, FlushLocals
  <2>7. CASE FlushSendUnfinished
    BY <2>7 DEF FlushSendUnfinished, FlushContinues, FlushReturns, NewBuffer, FlushLocals
  <2>8. CASE FillSpin
    BY <2>8 DEF FillSpin, vars, flushVars, queueVars, FlushLocals, Tickets
  <2>. QED
    BY <2>1, <2>2, <2>3, <2>4, <2>5, <2>6, <2>7, <2>8 DEF FlushStep
<1>. QED
  BY <1>1, <1>2, <1>3

\* The control state stays in order in every step.
LEMMA ControlStep ==
  ASSUME TypeOK, TypeOK', Control, [Next]_vars
  PROVE  Control'
<1>1. CASE UNCHANGED vars
  BY <1>1 DEF vars, queueVars, appendVars, threadVars, flushVars, Control, ThreadsApart,
     ModesApart, PruneAlone, QueueUnlocked, FlushLocals, Tickets
<1>. QED
  BY <1>1, ControlAppend, ControlThread, ControlFlush DEF Next, Destroyed

\* The control state is in order, in every behaviour.
LEMMA ControlInvariant == Spec => []Control
<1>1. Init => Control
  BY DEF Init, Control, ThreadsApart, ModesApart, PruneAlone, FlushLocals
<1>. QED
  BY <1>1, ControlStep, TypeCorrect, PTL DEF Spec

-----------------------------------------------------------------------------
(* The flow of events through the batcher: what each step does to the      *)
(* places an event can be in.                                              *)

Places == <<queue, inflight, batch, sent, pruned, lost>>

Enters ==
  /\ eventIndex' = eventIndex + 1
  /\ queue' = queue \cup {eventIndex + 1}
  /\ UNCHANGED <<inflight, batch, sent, pruned, lost>>

IsPopped ==
  /\ inflight = {} /\ UNCHANGED eventIndex
  /\ \E t \in queue : /\ \A u \in queue : t <= u
                      /\ queue' = queue \ {t}
                      /\ inflight' = {t}
  /\ UNCHANGED <<batch, sent, pruned, lost>>

IsSerialized ==
  /\ batch' = batch \cup inflight
  /\ inflight' = {}
  /\ UNCHANGED <<eventIndex, queue, sent, pruned, lost>>

IsSent ==
  /\ batch # {} /\ inflight = {}
  /\ sent' = Append(sent, [events |-> batch, counted |-> range])
  /\ batch' = {}
  /\ UNCHANGED <<eventIndex, queue, inflight, pruned, lost>>

IsLost ==
  /\ Faults # {}
  /\ lost' = lost \cup batch \cup inflight
  /\ batch' = {} /\ inflight' = {}
  /\ UNCHANGED <<eventIndex, queue, sent, pruned>>

IsPruned ==
  /\ QueueMode = "DROP"
  /\ \E t \in queue : queue' = queue \ {t} /\ pruned' = pruned \cup {t}
  /\ UNCHANGED <<eventIndex, inflight, batch, sent, lost>>

Stays == UNCHANGED <<eventIndex, Places>>

Flow == Enters \/ IsPopped \/ IsSerialized \/ IsSent \/ IsLost \/ IsPruned \/ Stays

\* An append lets an event in or prunes one, or moves none.
LEMMA FlowAppend ==
  ASSUME TypeOK, Control, NEW p \in Producers,
         AppendBegin(p) \/ AppendStep(p) \/ SpuriousWakeup(p)
  PROVE  Enters \/ IsPruned \/ Stays
<1>1. CASE AppendBegin(p)
  BY <1>1 DEF AppendBegin, AppendSubsampledAway, AppendPush, Push, queueVars, flushVars,
     outcomeVars, Enters, Stays, Places
<1>2. ASSUME NEW t \in unexamined, PruneEntry(p, t)
      PROVE  IsPruned \/ Stays
  <2>1. t \in queue
    BY DEF TypeOK, QueueTypeOK
  <2>2. QueueMode = "DROP"
    BY <1>2, BatcherAssumption DEF BatcherAssumption, PruneEntry, Control, ModesApart
  <2>. QED
    BY <1>2, <2>1, <2>2 DEF PruneEntry, flushVars, IsPruned, Stays, Places
<1>3. CASE CheckFull(p) \/ WaitCheck(p) \/ FallAsleep(p) \/ PruneBegin(p) \/ PruneEnd(p)
           \/ SpuriousWakeup(p)
  BY <1>3 DEF CheckFull, WaitCheck, FallAsleep, PruneBegin, PruneEnd, SpuriousWakeup, queueVars,
     flushVars, outcomeVars, Stays, Places
<1>. QED
  BY <1>1, <1>2, <1>3 DEF AppendStep

\* A step of a flush pops, serializes, sends or loses events, or moves none.
LEMMA FlowFlush ==
  ASSUME TypeOK, Control, FlushStep
  PROVE  Flow
<1>. USE DEF Flow
<1>1. CASE FlushBegin
  BY <1>1 DEF FlushBegin, NewBuffer, Control, FlushLocals, queueVars, outcomeVars, Stays, Places
<1>2. ASSUME NEW t \in queue, FillPop(t) PROVE IsPopped
  BY <1>2 DEF FillPop, Pop, Control, FlushLocals, outcomeVars, IsPopped
<1>3. CASE FillNotify \/ FillSpin
  BY <1>3 DEF FillNotify, FillSpin, vars, queueVars, flushVars, outcomeVars, Stays, Places
<1>4. ASSUME NEW t \in inflight, FillSerialize(t) PROVE IsSerialized \/ Stays
  <2>1. inflight = {t}
    BY <1>4 DEF FillSerialize, Control, FlushLocals
  <2>. QED
    BY <1>4, <2>1 DEF FillSerialize, queueVars, outcomeVars, IsSerialized, Stays, Places
<1>5. ASSUME NEW t \in batch, FillFinalize(t) PROVE Stays
  BY <1>5 DEF FillFinalize, queueVars, outcomeVars, Stays, Places
<1>6. CASE FlushSend
  BY <1>6 DEF FlushSend, FlushContinues, NewBuffer, Control, FlushLocals, queueVars, IsSent, IsLost
<1>7. CASE FlushSendUnfinished
  BY <1>7 DEF FlushSendUnfinished, FlushContinues, NewBuffer, Control, FlushLocals, queueVars, IsLost
<1>. QED
  BY <1>1, <1>2, <1>3, <1>4, <1>5, <1>6, <1>7 DEF FlushStep

\* Every step of the batcher moves events in one of the seven ways.
LEMMA FlowStep ==
  ASSUME TypeOK, Control, [Next]_vars
  PROVE  Flow
<1>1. CASE UNCHANGED vars
  BY <1>1 DEF vars, queueVars, flushVars, outcomeVars, Flow, Stays, Places
<1>2. CASE StartThread \/ Wake \/ DestructorStop \/ DestructorStep
  BY <1>2 DEF StartThread, Wake, DestructorStop, DestructorStep, DestructorJoin,
     DestructorFlush, DestructorEnd, queueVars, flushVars, outcomeVars, Flow, Stays, Places
<1>. QED
  BY <1>1, <1>2, FlowAppend, FlowFlush DEF Next, Destroyed, Flow

-----------------------------------------------------------------------------
(* Order, and the place of every event                                     *)

\* A batch that is sent adds its events to what was delivered.
LEMMA DeliveredAppend ==
  ASSUME OutcomeTypeOK, IsSent
  PROVE  /\ Delivered' = Delivered \cup batch
         /\ DOMAIN sent' = 1..Len(sent) + 1
         /\ DOMAIN sent = 1..Len(sent) /\ Len(sent) \in Nat
         /\ \A i \in DOMAIN sent : sent'[i] = sent[i]
         /\ sent'[Len(sent) + 1] = [events |-> batch, counted |-> range]
<1>1. /\ DOMAIN sent' = 1..Len(sent) + 1
      /\ DOMAIN sent = 1..Len(sent) /\ Len(sent) \in Nat
      /\ \A i \in DOMAIN sent : sent'[i] = sent[i]
      /\ sent'[Len(sent) + 1] = [events |-> batch, counted |-> range]
  BY DEF OutcomeTypeOK, IsSent
<1>2. Delivered' = Delivered \cup batch
  <2>1. ASSUME NEW t \in Delivered' PROVE t \in Delivered \cup batch
    <3>1. PICK i \in 1..Len(sent) + 1 : t \in sent'[i].events
      BY <1>1, <2>1 DEF Delivered
    <3>2. CASE i = Len(sent) + 1
      BY <1>1, <3>1, <3>2
    <3>3. CASE i \in 1..Len(sent)
      BY <1>1, <3>1, <3>3 DEF Delivered
    <3>. QED
      BY <1>1, <3>2, <3>3
  <2>2. ASSUME NEW t \in Delivered PROVE t \in Delivered'
    <3>1. PICK i \in 1..Len(sent) : t \in sent[i].events
      BY <1>1, <2>2 DEF Delivered
    <3>2. i \in DOMAIN sent' /\ t \in sent'[i].events
      BY <1>1, <3>1
    <3>. QED
      BY <3>2 DEF Delivered
  <2>3. ASSUME NEW t \in batch PROVE t \in Delivered'
    <3>1. Len(sent) + 1 \in DOMAIN sent' /\ t \in sent'[Len(sent) + 1].events
      BY <1>1, <2>3
    <3>. QED
      BY <3>1 DEF Delivered
  <2>. QED
    BY <2>1, <2>2, <2>3
<1>. QED
  BY <1>1, <1>2

\* Nothing else is delivered.
LEMMA DeliveredSame ==
  ASSUME UNCHANGED sent
  PROVE  Delivered' = Delivered
BY DEF Delivered

\* Only events that were pushed are delivered.
LEMMA DeliveredType ==
  ASSUME TypeOK
  PROVE  Delivered \subseteq Tickets
<1>1. \A i \in DOMAIN sent : sent[i] \in Batch
  BY DEF TypeOK, OutcomeTypeOK
<1>2. \A i \in DOMAIN sent : sent[i].events \subseteq Tickets
  BY <1>1 DEF Batch
<1>. QED
  BY <1>2 DEF Delivered

\* The places of events hold tickets that were given, which the next one
\* exceeds.
LEMMA PlacesType ==
  ASSUME TypeOK
  PROVE  /\ eventIndex \in Nat /\ Tickets \subseteq Nat
         /\ queue \subseteq Tickets /\ inflight \subseteq Tickets /\ batch \subseteq Tickets
         /\ Delivered \subseteq Tickets
         /\ \A t \in Tickets : t < eventIndex + 1
         /\ eventIndex + 1 \notin Tickets
BY DeliveredType DEF TypeOK, QueueTypeOK, FlushTypeOK, Tickets

\* No movement of events breaks the order: a batch holds the oldest events,
\* which follow those delivered before.
LEMMA OrderStep ==
  ASSUME TypeOK, SentInOrder, Flow
  PROVE  SentInOrder'
<1>1. CASE Enters
  BY <1>1, PlacesType, DeliveredSame DEF Enters, SentInOrder, Pending
<1>2. CASE IsPopped
  <2>1. PICK t \in queue : /\ \A u \in queue : t <= u
                           /\ queue' = queue \ {t}
                           /\ inflight' = {t}
    BY <1>2 DEF IsPopped
  <2>2. \A q \in queue' : t < q
    BY <2>1, PlacesType
  <2>. QED
    BY <1>2, <2>1, <2>2, DeliveredSame DEF IsPopped, SentInOrder, Pending
<1>3. CASE IsSerialized
  BY <1>3, DeliveredSame DEF IsSerialized, SentInOrder, Pending
<1>4. CASE IsSent
  <2>1. Delivered' = Delivered \cup batch
    BY <1>4, DeliveredAppend DEF TypeOK
  <2>2. ASSUME NEW i \in DOMAIN sent', NEW j \in DOMAIN sent', i < j,
               NEW a \in sent'[i].events, NEW b \in sent'[j].events
        PROVE  a < b
    <3>1. i \in DOMAIN sent /\ a \in sent[i].events
      BY <1>4, <2>2, DeliveredAppend DEF TypeOK
    <3>2. CASE j \in DOMAIN sent
      BY <1>4, <2>2, <3>1, <3>2, DeliveredAppend DEF TypeOK, SentInOrder
    <3>3. CASE j = Len(sent) + 1
      <4>1. b \in batch
        BY <1>4, <2>2, <3>3, DeliveredAppend DEF TypeOK
      <4>2. a \in Delivered
        BY <3>1 DEF Delivered
      <4>. QED
        BY <4>1, <4>2 DEF SentInOrder, Pending
    <3>. QED
      BY <1>4, <3>2, <3>3, DeliveredAppend DEF TypeOK
  <2>3. \A d \in Delivered', t \in Pending' : d < t
    BY <1>4, <2>1 DEF IsSent, SentInOrder, Pending
  <2>4. /\ \A b \in batch', t \in queue' \cup inflight' : b < t
        /\ \A i \in inflight', q \in queue' : i < q
    BY <1>4 DEF IsSent
  <2>. QED
    BY <2>2, <2>3, <2>4 DEF SentInOrder
<1>5. CASE IsLost
  BY <1>5, DeliveredSame DEF IsLost, SentInOrder, Pending
<1>6. CASE IsPruned
  BY <1>6, DeliveredSame DEF IsPruned, SentInOrder, Pending
<1>7. CASE Stays
  BY <1>7, DeliveredSame DEF Stays, Places, SentInOrder, Pending
<1>. QED
  BY <1>1, <1>2, <1>3, <1>4, <1>5, <1>6, <1>7 DEF Flow

\* A movement takes an event from one place to one other.
LEMMA PartitionStep ==
  ASSUME TypeOK, SentInOrder, Partition, Flow
  PROVE  Partition'
<1>. USE DEF Partition, Pending
<1>1. CASE Enters
  <2>1. Tickets' = Tickets \cup {eventIndex + 1}
    BY <1>1, PlacesType DEF Enters, Tickets
  <2>. QED
    BY <1>1, <2>1, PlacesType, DeliveredSame DEF Enters
<1>2. CASE IsPopped \/ IsSerialized
  BY <1>2, DeliveredSame, SameTickets DEF IsPopped, IsSerialized
<1>3. CASE IsSent
  <2>1. Delivered' = Delivered \cup batch
    BY <1>3, DeliveredAppend DEF TypeOK
  <2>2. batch \cap queue = {}
    BY PlacesType DEF SentInOrder
  <2>. QED
    BY <1>3, <2>1, <2>2, SameTickets DEF IsSent
<1>4. CASE IsLost
  <2>1. batch \cap queue = {} /\ inflight \cap queue = {}
    BY PlacesType DEF SentInOrder
  <2>. QED
    BY <1>4, <2>1, DeliveredSame, SameTickets DEF IsLost
<1>5. CASE IsPruned
  <2>1. queue \cap (inflight \cup batch) = {}
    BY PlacesType DEF SentInOrder
  <2>. QED
    BY <1>5, <2>1, DeliveredSame, SameTickets DEF IsPruned
<1>6. CASE Stays
  BY <1>6, DeliveredSame, SameTickets DEF Stays, Places
<1>. QED
  BY <1>1, <1>2, <1>3, <1>4, <1>5, <1>6 DEF Flow

\* The batches sent, the batch being filled, the popped event and the queue
\* are in the order of the pushes, and no event is in two of them.
THEOREM InOrder == Spec => []SentInOrder
<1>1. Init => SentInOrder
  BY DEF Init, SentInOrder, Delivered, Pending
<1>. QED
  BY <1>1, OrderStep, FlowStep, TypeCorrect, ControlInvariant, PTL DEF Spec

\* Every event is in one place, in every behaviour.
LEMMA PartitionInvariant == Spec => []Partition
<1>1. Init => Partition
  BY DEF Init, Partition, Delivered, Pending, Tickets
<1>. QED
  BY <1>1, PartitionStep, FlowStep, InOrder, TypeCorrect, ControlInvariant, PTL DEF Spec

-----------------------------------------------------------------------------
(* Counting what the flush has still to take                               *)

\* A push adds one to the size of the queue, a pop takes one.
LEMMA QueueCounts ==
  ASSUME TypeOK
  PROVE  /\ Cardinality(queue) \in Nat
         /\ queue = {} <=> Cardinality(queue) = 0
         /\ \A t \in queue : Cardinality(queue \ {t}) = Cardinality(queue) - 1
         /\ Cardinality(queue \cup {eventIndex + 1}) = Cardinality(queue) + 1
<1>1. IsFiniteSet(queue) /\ Cardinality(queue) \in Nat
  BY TicketsFinite DEF TypeOK, QueueTypeOK
<1>2. eventIndex + 1 \notin queue
  BY PlacesType
<1>. QED
  BY <1>1, <1>2, FS_EmptySet, FS_AddElement, FS_RemoveElement

\* fill_buffer holds no event or one.
LEMMA InflightCounts ==
  /\ Cardinality({}) = 0
  /\ \A t : Cardinality({t}) = 1
BY FS_EmptySet, FS_Singleton

\* Nothing is appended once the destructor has begun.
LEMMA NoAppendInDestructor ==
  ASSUME Control, NEW p \in Producers, dtor # "alive"
  PROVE  ~(AppendBegin(p) \/ AppendStep(p) \/ SpuriousWakeup(p))
BY DEF Control, ThreadsApart, AppendBegin, AppendSubsampledAway, AppendPush, MayAppend,
   AppendStep, CheckFull, WaitCheck, FallAsleep, PruneBegin, PruneEnd, PruneEntry, SpuriousWakeup

\* The destructor's flush counts at least the events that are left: nobody
\* pushes any more, and what it pops it counts down or loses.
LEMMA DrainingStep ==
  ASSUME TypeOK, TypeOK', Control, Draining, [Next]_vars
  PROVE  Draining'
<1>1. ASSUME NEW p \in Producers, AppendBegin(p) \/ AppendStep(p) \/ SpuriousWakeup(p)
      PROVE  Draining'
  <2>1. dtor = "alive"
    BY <1>1, NoAppendInDestructor
  <2>2. UNCHANGED dtor
    BY <1>1 DEF AppendBegin, AppendSubsampledAway, AppendPush, AppendStep, CheckFull, WaitCheck,
       FallAsleep, PruneBegin, PruneEnd, PruneEntry, SpuriousWakeup, threadVars
  <2>. QED
    BY <2>1, <2>2 DEF Draining
<1>2. CASE StartThread \/ Wake \/ DestructorStop \/ DestructorStep
  BY <1>2 DEF StartThread, Wake, DestructorStop, DestructorStep, DestructorJoin, DestructorFlush,
     DestructorEnd, Draining, Control, ThreadsApart, FlushLocals, queueVars, flushVars, Pending
<1>3. CASE FlushBegin
  <2>1. inflight = {} /\ batch = {} /\ dtor \notin {"flushed", "destroyed"}
    BY <1>3 DEF FlushBegin, Control, FlushLocals, ThreadsApart, OnBackgroundThread, InDestructor
  <2>2. CASE queue = {}
    BY <1>3, <2>1, <2>2 DEF FlushBegin, FlushReturns, Draining, queueVars, Pending
  <2>3. CASE queue # {}
    <3>1. /\ fl' = "fill" /\ dtor' = dtor /\ queue' = queue /\ inflight' = {}
          /\ remaining' = Cardinality(queue)
      BY <1>3, <2>1, <2>3 DEF FlushBegin, queueVars
    <3>. QED
      BY <2>1, <3>1, QueueCounts, InflightCounts DEF Draining
  <2>. QED
    BY <2>2, <2>3
<1>4. ASSUME NEW t \in queue, FillPop(t) PROVE Draining'
  <2>1. Cardinality(queue') + Cardinality(inflight') = Cardinality(queue) + Cardinality(inflight)
    <3>1. inflight = {} /\ inflight' = {t} /\ queue' = queue \ {t}
      BY <1>4 DEF FillPop, Pop, Control, FlushLocals
    <3>2. Cardinality(queue \ {t}) = Cardinality(queue) - 1 /\ Cardinality(queue) \in Nat
      BY QueueCounts
    <3>3. Cardinality(inflight) = 0 /\ Cardinality(inflight') = 1
      BY <3>1, InflightCounts
    <3>. QED
      BY <3>1, <3>2, <3>3
  <2>2. dtor \notin {"flushed", "destroyed"}
    BY <1>4 DEF FillPop, Control, ThreadsApart
  <2>. QED
    BY <1>4, <2>1, <2>2 DEF FillPop, Draining, threadVars
<1>5. CASE FillNotify \/ FillSpin
  BY <1>5 DEF FillNotify, FillSpin, vars, Draining, queueVars, threadVars, flushVars, Pending
<1>6. ASSUME NEW t \in inflight, FillSerialize(t) PROVE Draining'
  <2>1. inflight = {t}
    BY <1>6 DEF FillSerialize, Control, FlushLocals
  <2>2. dtor \notin {"flushed", "destroyed"}
    BY <1>6 DEF FillSerialize, Control, ThreadsApart
  <2>3. UNCHANGED <<queue, dtor>>
    BY <1>6 DEF FillSerialize, queueVars, threadVars
  <2>4. CASE inflight' = {} /\ remaining' = remaining - 1
    <3>1. Cardinality(inflight) = 1 /\ Cardinality(inflight') = 0
      BY <2>1, <2>4, InflightCounts
    <3>2. Cardinality(queue) \in Nat /\ remaining \in Nat
      BY QueueCounts DEF TypeOK, FlushTypeOK
    <3>3. fl # "idle"
      BY <1>6 DEF FillSerialize
    <3>. QED
      BY <2>2, <2>3, <2>4, <3>1, <3>2, <3>3 DEF Draining
  <2>5. CASE UNCHANGED <<inflight, remaining>>
    BY <1>6, <2>2, <2>3, <2>5 DEF FillSerialize, Draining
  <2>. QED
    BY <1>6, <2>4, <2>5 DEF FillSerialize
<1>7. ASSUME NEW t \in batch, FillFinalize(t) PROVE Draining'
  BY <1>7 DEF FillFinalize, Draining, Control, ThreadsApart, queueVars, threadVars, Pending
<1>8. CASE FlushSend \/ FlushSendUnfinished
  <2>1. /\ UNCHANGED <<queue, remaining>> /\ FlushContinues /\ fl # "idle"
        /\ inflight' = {} /\ batch' = {}
    BY <1>8 DEF FlushSend, FlushSendUnfinished, FlushContinues, NewBuffer, queueVars, Control,
       FlushLocals
  <2>2. Cardinality(inflight') = 0 /\ Cardinality(inflight) \in Nat
    BY <2>1, InflightCounts, TicketsFinite DEF TypeOK, QueueTypeOK, FlushTypeOK
  <2>3. dtor \notin {"flushed", "destroyed"}
    BY <2>1 DEF Control, ThreadsApart
  <2>4. CASE remaining > 0
    BY <2>1, <2>2, <2>3, <2>4, QueueCounts DEF FlushContinues, Draining, TypeOK, FlushTypeOK
  <2>5. CASE remaining = 0
    <3>1. dtor = "flushing" => queue = {}
      BY <2>1, <2>2, <2>5, QueueCounts DEF Draining
    <3>. QED
      BY <2>1, <2>3, <2>5, <3>1 DEF FlushContinues, FlushReturns, InDestructor, Draining, Pending
  <2>. QED
    BY <2>4, <2>5 DEF TypeOK, FlushTypeOK
<1>9. CASE UNCHANGED vars
  BY <1>9 DEF vars, Draining, queueVars, threadVars, flushVars, Pending
<1>. QED
  BY <1>1, <1>2, <1>3, <1>4, <1>5, <1>6, <1>7, <1>8, <1>9 DEF Next, FlushStep, Destroyed

\* The destructor leaves the queue empty, in every behaviour.
LEMMA DrainingInvariant == Spec => []Draining
<1>1. Init => Draining
  BY DEF Init, Draining
<1>. QED
  BY <1>1, DrainingStep, TypeCorrect, ControlInvariant, PTL DEF Spec

\* Every event pushed is inside, sent, pruned or reported lost, and in one of
\* these places only; when the destructor is done nothing is left inside.
THEOREM EventsAccounted == Spec => []EveryEventAccounted
<1>1. Partition /\ Draining => EveryEventAccounted
  BY DEF Partition, Draining, EveryEventAccounted
<1>. QED
  BY <1>1, PartitionInvariant, DrainingInvariant, PTL

\* What flush has still to take stays in the queue: pushes add to it, and
\* nobody else pops.
LEMMA SnapshotStep ==
  ASSUME TypeOK, TypeOK', Control, SnapshotCovered, [Next]_vars,
         QueueMode = "BLOCK", "event" \notin Faults
  PROVE  SnapshotCovered'
<1>0. Cardinality(inflight) \in Nat /\ remaining \in Nat /\ Cardinality(queue) \in Nat
  BY TicketsFinite DEF TypeOK, QueueTypeOK, FlushTypeOK
<1>1. ASSUME NEW p \in Producers, AppendBegin(p) \/ AppendStep(p) \/ SpuriousWakeup(p)
      PROVE  SnapshotCovered'
  <2>1. UNCHANGED <<fl, remaining, inflight>>
    BY <1>1 DEF AppendBegin, AppendSubsampledAway, AppendPush, AppendStep, CheckFull, WaitCheck,
       FallAsleep, PruneBegin, PruneEnd, PruneEntry, SpuriousWakeup, flushVars
  <2>2. queue' = queue \/ queue' = queue \cup {eventIndex + 1}
    BY <1>1, FlowAppend DEF Enters, IsPruned, Stays, Places
  <2>3. Cardinality(queue') >= Cardinality(queue)
    BY <1>0, <2>2, QueueCounts
  <2>4. Cardinality(queue') \in Nat
    BY QueueCounts, <1>0, <2>2
  <2>. QED
    BY <1>0, <2>1, <2>3, <2>4 DEF SnapshotCovered
<1>2. CASE StartThread \/ Wake \/ DestructorStop \/ DestructorStep \/ UNCHANGED vars
  <2>1. UNCHANGED <<queue, inflight, fl, remaining>>
    BY <1>2 DEF StartThread, Wake, DestructorStop, DestructorStep, DestructorJoin, DestructorFlush,
       DestructorEnd, vars, queueVars, flushVars
  <2>. QED
    BY <2>1 DEF SnapshotCovered
<1>3. CASE FlushBegin
  <2>1. fl' = "idle" \/ (remaining' = Cardinality(queue) /\ queue' = queue /\ inflight' = {})
    BY <1>3 DEF FlushBegin, FlushReturns, Control, FlushLocals, queueVars
  <2>. QED
    BY <1>0, <2>1, InflightCounts DEF SnapshotCovered
<1>4. ASSUME NEW t \in queue, FillPop(t) PROVE SnapshotCovered'
  <2>1. inflight = {} /\ inflight' = {t} /\ queue' = queue \ {t} /\ remaining' = remaining
    BY <1>4 DEF FillPop, Pop, Control, FlushLocals
  <2>2. Cardinality(queue \ {t}) = Cardinality(queue) - 1
    BY QueueCounts
  <2>3. Cardinality(inflight) = 0 /\ Cardinality(inflight') = 1
    BY <2>1, InflightCounts
  <2>. QED
    BY <1>0, <1>4, <2>1, <2>2, <2>3 DEF FillPop, SnapshotCovered
<1>5. CASE FillNotify
  BY <1>5 DEF FillNotify, SnapshotCovered, queueVars
<1>6. ASSUME NEW t \in inflight, FillSerialize(t) PROVE SnapshotCovered'
  <2>1. inflight = {t}
    BY <1>6 DEF FillSerialize, Control, FlushLocals
  <2>2. inflight' = {} /\ remaining' = remaining - 1 /\ queue' = queue
    BY <1>6 DEF FillSerialize, queueVars
  <2>3. Cardinality(inflight) = 1 /\ Cardinality(inflight') = 0
    BY <2>1, <2>2, InflightCounts
  <2>. QED
    BY <1>0, <1>6, <2>2, <2>3 DEF FillSerialize, SnapshotCovered
<1>7. ASSUME NEW t \in batch, FillFinalize(t) PROVE SnapshotCovered'
  BY <1>7 DEF FillFinalize, SnapshotCovered, queueVars
<1>8. CASE FlushSend \/ FlushSendUnfinished
  <2>1. inflight = {} /\ inflight' = {} /\ UNCHANGED <<queue, remaining>> /\ fl # "idle"
    BY <1>8 DEF FlushSend, FlushSendUnfinished, Control, FlushLocals, queueVars
  <2>. QED
    BY <2>1 DEF SnapshotCovered
<1>. QED
  BY <1>1, <1>2, <1>3, <1>4, <1>5, <1>6, <1>7, <1>8 DEF Next, FlushStep, FillSpin, Destroyed

\* In BLOCK mode, when events do not fail, the flush never waits for events
\* that are not in the queue: only a prune or a failing event makes the size
\* it took at its start wrong.
THEOREM Snapshot == Spec => []SnapshotCovered
<1>1. CASE QueueMode = "BLOCK" /\ "event" \notin Faults
  <2>1. Init => SnapshotCovered
    BY DEF Init, SnapshotCovered
  <2>2. TypeOK /\ TypeOK' /\ Control /\ SnapshotCovered /\ [Next]_vars => SnapshotCovered'
    BY <1>1, SnapshotStep
  <2>. QED
    BY <2>1, <2>2, TypeCorrect, ControlInvariant, PTL DEF Spec
<1>2. CASE ~(QueueMode = "BLOCK" /\ "event" \notin Faults)
  <2>1. SnapshotCovered
    BY <1>2 DEF SnapshotCovered
  <2>. QED
    BY <2>1, PTL
<1>. QED
  BY <1>1, <1>2

-----------------------------------------------------------------------------
(* The bound of the queue                                                  *)

\* One term more of a product.
LEMMA OneMore ==
  ASSUME NEW n \in Nat, NEW m \in Nat
  PROVE  /\ n * m \in Nat
         /\ (n + 1) * m = n * m + m
OBVIOUS

\* The threads inside append are finitely many.
LEMMA BusyCounts ==
  /\ IsFiniteSet(Busy) /\ Cardinality(Busy) \in Nat
  /\ IsFiniteSet(Busy') /\ Cardinality(Busy') \in Nat
<1>1. IsFiniteSet(Producers) /\ Busy \subseteq Producers /\ Busy' \subseteq Producers
  BY BatcherAssumption DEF BatcherAssumption, Busy
<1>. QED
  BY <1>1, FS_Subset, FS_CardinalityType

\* An append that pushes over the capacity is counted among those inside; it
\* leaves only when there is room.
LEMMA OvershootStep ==
  ASSUME TypeOK, TypeOK', Control, OvershootBounded, [Next]_vars, QueueMode = "BLOCK"
  PROVE  OvershootBounded'
<1>. DEFINE Bound(n) == (MaxCapacity - 1) + n * MaxSize
<1>0. /\ MaxCapacity \in Nat \ {0} /\ MaxSize \in Nat /\ Sizes \subseteq 0..MaxSize
      /\ capacity \in Nat /\ capacity' \in Nat
  BY BatcherAssumption DEF BatcherAssumption, TypeOK, QueueTypeOK
<1>1. \A n \in Nat : Bound(n) \in Nat /\ Bound(n + 1) = Bound(n) + MaxSize /\ MaxCapacity - 1 <= Bound(n)
  BY <1>0, OneMore
<1>2. capacity <= Bound(Cardinality(Busy))
  BY DEF OvershootBounded
<1>. SUFFICES capacity' <= Bound(Cardinality(Busy'))
  BY DEF OvershootBounded
<1>. HIDE DEF Bound
<1>3. ASSUME capacity' <= capacity, Busy' = Busy
      PROVE  capacity' <= Bound(Cardinality(Busy'))
  BY <1>0, <1>1, <1>2, <1>3, BusyCounts
<1>4. ASSUME ~Full, capacity' = capacity
      PROVE  capacity' <= Bound(Cardinality(Busy'))
  BY <1>0, <1>1, <1>4, BusyCounts DEF Full
<1>5. ASSUME NEW p \in Producers, NEW s \in Sizes, AppendPush(p, s)
      PROVE  capacity' <= Bound(Cardinality(Busy'))
  <2>1. p \notin Busy /\ Busy' = Busy \cup {p}
    BY <1>5 DEF AppendPush, MayAppend, Busy, TypeOK, AppendTypeOK
  <2>2. Cardinality(Busy') = Cardinality(Busy) + 1
    BY <2>1, BusyCounts, FS_AddElement
  <2>3. capacity' = capacity + s
    BY <1>5, PushType DEF AppendPush, TypeOK
  <2>. QED
    BY <1>0, <1>1, <1>2, <2>2, <2>3, BusyCounts
<1>6. ASSUME NEW p \in Producers, CheckFull(p) \/ WaitCheck(p)
      PROVE  capacity' <= Bound(Cardinality(Busy'))
  <2>1. capacity' = capacity
    BY <1>6 DEF CheckFull, WaitCheck, queueVars
  <2>2. Full => Busy' = Busy
    BY <1>6 DEF CheckFull, WaitCheck, Busy, TypeOK, AppendTypeOK
  <2>. QED
    BY <1>0, <1>3, <1>4, <2>1, <2>2
<1>7. ASSUME NEW p \in Producers, FallAsleep(p) \/ SpuriousWakeup(p) \/ AppendSubsampledAway(p)
      PROVE  capacity' <= capacity /\ Busy' = Busy
  BY <1>0, <1>7 DEF FallAsleep, SpuriousWakeup, AppendSubsampledAway, Busy, TypeOK, AppendTypeOK, queueVars
<1>8. ASSUME NEW p \in Producers PROVE pc[p] \notin {"prune", "pruning"}
  BY DEF Control, ModesApart
<1>9. CASE FlushStep
  <2>1. ASSUME NEW t \in queue, FillPop(t) PROVE capacity' <= capacity /\ Busy' = Busy
    BY <2>1, PopType DEF FillPop, Pop, TypeOK, Control, PruneAlone, appendVars, Busy
  <2>2. CASE FillNotify
    <3>1. capacity' <= capacity /\ Busy' = Busy
      BY <1>0, <2>2 DEF FillNotify, Sleepers, Busy, queueVars, TypeOK, AppendTypeOK
    <3>. QED
      BY <1>3, <3>1
  <2>3. ASSUME ~FillNotify, ~(\E t \in queue : FillPop(t))
        PROVE  capacity' = capacity /\ Busy' = Busy
    BY <1>9, <2>3 DEF FlushStep, FlushBegin, FillSpin, FillSerialize, FillFinalize, FlushSend,
       FlushSendUnfinished, queueVars, appendVars, vars, Busy
  <2>. QED
    BY <1>0, <1>3, <2>1, <2>2, <2>3
<1>10. CASE StartThread \/ Wake \/ DestructorStop \/ DestructorStep \/ UNCHANGED vars
  BY <1>0, <1>3, <1>10 DEF StartThread, Wake, DestructorStop, DestructorStep, DestructorJoin,
     DestructorFlush, DestructorEnd, vars, queueVars, appendVars, Busy
<1>. QED
  BY <1>3, <1>5, <1>6, <1>7, <1>8, <1>9, <1>10
  DEF Next, AppendBegin, AppendStep, PruneBegin, PruneEnd, PruneEntry, Destroyed

\* In BLOCK mode the queue never holds more than its capacity and one event
\* of each thread inside append.
THEOREM Overshoot == Spec => []OvershootBounded
<1>1. CASE QueueMode = "BLOCK"
  <2>1. Init => OvershootBounded
    <3>1. MaxCapacity \in Nat \ {0} /\ MaxSize \in Nat
      BY BatcherAssumption DEF BatcherAssumption
    <3>2. Init => Busy = {} /\ capacity = 0
      BY DEF Init, Busy
    <3>. QED
      BY <3>1, <3>2, FS_EmptySet DEF OvershootBounded
  <2>2. TypeOK /\ TypeOK' /\ Control /\ OvershootBounded /\ [Next]_vars => OvershootBounded'
    BY <1>1, OvershootStep
  <2>. QED
    BY <2>1, <2>2, TypeCorrect, ControlInvariant, PTL DEF Spec
<1>2. CASE QueueMode # "BLOCK"
  <2>1. OvershootBounded
    BY <1>2 DEF OvershootBounded
  <2>. QED
    BY <2>1, PTL
<1>. QED
  BY <1>1, <1>2

-----------------------------------------------------------------------------
(* The ranges of original_event_count                                      *)

\* The batch that is sent moves the counter to the end of its range.
LEMMA CountedAppend ==
  ASSUME TypeOK, IsSent
  PROVE  Counted' = range[2]
<1>1. Len(sent') = Len(sent) + 1 /\ sent' # <<>>
  BY DEF IsSent, TypeOK, OutcomeTypeOK
<1>2. sent'[Len(sent')].counted = range
  BY <1>1, DeliveredAppend DEF TypeOK
<1>. QED
  BY <1>1, <1>2 DEF Counted

\* The last index counted is that of an event that was sent.
LEMMA CountedSent ==
  ASSUME TypeOK, CountsAreContiguous, CountEvents, Faults \cap {"finalize", "send"} = {}
  PROVE  Counted = 0 \/ Counted \in Delivered
<1>1. CASE sent = <<>>
  BY <1>1 DEF Counted
<1>2. CASE sent # <<>>
  <2>1. Len(sent) \in DOMAIN sent
    BY <1>2 DEF TypeOK, OutcomeTypeOK
  <2>2. Counted \in sent[Len(sent)].events
    BY <1>2, <2>1 DEF Counted, CountsAreContiguous
  <2>. QED
    BY <2>1, <2>2 DEF Delivered
<1>. QED
  BY <1>1, <1>2

\* The range of the batch that is sent starts where the last one ended.
LEMMA CountsSend ==
  ASSUME TypeOK, Control, SentInOrder, CountsInv, FlushSend,
         CountEvents, Faults \cap {"finalize", "send"} = {}
  PROVE  CountsAreContiguous' /\ fl' # "send" /\ endIndex' = Counted'
<1>1. /\ fl = "send" /\ range = <<Counted, endIndex>> /\ endIndex \in batch
      /\ \A t \in batch : t <= endIndex
      /\ CountsAreContiguous
  BY DEF FlushSend, CountsInv
<1>2. IsSent
  BY DEF FlushSend, FlushContinues, NewBuffer, Control, FlushLocals, queueVars, IsSent
<1>3. UNCHANGED endIndex /\ fl' # "send"
  BY DEF FlushSend, FlushContinues, FlushReturns
<1>4. endIndex' = Counted'
  BY <1>1, <1>2, <1>3, CountedAppend
<1>5. \A t \in batch : Counted < t /\ t \in Nat /\ Counted \in Nat
  <2>1. batch \subseteq Pending /\ batch \subseteq Tickets /\ \A t \in Tickets : t \in Nat /\ 0 < t
    BY PlacesType DEF Pending, Tickets
  <2>2. Counted = 0 \/ Counted \in Delivered
    BY <1>1, CountedSent
  <2>3. \A t \in batch : Counted < t
    BY <2>1, <2>2 DEF SentInOrder
  <2>4. Counted \in Nat
    BY <2>2, PlacesType
  <2>. QED
    BY <2>1, <2>3, <2>4
<1>6. ASSUME NEW i \in DOMAIN sent'
      PROVE  LET from == sent'[i].counted[1]
                 to   == sent'[i].counted[2]
             IN  /\ from = (IF i = 1 THEN 0 ELSE sent'[i - 1].counted[2])
                 /\ to \in sent'[i].events
                 /\ sent'[i].events \subseteq (from + 1)..to
  <2>1. CASE i \in DOMAIN sent
    <3>1. sent'[i] = sent[i] /\ i \in Nat /\ (i # 1 => i - 1 \in DOMAIN sent /\ sent'[i - 1] = sent[i - 1])
      BY <1>2, <2>1, DeliveredAppend DEF TypeOK
    <3>. QED
      BY <1>1, <2>1, <3>1 DEF CountsAreContiguous
  <2>2. CASE i = Len(sent) + 1
    <3>1. sent'[i].counted = <<Counted, endIndex>> /\ sent'[i].events = batch
      BY <1>1, <1>2, <2>2, DeliveredAppend DEF TypeOK
    <3>2. Counted = (IF i = 1 THEN 0 ELSE sent'[i - 1].counted[2])
      <4>1. CASE sent = <<>>
        BY <2>2, <4>1 DEF Counted
      <4>2. CASE sent # <<>>
        <5>1. i # 1 /\ i - 1 = Len(sent) /\ i - 1 \in DOMAIN sent
          BY <2>2, <4>2 DEF TypeOK, OutcomeTypeOK
        <5>2. sent'[i - 1] = sent[Len(sent)]
          BY <1>2, <5>1, DeliveredAppend DEF TypeOK
        <5>. QED
          BY <4>2, <5>1, <5>2 DEF Counted
      <4>. QED
        BY <4>1, <4>2
    <3>3. batch \subseteq (Counted + 1)..endIndex
      BY <1>1, <1>5
    <3>. QED
      BY <1>1, <3>1, <3>2, <3>3
  <2>. QED
    BY <1>2, <2>1, <2>2, DeliveredAppend DEF TypeOK
<1>. QED
  BY <1>3, <1>4, <1>6 DEF CountsAreContiguous

\* The counts stay contiguous in every step.
LEMMA CountsStep ==
  ASSUME TypeOK, Control, SentInOrder, CountsInv, [Next]_vars,
         CountEvents, Faults \cap {"finalize", "send"} = {}
  PROVE  CountsInv'
<1>1. CASE FlushSend
  BY <1>1, CountsSend DEF CountsInv
<1>2. ASSUME NEW t \in batch, FillFinalize(t) PROVE CountsInv'
  BY <1>2 DEF FillFinalize, outcomeVars, CountsInv, CountsAreContiguous, Counted
<1>3. ASSUME fl # "send", fl' # "send", UNCHANGED <<sent, endIndex>> PROVE CountsInv'
  BY <1>3 DEF CountsInv, CountsAreContiguous, Counted
<1>4. ASSUME UNCHANGED <<fl, sent, endIndex, range, batch>> PROVE CountsInv'
  BY <1>4 DEF CountsInv, CountsAreContiguous, Counted
<1>5. ASSUME NEW p \in Producers, AppendBegin(p) \/ AppendStep(p) \/ SpuriousWakeup(p)
      PROVE  CountsInv'
  BY <1>4, <1>5 DEF AppendBegin, AppendSubsampledAway, AppendPush, AppendStep, CheckFull, WaitCheck,
     FallAsleep, PruneBegin, PruneEnd, PruneEntry, SpuriousWakeup, flushVars, outcomeVars
<1>6. CASE StartThread \/ Wake \/ DestructorStop \/ DestructorStep \/ UNCHANGED vars
  BY <1>4, <1>6 DEF StartThread, Wake, DestructorStop, DestructorStep, DestructorJoin, DestructorFlush,
     DestructorEnd, vars, flushVars, outcomeVars
<1>7. CASE FlushBegin \/ (\E t \in queue : FillPop(t)) \/ FillNotify
           \/ (\E t \in inflight : FillSerialize(t)) \/ FlushSendUnfinished
  BY <1>3, <1>7 DEF FlushBegin, FlushReturns, FillPop, FillNotify, FillSerialize,
     FlushSendUnfinished, FlushContinues, outcomeVars
<1>. QED
  BY <1>1, <1>2, <1>5, <1>6, <1>7 DEF Next, FlushStep, FillSpin, Destroyed

\* As long as no finished buffer is lost, the ranges counted by the batches
\* sent are contiguous: their counts add up to the index of the last event
\* sent, so that the throttled events are counted once.
THEOREM Counts == Spec => []CountsAreContiguous
<1>1. CASE CountEvents /\ Faults \cap {"finalize", "send"} = {}
  <2>1. Init => CountsInv
    BY DEF Init, CountsInv, CountsAreContiguous, Counted
  <2>2. TypeOK /\ Control /\ SentInOrder /\ CountsInv /\ [Next]_vars => CountsInv'
    BY <1>1, CountsStep
  <2>3. CountsInv => CountsAreContiguous
    BY <1>1 DEF CountsInv
  <2>. QED
    BY <2>1, <2>2, <2>3, TypeCorrect, ControlInvariant, InOrder, PTL DEF Spec
<1>2. CASE ~(CountEvents /\ Faults \cap {"finalize", "send"} = {})
  <2>1. CountsAreContiguous
    BY <1>2 DEF CountsAreContiguous
  <2>. QED
    BY <2>1, PTL
<1>. QED
  BY <1>1, <1>2

-----------------------------------------------------------------------------
(* The batcher implements the event channel                                *)

Batches == [i \in DOMAIN sent |-> sent[i].events]

\* The batch that is sent is appended to those delivered.
LEMMA BatchesAppend ==
  ASSUME TypeOK, IsSent
  PROVE  Batches' = Append(Batches, batch)
<1>1. Len(sent) \in Nat /\ DOMAIN sent = 1..Len(sent) /\ DOMAIN sent' = 1..Len(sent) + 1
  BY DeliveredAppend DEF TypeOK
<1>2. Batches \in Seq(SUBSET Tickets) /\ Len(Batches) = Len(sent)
  <2>1. \A i \in 1..Len(sent) : sent[i].events \in SUBSET Tickets
    <3>1. \A i \in 1..Len(sent) : sent[i] \in Batch
      BY <1>1 DEF TypeOK, OutcomeTypeOK
    <3>. QED
      BY <3>1 DEF Batch
  <2>2. Batches \in [1..Len(sent) -> SUBSET Tickets]
    BY <1>1, <2>1 DEF Batches
  <2>. QED
    BY <1>1, <2>2
<1>3. DOMAIN Append(Batches, batch) = 1..Len(sent) + 1
  BY <1>1, <1>2
<1>4. \A i \in 1..Len(sent) + 1 : Batches'[i] = Append(Batches, batch)[i]
  <2>1. SUFFICES ASSUME NEW i \in 1..Len(sent) + 1
                 PROVE  Batches'[i] = Append(Batches, batch)[i]
    OBVIOUS
  <2>2. Batches'[i] = sent'[i].events
    BY <1>1 DEF Batches
  <2>3. CASE i = Len(sent) + 1
    <3>1. Append(Batches, batch)[i] = batch
      BY <1>1, <1>2, <2>3
    <3>2. sent'[i].events = batch
      BY <2>3, DeliveredAppend DEF TypeOK
    <3>. QED
      BY <2>2, <3>1, <3>2
  <2>4. CASE i \in 1..Len(sent)
    <3>1. Append(Batches, batch)[i] = sent[i].events
      BY <1>1, <1>2, <2>4 DEF Batches
    <3>2. sent'[i] = sent[i]
      BY <1>1, <2>4, DeliveredAppend DEF TypeOK
    <3>. QED
      BY <2>2, <3>1, <3>2
  <2>5. i = Len(sent) + 1 \/ i \in 1..Len(sent)
    BY <1>1
  <2>. QED
    BY <2>3, <2>4, <2>5
<1>. QED
  BY <1>1, <1>3, <1>4 DEF Batches

\* The channel is closed by the end of the destructor, and accepts nothing
\* afterwards.
LEMMA OpenStep ==
  ASSUME TypeOK, Control, [Next]_vars
  PROVE  /\ DestructorEnd \/ (dtor' = "destroyed" <=> dtor = "destroyed")
         /\ Enters => dtor # "destroyed"
<1>1. ASSUME NEW p \in Producers, AppendBegin(p) \/ AppendStep(p) \/ SpuriousWakeup(p)
      PROVE  UNCHANGED dtor /\ dtor = "alive"
  <2>1. UNCHANGED dtor
    BY <1>1 DEF AppendBegin, AppendSubsampledAway, AppendPush, AppendStep, CheckFull, WaitCheck,
       FallAsleep, PruneBegin, PruneEnd, PruneEntry, SpuriousWakeup, threadVars
  <2>. QED
    BY <1>1, <2>1, NoAppendInDestructor
<1>2. StartThread \/ Wake \/ DestructorStop \/ DestructorJoin \/ DestructorFlush \/ UNCHANGED vars
        => (dtor' = "destroyed" <=> dtor = "destroyed")
  BY DEF StartThread, Wake, DestructorStop, DestructorJoin, DestructorFlush, vars, threadVars
<1>3. FlushStep => (dtor' = "destroyed" <=> dtor = "destroyed")
  BY DEF FlushStep, FlushBegin, FillPop, FillSpin, FillNotify, FillSerialize, FillFinalize,
     FlushSend, FlushSendUnfinished, FlushContinues, FlushReturns, InDestructor, threadVars, vars
<1>4. FlushStep \/ StartThread \/ Wake \/ DestructorStop \/ DestructorStep \/ UNCHANGED vars
        => UNCHANGED eventIndex
  BY DEF FlushStep, FlushBegin, FillPop, Pop, FillSpin, FillNotify, FillSerialize,
     FillFinalize, FlushSend, FlushSendUnfinished, StartThread, Wake, DestructorStop,
     DestructorStep, DestructorJoin, DestructorFlush, DestructorEnd, queueVars, vars
<1>5. DestructorEnd \/ (dtor' = "destroyed" <=> dtor = "destroyed")
  BY <1>1, <1>2, <1>3 DEF Next, DestructorStep, Destroyed
<1>6. Enters => dtor # "destroyed"
  BY <1>1, <1>4 DEF Next, Destroyed, Enters, TypeOK, QueueTypeOK
<1>. QED
  BY <1>5, <1>6

LossyChannel == QueueMode = "DROP" \/ Faults # {}

\* Every step of the batcher accepts, delivers, discards or closes in the
\* channel, or leaves it alone.
LEMMA ChannelStep ==
  ASSUME TypeOK, Control, SentInOrder, Draining, [Next]_vars
  PROVE  [Channel!Next]_(Channel!chan)
<1>. USE DEF Channel!chan
<1>0. Batches = [i \in DOMAIN sent |-> sent[i].events]
  BY DEF Batches
<1>1. CASE DestructorEnd
  <2>1. Pending = {} /\ dtor = "flushed"
    BY <1>1 DEF DestructorEnd, Draining
  <2>2. UNCHANGED <<eventIndex, sent, Pending>> /\ dtor' = "destroyed"
    BY <1>1 DEF DestructorEnd, queueVars, flushVars, outcomeVars, Pending
  <2>. QED
    BY <2>1, <2>2 DEF Channel!Next, Channel!Close
<1>2. CASE dtor' = "destroyed" <=> dtor = "destroyed"
  <2>1. CASE Enters
    <3>1. Pending' = Pending \cup {eventIndex + 1} /\ UNCHANGED sent /\ eventIndex' = eventIndex + 1
      BY <2>1 DEF Enters, Pending
    <3>2. dtor # "destroyed"
      BY <2>1, OpenStep
    <3>. QED
      BY <1>2, <3>1, <3>2 DEF Channel!Next, Channel!Accept
  <2>2. CASE IsPopped \/ IsSerialized \/ Stays
    <3>1. UNCHANGED <<eventIndex, Pending, sent>>
      BY <2>2 DEF IsPopped, IsSerialized, Stays, Places, Pending
    <3>2. (dtor' # "destroyed") = (dtor # "destroyed") /\ Batches' = Batches
      BY <1>2, <3>1 DEF Batches
    <3>. QED
      BY <3>1, <3>2 DEF Batches
  <2>3. CASE IsSent
    <3>1. Batches' = Append(Batches, batch) /\ UNCHANGED eventIndex
      BY <2>3, BatchesAppend DEF IsSent
    <3>2. Pending' = Pending \ batch
      BY <2>3, PlacesType DEF IsSent, Pending, SentInOrder
    <3>3. batch # {} /\ \A e \in batch, p \in Pending \ batch : e < p
      BY <2>3 DEF IsSent, Pending, SentInOrder
    <3>4. PICK sending : sending = batch
      OBVIOUS
    <3>5. sending \in SUBSET Pending /\ Channel!Deliver(sending)
      BY <1>2, <3>1, <3>2, <3>3, <3>4 DEF Channel!Deliver, Batches, Pending
    <3>6. Channel!Next
      BY <3>5 DEF Channel!Next
    <3>. QED
      BY <3>6
  <2>4. CASE IsLost \/ IsPruned
    <3>1. LossyChannel /\ UNCHANGED <<eventIndex, sent>>
      BY <2>4 DEF IsLost, IsPruned, LossyChannel
    <3>2. Pending' \subseteq Pending
      BY <2>4 DEF IsLost, IsPruned, Pending
    <3>3. Pending' = Pending \ (Pending \ Pending') /\ (Pending \ Pending') \in SUBSET Pending
      BY <3>2
    <3>4. Channel!Discard(Pending \ Pending')
      BY <1>2, <3>1, <3>3 DEF Channel!Discard, LossyChannel
    <3>. QED
      BY <3>3, <3>4 DEF Channel!Next
  <2>. QED
    BY <2>1, <2>2, <2>3, <2>4, FlowStep DEF Flow
<1>. QED
  BY <1>1, <1>2, OpenStep

\* The batcher implements the event channel: in-order, at-most-once delivery
\* that loses events only by pruning or with a fault, and that is empty when
\* the destructor is done.
THEOREM Refinement == Spec => ImplementsChannel
<1>1. Init => Channel!Init
  BY DEF Init, Channel!Init, Pending
<1>. QED
  BY <1>1, ChannelStep, TypeCorrect, ControlInvariant, InOrder, DrainingInvariant, PTL
  DEF Spec, ImplementsChannel, Channel!Spec

-----------------------------------------------------------------------------
(* The capacity                                                            *)

\* The sizes of a set of tickets, added up one ticket at a time, in any order.
IsSum(g, ev, S) ==
  /\ g \in [SUBSET S -> Nat]
  /\ g[{}] = 0
  /\ \A s \in SUBSET S : \A x \in s : g[s] = ev[x].size + g[s \ {x}]

\* A finite set on which a property fails has a least subset on which it does.
LEMMA SmallestSubset ==
  ASSUME NEW S, IsFiniteSet(S), NEW B \in SUBSET SUBSET S, B # {}
  PROVE  \E u \in B : \A x \in u : u \ {x} \notin B
<1>1. B \subseteq FiniteSubsetsOf(S)
  BY FS_Subset DEF FiniteSubsetsOf
<1>2. PICK u \in B : \A y \in B : ~(<<y, u>> \in StrictSubsetOrdering(S))
  BY <1>1, FS_StrictSubsetOrderingWellFounded, WFMin
<1>3. ASSUME NEW x \in u, u \ {x} \in B PROVE FALSE
  <2>1. <<u \ {x}, u>> \in StrictSubsetOrdering(S)
    BY <1>1, <1>3 DEF StrictSubsetOrdering
  <2>. QED
    BY <1>2, <1>3, <2>1
<1>. QED
  BY <1>2, <1>3

\* Such a sum exists.
LEMMA SumExists ==
  ASSUME NEW S, IsFiniteSet(S), NEW ev, \A t \in S : ev[t].size \in Nat
  PROVE  \E g : IsSum(g, ev, S)
<1>. DEFINE B == {u \in SUBSET S : ~ \E g : IsSum(g, ev, u)}
<1>. SUFFICES ASSUME B # {} PROVE FALSE
  OBVIOUS
<1>1. PICK u \in B : \A x \in u : u \ {x} \notin B
  <2>. HIDE DEF B
  <2>1. B \in SUBSET SUBSET S
    BY DEF B
  <2>. QED
    BY <2>1, SmallestSubset
<1>2. u # {}
  <2>1. IsSum([s \in SUBSET {} |-> 0], ev, {})
    BY DEF IsSum
  <2>. QED
    BY <1>1, <2>1
<1>3. PICK y \in u : TRUE
  BY <1>2
<1>4. PICK g : IsSum(g, ev, u \ {y})
  BY <1>1, <1>3
<1>. DEFINE h == [s \in SUBSET u |-> IF y \in s THEN ev[y].size + g[s \ {y}] ELSE g[s]]
<1>5. h \in [SUBSET u -> Nat] /\ h[{}] = 0
  <2>1. ASSUME NEW s \in SUBSET u PROVE h[s] \in Nat
    BY <1>4 DEF IsSum
  <2>. QED
    BY <1>4, <2>1 DEF IsSum
<1>6. ASSUME NEW s \in SUBSET u, NEW x \in s
      PROVE  h[s] = ev[x].size + h[s \ {x}]
  <2>1. CASE x = y
    BY <2>1
  <2>2. CASE x # y /\ y \in s
    <3>. DEFINE r == s \ {y}
    <3>1. r \in SUBSET (u \ {y}) /\ x \in r /\ r \ {x} \in SUBSET (u \ {y})
      BY <2>2
    <3>2. g[r] = ev[x].size + g[r \ {x}] /\ g[r \ {x}] \in Int
      BY <1>4, <3>1 DEF IsSum
    <3>3. h[s] = ev[y].size + g[r]
      BY <2>2
    <3>4. h[s \ {x}] = ev[y].size + g[r \ {x}]
      <4>1. (s \ {x}) \ {y} = r \ {x} /\ y \in s \ {x}
        BY <2>2
      <4>. QED
        BY <4>1
    <3>5. ev[x].size \in Int /\ ev[y].size \in Int
      OBVIOUS
    <3>. HIDE DEF h, r
    <3>. QED
      BY <3>2, <3>3, <3>4, <3>5
  <2>3. CASE x # y /\ y \notin s
    BY <1>4, <2>3 DEF IsSum
  <2>. QED
    BY <2>1, <2>2, <2>3
<1>7. IsSum(h, ev, u)
  BY <1>5, <1>6 DEF IsSum
<1>. QED
  BY <1>1, <1>7

\* The fold of the community modules computes it.
LEMMA SumIsFold ==
  ASSUME NEW S, IsFiniteSet(S), NEW ev, NEW g, IsSum(g, ev, S)
  PROVE  TotalSize(ev, S) = g[S]
<1>. DEFINE Eq(h) == h = [s \in SUBSET S |->
                IF s = {} THEN 0
                ELSE ev[CHOOSE x \in s : TRUE].size + h[s \ {CHOOSE x \in s : TRUE}]]
<1>1. Eq(g)
  <2>1. ASSUME NEW s \in SUBSET S, s # {}
        PROVE  g[s] = ev[CHOOSE x \in s : TRUE].size + g[s \ {CHOOSE x \in s : TRUE}]
    BY <2>1 DEF IsSum
  <2>. QED
    BY <2>1 DEF IsSum
<1>2. ASSUME NEW h, Eq(h) PROVE h[S] = g[S]
  <2>. DEFINE B == {s \in SUBSET S : h[s] # g[s]}
  <2>1. SUFFICES ASSUME B # {} PROVE FALSE
    OBVIOUS
  <2>2. PICK u \in B : \A x \in u : u \ {x} \notin B
    <3>1. B \in SUBSET SUBSET S
      OBVIOUS
    <3>. HIDE DEF B
    <3>. QED
      BY <2>1, <3>1, SmallestSubset
  <2>3. u # {}
    BY <1>2, <1>1
  <2>. DEFINE y == CHOOSE x \in u : TRUE
  <2>4. y \in u /\ u \ {y} \in SUBSET S
    BY <2>3
  <2>5. h[u \ {y}] = g[u \ {y}]
    BY <2>2, <2>4
  <2>6. h[u] = ev[y].size + h[u \ {y}] /\ g[u] = ev[y].size + g[u \ {y}]
    BY <1>2, <1>1, <2>3
  <2>. QED
    BY <2>2, <2>5, <2>6
<1>3. TotalSize(ev, S) = (CHOOSE h : Eq(h))[S]
  BY DEF TotalSize, MapThenSumSet, MapThenFoldSet
<1>4. Eq(CHOOSE h : Eq(h))
  <2>. HIDE DEF Eq
  <2>. QED
    BY <1>1
<1>. QED
  <2>. HIDE DEF Eq
  <2>. QED
    BY <1>2, <1>3, <1>4

\* The sum does not depend on the order: any ticket may be taken out first.
LEMMA SumRemove ==
  ASSUME NEW S, IsFiniteSet(S), NEW ev, \A t \in S : ev[t].size \in Nat, NEW x \in S
  PROVE  /\ TotalSize(ev, S \ {x}) \in Nat
         /\ TotalSize(ev, S)
              = ev[x].size + TotalSize(ev, S \ {x})
<1>1. PICK g : IsSum(g, ev, S)
  BY SumExists
<1>. DEFINE R == S \ {x}
            h == [s \in SUBSET R |-> g[s]]
<1>2. IsSum(h, ev, R)
  <2>1. h \in [SUBSET R -> Nat] /\ h[{}] = 0
    BY <1>1 DEF IsSum
  <2>2. ASSUME NEW s \in SUBSET R, NEW y \in s PROVE h[s] = ev[y].size + h[s \ {y}]
    BY <1>1, <2>2 DEF IsSum
  <2>. QED
    BY <2>1, <2>2 DEF IsSum
<1>3. IsFiniteSet(R)
  BY FS_RemoveElement
<1>4. TotalSize(ev, R) = h[R]
  <2>. HIDE DEF h, R
  <2>. QED
    BY <1>2, <1>3, SumIsFold
<1>5. TotalSize(ev, S) = g[S]
  BY <1>1, SumIsFold
<1>6. g[S] = ev[x].size + g[R] /\ g[R] \in Nat
  BY <1>1 DEF IsSum
<1>. QED
  BY <1>4, <1>5, <1>6

\* It depends on the sizes of its tickets only.
LEMMA SumSame ==
  ASSUME NEW S, IsFiniteSet(S), NEW ev, NEW other,
         \A t \in S : ev[t].size \in Nat /\ other[t].size = ev[t].size
  PROVE  TotalSize(other, S) = TotalSize(ev, S)
<1>1. PICK g : IsSum(g, ev, S)
  BY SumExists
<1>2. IsSum(g, other, S)
  BY <1>1 DEF IsSum
<1>3. TotalSize(ev, S) = g[S]
  BY <1>1, SumIsFold
<1>4. TotalSize(other, S) = g[S]
  BY <1>2, SumIsFold
<1>. QED
  BY <1>3, <1>4

\* The sum over no ticket.
LEMMA SumEmpty ==
  ASSUME NEW ev
  PROVE  TotalSize(ev, {}) = 0
<1>1. IsFiniteSet({})
  BY FS_EmptySet
<1>2. PICK g : IsSum(g, ev, {})
  BY <1>1, SumExists
<1>3. TotalSize(ev, {}) = g[{}]
  BY <1>1, <1>2, SumIsFold
<1>4. g[{}] = 0
  BY <1>2 DEF IsSum
<1>. QED
  BY <1>3, <1>4

\* What a step does to the queue, the sizes of its events and the capacity.
QueueKeeps ==
  /\ UNCHANGED <<queue, capacity>>
  /\ \A t \in queue : event'[t].size = event[t].size

QueueTakes ==
  /\ queue' = queue \cup {eventIndex + 1}
  /\ capacity' = capacity + event'[eventIndex + 1].size
  /\ \A t \in queue : event'[t].size = event[t].size

QueueGives ==
  /\ \E t \in queue : /\ queue' = queue \ {t}
                      /\ capacity' = Less(capacity, event[t].size)
  /\ \A t \in queue : event'[t].size = event[t].size

\* A step leaves the queue and its capacity alone, pushes one event, or takes
\* one out by pop or prune.
LEMMA QueueStep ==
  ASSUME TypeOK, [Next]_vars
  PROVE  QueueKeeps \/ QueueTakes \/ QueueGives
<1>. USE DEF TypeOK
<1>1. ASSUME NEW p \in Producers, NEW s \in Sizes, AppendPush(p, s)
      PROVE  QueueTakes
  <2>. DEFINE e == Subsampled(NewEvent(s))
  <2>1. NewEvent(s) \in Event /\ NewEvent(s).size = s
    BY DEF Event, NewEvent
  <2>2. e \in Event /\ e.size = s /\ Subsampled(e) \in Event /\ Subsampled(e).size = s
    BY <2>1, SubsampledType
  <2>. HIDE DEF e
  <2>3. /\ event' = [t \in 1..eventIndex + 1 |-> IF t \in Tickets THEN event[t] ELSE Subsampled(e)]
        /\ queue' = queue \cup {eventIndex + 1}
        /\ capacity' = capacity + e.size
    BY <1>1 DEF AppendPush, Push, e
  <2>4. eventIndex + 1 \in 1..eventIndex + 1 /\ eventIndex + 1 \notin Tickets
        /\ Tickets \subseteq 1..eventIndex + 1
    BY DEF QueueTypeOK, Tickets
  <2>5. event'[eventIndex + 1].size = s
    BY <2>2, <2>3, <2>4
  <2>6. \A t \in queue : event'[t] = event[t]
    BY <2>3, <2>4 DEF QueueTypeOK
  <2>. QED
    BY <2>2, <2>3, <2>5, <2>6 DEF QueueTakes
<1>2. ASSUME NEW t \in queue, FillPop(t)
      PROVE  QueueGives
  BY <1>2 DEF FillPop, Pop, QueueGives
<1>3. ASSUME NEW p \in Producers, NEW t \in unexamined, PruneEntry(p, t)
      PROVE  QueueKeeps \/ QueueGives
  <2>1. CASE event' = event
    BY <1>3, <2>1 DEF PruneEntry, QueueTypeOK, QueueGives, QueueKeeps
  <2>2. CASE /\ event' = [event EXCEPT ![t] = Survive(@, dropPass)]
             /\ UNCHANGED <<queue, capacity>>
    <3>1. event[t] \in Event
      BY EventType DEF QueueTypeOK
    <3>2. Survive(event[t], dropPass).size = event[t].size
      BY <3>1, SurviveType DEF QueueTypeOK
    <3>3. \A u \in queue : event'[u].size = event[u].size
      BY <2>2, <3>2 DEF QueueTypeOK
    <3>. QED
      BY <2>2, <3>3 DEF QueueKeeps
  <2>. QED
    BY <1>3, <2>1, <2>2 DEF PruneEntry
<1>4. CASE UNCHANGED <<queue, capacity, event>>
  BY <1>4 DEF QueueKeeps
<1>5. ASSUME NEW p \in Producers,
             \/ AppendSubsampledAway(p) \/ CheckFull(p) \/ WaitCheck(p) \/ FallAsleep(p)
             \/ PruneBegin(p) \/ PruneEnd(p) \/ SpuriousWakeup(p)
      PROVE  UNCHANGED <<queue, capacity, event>>
  BY <1>5 DEF AppendSubsampledAway, CheckFull, WaitCheck, FallAsleep, PruneBegin, PruneEnd,
     SpuriousWakeup, queueVars
<1>6. CASE \/ FlushBegin \/ FillNotify \/ FillSpin \/ FlushSend \/ FlushSendUnfinished
           \/ \E t \in inflight : FillSerialize(t)
           \/ \E t \in batch : FillFinalize(t)
           \/ StartThread \/ Wake \/ DestructorStop \/ DestructorStep \/ Destroyed
           \/ UNCHANGED vars
  <2>1. UNCHANGED <<queue, capacity, event>>
    BY <1>6 DEF FlushBegin, FillNotify, FillSpin, FlushSend, FlushSendUnfinished, FillSerialize,
       FillFinalize, StartThread, Wake, DestructorStop, DestructorStep, DestructorJoin,
       DestructorFlush, DestructorEnd, Destroyed, vars, queueVars
  <2>. QED
    BY <1>4, <2>1
<1>. QED
  BY <1>1, <1>2, <1>3, <1>4, <1>5, <1>6 DEF Next, AppendBegin, AppendStep, FlushStep

\* The capacity stays the sum of the sizes: a push adds what the sum gains,
\* and what a pop or a prune subtracts is part of the sum, so that the clamp
\* at zero takes no effect.
LEMMA SumStep ==
  ASSUME TypeOK, TypeOK', CapacityIsSum, [Next]_vars
  PROVE  CapacityIsSum'
<1>. SUFFICES capacity' = TotalSize(event', queue')
  BY DEF CapacityIsSum
<1>. USE DEF TypeOK
<1>0. capacity = TotalSize(event, queue)
  BY DEF CapacityIsSum
<1>1. IsFiniteSet(queue) /\ \A t \in queue : event[t].size \in Nat
  BY TicketsFinite, EventType DEF QueueTypeOK
<1>2. IsFiniteSet(queue') /\ \A t \in queue' : event'[t].size \in Nat
  <2>1. \A t \in Tickets' : event'[t] \in Event
    BY DEF QueueTypeOK
  <2>2. \A t \in queue' : event'[t].size \in Nat
    BY <2>1, SizesAreNaturals DEF QueueTypeOK, Event
  <2>3. eventIndex' \in Nat /\ queue' \subseteq 1..eventIndex'
    BY DEF QueueTypeOK, Tickets
  <2>4. IsFiniteSet(1..eventIndex')
    BY <2>3, FS_Interval
  <2>. QED
    BY <2>2, <2>3, <2>4, FS_Subset
<1>3. CASE QueueKeeps
  BY <1>0, <1>1, <1>3, SumSame DEF QueueKeeps
<1>4. CASE QueueTakes
  <2>. DEFINE t == eventIndex + 1
  <2>1. queue' \ {t} = queue /\ t \in queue'
    BY <1>4 DEF QueueTakes, QueueTypeOK, Tickets
  <2>2. TotalSize(event', queue')
          = event'[t].size + TotalSize(event', queue' \ {t})
    <3>. HIDE DEF t
    <3>. QED
      BY <1>2, <2>1, SumRemove
  <2>3. TotalSize(event', queue)
          = TotalSize(event, queue)
    BY <1>1, <1>4, SumSame DEF QueueTakes
  <2>4. capacity \in Nat /\ event'[t].size \in Nat
    BY <1>2, <2>1 DEF QueueTypeOK
  <2>5. capacity' = capacity + event'[t].size
    BY <1>4 DEF QueueTakes
  <2>6. TotalSize(event', queue' \ {t}) = capacity
    BY <1>0, <2>1, <2>3
  <2>. HIDE DEF t
  <2>. QED
    BY <2>2, <2>4, <2>5, <2>6
<1>5. CASE QueueGives
  <2>1. PICK t \in queue : queue' = queue \ {t} /\ capacity' = Less(capacity, event[t].size)
    BY <1>5 DEF QueueGives
  <2>2. /\ TotalSize(event, queue \ {t}) \in Nat
        /\ TotalSize(event, queue)
          = event[t].size + TotalSize(event, queue \ {t})
    BY <1>1, SumRemove
  <2>3. TotalSize(event', queue \ {t})
          = TotalSize(event, queue \ {t})
    <3>1. IsFiniteSet(queue \ {t})
      BY <1>1, FS_Subset
    <3>2. \A u \in queue \ {t} : event[u].size \in Nat /\ event'[u].size = event[u].size
      BY <1>1, <1>5 DEF QueueGives
    <3>. QED
      BY <3>1, <3>2, SumSame
  <2>4. capacity' = capacity - event[t].size
    BY <1>0, <1>1, <2>1, <2>2 DEF Less
  <2>. QED
    BY <1>0, <1>1, <2>1, <2>2, <2>3, <2>4
<1>. QED
  BY <1>3, <1>4, <1>5, QueueStep

\* _capacity is the sum of the sizes of the queued events: what is_full
\* compares with the limit never drifts from what the queue holds.
THEOREM Capacity == Spec => []CapacityIsSum
<1>1. Init => CapacityIsSum
  BY SumEmpty DEF Init, CapacityIsSum
<1>. QED
  BY <1>1, SumStep, TypeCorrect, PTL DEF Spec

-----------------------------------------------------------------------------
(* The draws that an event has survived                                    *)

\* A step that makes no draw and ends no prune.
NoDraw ==
  /\ UNCHANGED <<event, eventIndex, dropPass>>
  /\ queue' \subseteq queue
  /\ ~QueueUnlocked => UNCHANGED unexamined /\ ~QueueUnlocked'

\* Such are all the steps but a push, and a prune's entry and end.
LEMMA DrawFree ==
  ASSUME TypeOK, [Next]_vars,
         ~ \E p \in Producers : \/ PruneEnd(p)
                                \/ \E s \in Sizes : AppendPush(p, s)
                                \/ \E t \in unexamined : PruneEntry(p, t)
  PROVE  NoDraw
<1>1. ASSUME NEW p \in Producers,
             \/ AppendSubsampledAway(p) \/ CheckFull(p) \/ WaitCheck(p) \/ FallAsleep(p)
             \/ PruneBegin(p) \/ SpuriousWakeup(p)
      PROVE  NoDraw
  BY <1>1 DEF TypeOK, AppendTypeOK, AppendSubsampledAway, CheckFull, WaitCheck, FallAsleep, PruneBegin,
     SpuriousWakeup, queueVars, NoDraw, QueueUnlocked
<1>2. CASE FillNotify
  <2>1. UNCHANGED pc \/ \E q \in Sleepers : pc' = [pc EXCEPT ![q] = "wait"]
    BY <1>2 DEF FillNotify
  <2>2. ~QueueUnlocked => ~QueueUnlocked'
    BY <2>1 DEF QueueUnlocked, Sleepers, TypeOK, AppendTypeOK
  <2>. QED
    BY <1>2, <2>2 DEF FillNotify, queueVars, NoDraw
<1>3. ASSUME NEW t \in queue, FillPop(t) PROVE NoDraw
  BY <1>3 DEF FillPop, Pop, NoDraw
<1>4. CASE \/ FlushBegin \/ FillSpin \/ FlushSend \/ FlushSendUnfinished
           \/ \E t \in inflight : FillSerialize(t)
           \/ \E t \in batch : FillFinalize(t)
           \/ StartThread \/ Wake \/ DestructorStop \/ DestructorStep \/ Destroyed
           \/ UNCHANGED vars
  <2>1. UNCHANGED <<queueVars, pc>>
    BY <1>4 DEF FlushBegin, FillSpin, FlushSend, FlushSendUnfinished, FillSerialize,
       FillFinalize, StartThread, Wake, DestructorStop, DestructorStep, DestructorJoin,
       DestructorFlush, DestructorEnd, Destroyed, vars, appendVars
  <2>. QED
    BY <2>1 DEF queueVars, NoDraw, QueueUnlocked
<1>. QED
  BY <1>1, <1>2, <1>3, <1>4 DEF Next, AppendBegin, AppendStep, FlushStep

\* Survived draws are counted one by one, but for those of append and push.
LEMMA DrawsStep ==
  ASSUME TypeOK, DrawsInv, [Next]_vars
  PROVE  DrawsInv'
<1>. USE DEF TypeOK
<1>1. CASE NoDraw
  BY <1>1 DEF NoDraw, DrawsInv, Tickets
<1>2. ASSUME NEW p \in Producers, NEW s \in Sizes, AppendPush(p, s)
      PROVE  DrawsInv'
  <2>. DEFINE n == eventIndex + 1
              e == Subsampled(Subsampled(NewEvent(s)))
  <2>1. /\ e.draws \subseteq {SubsamplePass}
        /\ e.factors = Cardinality(e.draws) + (IF Subsample THEN 1 ELSE 0)
    <3>1. Cardinality({}) = 0 /\ Cardinality({SubsamplePass}) = 1
      BY FS_EmptySet, FS_Singleton
    <3>2. CASE Subsample
      <4>1. e.draws = {SubsamplePass} /\ e.factors = 2
        BY <3>2 DEF Subsampled, Survive, NewEvent
      <4>. QED
        BY <3>1, <3>2, <4>1
    <3>3. CASE ~Subsample
      <4>1. e.draws = {} /\ e.factors = 0
        BY <3>3 DEF Subsampled, NewEvent
      <4>. QED
        BY <3>1, <3>3, <4>1
    <3>. QED
      BY <3>2, <3>3
  <2>. HIDE DEF e
  <2>2. /\ QueueUnlocked
        /\ event' = [t \in 1..n |-> IF t \in Tickets THEN event[t] ELSE e]
        /\ queue' = queue \cup {n} /\ eventIndex' = n
        /\ UNCHANGED <<dropPass, unexamined>>
    BY <1>2 DEF AppendPush, Push, e
  <2>3. n \notin Tickets /\ n \in 1..n /\ 1..n = Tickets \cup {n} /\ Tickets' = 1..n
    BY <2>2 DEF QueueTypeOK, Tickets
  <2>4. event'[n] = e /\ \A t \in Tickets : event'[t] = event[t]
    BY <2>2, <2>3
  <2>5. dropPass \in Nat /\ SubsamplePass \in SubsamplePass..dropPass /\ dropPass # SubsamplePass
    BY DEF QueueTypeOK, SubsamplePass
  <2>6. ASSUME NEW t \in Tickets'
        PROVE  /\ event'[t].draws \subseteq SubsamplePass..dropPass'
               /\ event'[t].factors = Cardinality(event'[t].draws) + (IF Subsample THEN 1 ELSE 0)
    BY <2>1, <2>2, <2>3, <2>4, <2>5, <2>6 DEF DrawsInv
  <2>7. ASSUME NEW t \in queue' PROVE dropPass' \notin event'[t].draws
    <3>1. CASE t = n
      BY <2>1, <2>2, <2>4, <2>5, <3>1
    <3>2. CASE t \in queue
      BY <2>2, <2>4, <3>2 DEF DrawsInv, QueueTypeOK
    <3>. QED
      BY <2>2, <3>1, <3>2
  <2>. QED
    BY <2>6, <2>7 DEF DrawsInv
<1>3. ASSUME NEW p \in Producers, NEW t \in unexamined, PruneEntry(p, t)
      PROVE  DrawsInv'
  <2>1. t \in queue /\ t \in Tickets /\ event[t] \in Event /\ dropPass \notin event[t].draws
    BY EventType DEF QueueTypeOK, DrawsInv
  <2>2. /\ UNCHANGED <<eventIndex, dropPass, pc>> /\ unexamined' = unexamined \ {t}
        /\ queue' \subseteq queue /\ ~QueueUnlocked' /\ Tickets' = Tickets
    BY <1>3 DEF PruneEntry, appendVars, QueueUnlocked, QueueTypeOK, Tickets
  <2>3. CASE UNCHANGED event
    BY <2>2, <2>3 DEF DrawsInv
  <2>4. CASE event' = [event EXCEPT ![t] = Survive(@, dropPass)]
    <3>. DEFINE e == Survive(event[t], dropPass)
    <3>1. e.draws = event[t].draws \cup {dropPass} /\ e.factors = event[t].factors + 1
      BY DEF Survive
    <3>2. /\ event[t].draws \subseteq SubsamplePass..dropPass
          /\ event[t].factors = Cardinality(event[t].draws) + (IF Subsample THEN 1 ELSE 0)
      BY <2>1 DEF DrawsInv
    <3>3. IsFiniteSet(SubsamplePass..dropPass)
      BY FS_Interval DEF QueueTypeOK, SubsamplePass
    <3>4. IsFiniteSet(event[t].draws)
      BY <3>2, <3>3, FS_Subset
    <3>5. /\ Cardinality(e.draws) = Cardinality(event[t].draws) + 1
          /\ Cardinality(event[t].draws) \in Nat
      BY <2>1, <3>1, <3>4, FS_AddElement, FS_CardinalityType
    <3>6. e.factors = Cardinality(e.draws) + (IF Subsample THEN 1 ELSE 0)
      BY <3>1, <3>2, <3>5
    <3>7. e.draws \subseteq SubsamplePass..dropPass
      BY <3>1, <3>2 DEF QueueTypeOK, SubsamplePass
    <3>. HIDE DEF e
    <3>8. event'[t] = e /\ \A u \in Tickets \ {t} : event'[u] = event[u]
      BY <2>1, <2>4 DEF QueueTypeOK, e
    <3>9. ASSUME NEW u \in Tickets'
          PROVE  /\ event'[u].draws \subseteq SubsamplePass..dropPass'
                 /\ event'[u].factors = Cardinality(event'[u].draws) + (IF Subsample THEN 1 ELSE 0)
      <4>1. CASE u = t
        BY <2>2, <3>6, <3>7, <3>8, <4>1
      <4>2. CASE u # t
        BY <2>2, <3>8, <4>2 DEF DrawsInv
      <4>. QED
        BY <4>1, <4>2
    <3>10. ASSUME NEW u \in unexamined' PROVE dropPass' \notin event'[u].draws
      BY <2>2, <3>8 DEF DrawsInv, QueueTypeOK
    <3>. QED
      BY <2>2, <3>9, <3>10 DEF DrawsInv
  <2>. QED
    BY <1>3, <2>3, <2>4 DEF PruneEntry
<1>4. ASSUME NEW p \in Producers, PruneEnd(p)
      PROVE  DrawsInv'
  <2>1. /\ UNCHANGED <<queue, eventIndex, event>> /\ dropPass' = dropPass + 1 /\ Tickets' = Tickets
    BY <1>4 DEF PruneEnd, Tickets
  <2>2. dropPass' \notin SubsamplePass..dropPass
        /\ SubsamplePass..dropPass \subseteq SubsamplePass..dropPass'
    BY <2>1 DEF QueueTypeOK, SubsamplePass
  <2>. QED
    BY <2>1, <2>2 DEF DrawsInv, QueueTypeOK
<1>. QED
  BY <1>1, <1>2, <1>3, <1>4, DrawFree

\* _pass_prob has one factor for each draw the event survived, and one factor
\* too many when append and push subsample it.
THEOREM Draws == Spec => []DrawsInv
<1>1. Init => DrawsInv
  BY DEF Init, DrawsInv, Tickets
<1>. QED
  BY <1>1, DrawsStep, TypeCorrect, PTL DEF Spec

\* _pass_prob is the probability that the event survived throttling, in every
\* batcher that does not subsample: no two prunes make the same draw.
THEOREM PassProb ==
  ASSUME ~Subsample
  PROVE  Spec => []PassProbIsSurvival
<1>1. TypeOK /\ DrawsInv => PassProbIsSurvival
  <2>. SUFFICES ASSUME TypeOK, DrawsInv, NEW t \in Tickets
                PROVE  event[t].factors = Cardinality(event[t].draws)
    BY DEF PassProbIsSurvival
  <2>1. IsFiniteSet(SubsamplePass..dropPass)
    BY FS_Interval DEF TypeOK, QueueTypeOK, SubsamplePass
  <2>2. Cardinality(event[t].draws) \in Nat
    BY <2>1, FS_Subset, FS_CardinalityType DEF DrawsInv
  <2>. QED
    BY <2>2 DEF DrawsInv
<1>. QED
  BY <1>1, Draws, TypeCorrect, PTL
=============================================================================
