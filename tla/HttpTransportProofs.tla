------------------------- MODULE HttpTransportProofs -------------------------
(***************************************************************************)
(* What is proved about HttpTransport, for any limit of tasks and retries, *)
(* any durations and any number of buffers.  The inductive invariant says  *)
(* that the queue holds the newest tasks, numbered without a gap, that the *)
(* task before them is the one being joined, and that all others are over. *)
(***************************************************************************)
EXTENDS HttpTransport, TLAPS

\* The tasks in the queue are the last ones pushed, in their order.
QueueIsSuffix ==
    /\ Len(tasks) <= accepted
    /\ \A i \in 1 .. Len(tasks) : tasks[i] = accepted - Len(tasks) + i

\* The task being joined came just before them; v_send or the destructor waits.
JoinsOldest ==
    oldest # 0 => /\ oldest = accepted - Len(tasks)
                  /\ Len(tasks) < MaxTasks
                  /\ caller \in {"pop", "dtor"}

\* Tasks exist up to the last number given.
Started == \A t \in Ids : task[t].state = "none" <=> t > accepted

\* A task that has left the queue is over, unless it is being joined.
LeftIsOver ==
    \A t \in Ids : (t <= accepted - Len(tasks) /\ t # oldest) => task[t].state \notin Running

\* There is room for the task that v_send is about to create.
Room ==
    /\ Len(tasks) <= MaxTasks
    /\ caller = "create" => Len(tasks) < MaxTasks
    /\ caller \in {"pop", "create"} => accepted < MaxAccept
    /\ caller = "destroyed" => tasks = <<>>

\* A task that waits to retry has a try and some time left; a server takes
\* one copy a request at most.
Retrying ==
    \A t \in Ids :
        /\ task[t].tries <= MaxRetries
        /\ stored[t] <= task[t].tries + IF task[t].state \in {"none", "posted"} THEN 0 ELSE 1
        /\ task[t].state = "none" => stored[t] = 0
        /\ task[t].state = "escaped" => stored[t] <= task[t].tries
        /\ task[t].state = "sleeping" => task[t].tries < MaxRetries /\ task[t].elapsed <= MaxDuration
        /\ task[t].state = "posted" => task[t].elapsed <= MaxDuration + RETRY_DELAY

TransportInv ==
    /\ TypeOK
    /\ QueueIsSuffix
    /\ JoinsOldest
    /\ Started
    /\ LeftIsOver
    /\ Room

\* The initial state satisfies the invariants.
LEMMA TransportInit == Init => TransportInv /\ Retrying /\ ReportedOnce
<1> USE TransportAssumption
<1> SUFFICES ASSUME Init PROVE TransportInv /\ Retrying /\ ReportedOnce
  OBVIOUS
<1>1. Len(tasks) = 0 /\ accepted = 0 /\ oldest = 0 /\ caller = "idle"
  BY DEF Init
<1>2. \A t \in Ids : task[t] = [state |-> "none", tries |-> 0, elapsed |-> 0, reported |-> 0]
  BY DEF Init, NewTask
<1>3. TypeOK
  <2>1. task \in [Ids -> [state : TaskStates, tries : Nat, elapsed : Nat, reported : Nat]]
    BY DEF Init, NewTask, TaskStates
  <2> QED
    BY <1>1, <2>1 DEF Init, TypeOK
<1>4. QueueIsSuffix /\ JoinsOldest /\ Room
  BY <1>1 DEF QueueIsSuffix, JoinsOldest, Room, Init
<1>5. Started /\ LeftIsOver
  BY <1>1, <1>2 DEF Started, LeftIsOver, Ids, Running
<1>6. Retrying /\ ReportedOnce
  BY <1>2 DEF Retrying, ReportedOnce, Init, RETRY_DELAY
<1> QED
  BY <1>3, <1>4, <1>5, <1>6 DEF TransportInv

\* A step of a task touches its own record only, and moves a running task.
LEMMA TaskStepFrame ==
  ASSUME TypeOK, NEW t \in Ids, TaskStep(t)
  PROVE  /\ UNCHANGED <<tasks, oldest, caller, accepted>>
         /\ TypeOK'
         /\ task[t].state \in Running /\ task'[t].state # "none"
         /\ \A u \in Ids \ {t} : task'[u] = task[u] /\ stored'[u] = stored[u]
<1> DEFINE Record == [state : TaskStates, tries : Nat, elapsed : Nat, reported : Nat]
           Moves(new, copies) ==
             /\ task' = [task EXCEPT ![t] = new] /\ new \in Record /\ new.state # "none"
             /\ stored' = [stored EXCEPT ![t] = copies] /\ copies \in Nat
             /\ task[t].state \in Running /\ UNCHANGED <<tasks, oldest, caller, accepted>>
<1>0. task \in [Ids -> Record] /\ task[t] \in Record /\ stored \in [Ids -> Nat] /\ stored[t] \in Nat
  BY DEF TypeOK
<1>1. Succeed(t) => \E new, copies : Moves(new, copies)
  <2>1. ASSUME Succeed(t) PROVE Moves([task[t] EXCEPT !.state = "ok"], stored[t] + 1)
    BY <1>0, <2>1 DEF Succeed, Running, TaskStates
  <2> QED
    BY <2>1
<1>2. ASSUME Fail(t) PROVE \E new, copies : Moves(new, copies)
  <2>1. PICK latency \in 0 .. MaxLatency, taken \in {0, 1} : Fail(t)!(latency, taken)
    BY <1>2 DEF Fail
  <2> DEFINE time == task[t].elapsed + latency
  <2>2. time \in Nat /\ stored[t] + taken \in Nat
    BY <1>0, TransportAssumption
  <2> HIDE DEF time
  <2>3. Moves([task[t] EXCEPT !.elapsed = time,
                 !.state = IF Exhausted(t, time) THEN "failed" ELSE "sleeping",
                 !.reported = IF Exhausted(t, time) THEN @ + 1 ELSE @], stored[t] + taken)
    BY <1>0, <2>1, <2>2 DEF Running, TaskStates, time
  <2> QED
    BY <2>3
<1>3. Resend(t) => \E new, copies : Moves(new, copies)
  <2>1. ASSUME Resend(t) PROVE Moves([task[t] EXCEPT !.state = "posted", !.tries = @ + 1, !.elapsed = @ + RETRY_DELAY], stored[t])
    BY <1>0, <2>1 DEF Resend, Running, TaskStates, RETRY_DELAY
  <2> QED
    BY <2>1
<1>4. ResendThrows(t) => \E new, copies : Moves(new, copies)
  <2>1. ASSUME ResendThrows(t) PROVE Moves([task[t] EXCEPT !.state = "escaped", !.tries = @ + 1, !.elapsed = @ + RETRY_DELAY], stored[t])
    BY <1>0, <2>1 DEF ResendThrows, Running, TaskStates, RETRY_DELAY
  <2> QED
    BY <2>1
<1> HIDE DEF Moves
<1>5. PICK new, copies : Moves(new, copies)
  BY <1>1, <1>2, <1>3, <1>4 DEF TaskStep
<1> QED
  BY <1>0, <1>5 DEF Moves, TypeOK

\* The queue, the join and the tasks stay in step with each other.
LEMMA TransportNext == TransportInv /\ [Next]_vars => TransportInv'
<1> USE TransportAssumption
<1> SUFFICES ASSUME TransportInv, [Next]_vars PROVE TransportInv'
  OBVIOUS
<1>0. /\ TypeOK /\ QueueIsSuffix /\ JoinsOldest /\ Started /\ LeftIsOver /\ Room
      /\ Len(tasks) \in Nat /\ accepted \in Nat
  BY DEF TransportInv, TypeOK
<1>1. CASE BeginSend
  BY <1>0, <1>1 DEF BeginSend, TransportInv, TypeOK, QueueIsSuffix, JoinsOldest, Started, LeftIsOver, Room
<1>2. CASE PopTask
  <2>1. /\ tasks' = Tail(tasks) /\ Len(tasks') = Len(tasks) - 1 /\ Len(tasks) > 0
        /\ \A i \in 1 .. Len(tasks') : tasks'[i] = tasks[i + 1]
        /\ oldest' = tasks[1] /\ tasks' \in Seq(Ids)
        /\ UNCHANGED <<task, caller, accepted, stored>>
    BY <1>0, <1>2 DEF PopTask, TypeOK
  <2>2. oldest' = accepted - Len(tasks) + 1 /\ oldest' \in Ids /\ oldest = 0
    BY <1>0, <1>2, <2>1 DEF QueueIsSuffix, TypeOK, PopTask
  <2>3. TypeOK'
    BY <1>0, <2>1, <2>2 DEF TypeOK
  <2>4. QueueIsSuffix' /\ JoinsOldest'
    BY <1>0, <1>2, <2>1, <2>2 DEF QueueIsSuffix, JoinsOldest, Room, PopTask
  <2>5. Started' /\ LeftIsOver'
    BY <1>0, <2>1, <2>2 DEF Started, LeftIsOver, Ids
  <2>6. Room'
    BY <1>0, <1>2, <2>1 DEF Room, PopTask
  <2> QED
    BY <2>3, <2>4, <2>5, <2>6 DEF TransportInv
<1>3. CASE Join
  BY <1>0, <1>3 DEF Join, TransportInv, TypeOK, QueueIsSuffix, JoinsOldest, Started, LeftIsOver, Room
<1>4. CASE CreateTask
  <2>1. /\ tasks' = Append(tasks, accepted + 1) /\ accepted' = accepted + 1
        /\ accepted + 1 \in Ids /\ caller' = "idle" /\ oldest = 0
        /\ UNCHANGED <<oldest, stored>>
        /\ \A t \in Ids : task'[t] = IF t = accepted + 1 THEN NewTask ELSE task[t]
    BY <1>0, <1>4 DEF CreateTask, Room, TypeOK, Ids, JoinsOldest
  <2>2. /\ tasks' \in Seq(Ids) /\ Len(tasks') = Len(tasks) + 1
        /\ \A i \in 1 .. Len(tasks) : tasks'[i] = tasks[i]
        /\ tasks'[Len(tasks) + 1] = accepted + 1
    BY <1>0, <2>1 DEF TypeOK
  <2>3. TypeOK'
    <3>1. task' \in [Ids -> [state : TaskStates, tries : Nat, elapsed : Nat, reported : Nat]]
      BY <1>0, <1>4, <2>1 DEF CreateTask, NewTask, TypeOK, TaskStates
    <3> QED
      BY <1>0, <2>1, <2>2, <3>1 DEF TypeOK, Ids
  <2>4. QueueIsSuffix'
    <3>1. ASSUME NEW i \in 1 .. Len(tasks') PROVE tasks'[i] = accepted' - Len(tasks') + i
      <4>1. i \in 1 .. Len(tasks) \/ i = Len(tasks) + 1
        BY <1>0, <2>2
      <4> QED
        BY <1>0, <2>1, <2>2, <4>1 DEF QueueIsSuffix
    <3> QED
      BY <1>0, <2>1, <2>2, <3>1 DEF QueueIsSuffix
  <2>5. JoinsOldest' /\ Room'
    BY <1>0, <1>4, <2>1, <2>2 DEF JoinsOldest, Room, CreateTask
  <2>6. Started' /\ LeftIsOver'
    <3>1. accepted' - Len(tasks') = accepted - Len(tasks) /\ NewTask.state = "posted"
      BY <1>0, <2>1, <2>2 DEF NewTask
    <3>2. ASSUME NEW t \in Ids PROVE t \in Nat /\ (t = accepted + 1 \/ (t > accepted <=> t > accepted + 1))
      BY <1>0 DEF Ids
    <3>3. Started'
      BY <1>0, <2>1, <3>1, <3>2 DEF Started
    <3>4. ~(accepted + 1 <= accepted - Len(tasks))
      BY <1>0
    <3> QED
      BY <1>0, <2>1, <3>1, <3>3, <3>4 DEF LeftIsOver
  <2> QED
    BY <2>3, <2>4, <2>5, <2>6 DEF TransportInv
<1>5. CASE CreateThrows
  BY <1>0, <1>5 DEF CreateThrows, TransportInv, TypeOK, QueueIsSuffix, JoinsOldest, Started, LeftIsOver, Room
<1>6. CASE BeginDestroy
  BY <1>0, <1>6 DEF BeginDestroy, TransportInv, TypeOK, QueueIsSuffix, JoinsOldest, Started, LeftIsOver, Room
<1>7. CASE EndDestroy
  BY <1>0, <1>7 DEF EndDestroy, TransportInv, TypeOK, QueueIsSuffix, JoinsOldest, Started, LeftIsOver, Room
<1>8. ASSUME NEW t \in Ids, TaskStep(t) PROVE TransportInv'
  <2>1. /\ UNCHANGED <<tasks, oldest, caller, accepted>> /\ TypeOK'
        /\ task[t].state \in Running /\ task'[t].state # "none"
        /\ \A u \in Ids \ {t} : task'[u] = task[u]
    BY <1>0, <1>8, TaskStepFrame
  <2>2. Started' /\ LeftIsOver'
    BY <1>0, <2>1 DEF Started, LeftIsOver, Running
  <2> QED
    BY <1>0, <2>1, <2>2 DEF TransportInv, QueueIsSuffix, JoinsOldest, Room
<1>9. CASE UNCHANGED vars
  BY <1>0, <1>9 DEF vars, TransportInv, TypeOK, QueueIsSuffix, JoinsOldest, Started, LeftIsOver, Room
<1> QED
  BY <1>1, <1>2, <1>3, <1>4, <1>5, <1>6, <1>7, <1>8, <1>9 DEF Next, CallerStep, Finished

\* A retry keeps within the tries and the time it is allowed, and the error
\* callback is called when they are used up.
LEMMA RetryNext ==
  TransportInv /\ Retrying /\ ReportedOnce /\ [Next]_vars => Retrying' /\ ReportedOnce'
<1> USE TransportAssumption
<1> SUFFICES ASSUME TransportInv, Retrying, ReportedOnce, [Next]_vars
             PROVE  Retrying' /\ ReportedOnce'
  OBVIOUS
<1>0. TypeOK /\ Started
  BY DEF TransportInv
<1>1. CASE CreateTask
  <2>1. /\ accepted + 1 \in Ids /\ stored' = stored
        /\ \A t \in Ids : task'[t] = IF t = accepted + 1 THEN NewTask ELSE task[t]
    BY <1>1 DEF TransportInv, CreateTask, Room, TypeOK, Ids
  <2>2. task[accepted + 1].state = "none" /\ stored[accepted + 1] = 0
    BY <1>0, <2>1 DEF Started, Retrying, TypeOK
  <2> QED
    BY <1>0, <2>1, <2>2 DEF Retrying, ReportedOnce, NewTask, RETRY_DELAY
<1>2. ASSUME NEW t \in Ids, TaskStep(t) PROVE Retrying' /\ ReportedOnce'
  <2> DEFINE P(u) == Retrying!(u)' /\ ReportedOnce!(u)'
  <2>1. \A u \in Ids \ {t} : task'[u] = task[u] /\ stored'[u] = stored[u]
    BY <1>0, <1>2, TaskStepFrame
  <2>2. /\ task[t].tries \in Nat /\ task[t].elapsed \in Nat /\ stored[t] \in Nat
        /\ task[t] \in [state : TaskStates, tries : Nat, elapsed : Nat, reported : Nat]
    BY <1>0 DEF TypeOK
  <2> HIDE DEF P
  <2>3. P(t)
    <3>0. task \in [Ids -> [state : TaskStates, tries : Nat, elapsed : Nat, reported : Nat]] /\ stored \in [Ids -> Nat]
      BY <1>0 DEF TypeOK
    <3>1. CASE Succeed(t)
      <4>1. task'[t] = [task[t] EXCEPT !.state = "ok"] /\ stored'[t] = stored[t] + 1
        BY <3>0, <3>1 DEF Succeed
      <4> QED
        BY <2>2, <3>1, <4>1 DEF P, Succeed, Retrying, ReportedOnce
    <3>2. CASE Fail(t)
      <4>1. PICK latency \in 0 .. MaxLatency, taken \in {0, 1} : Fail(t)!(latency, taken)
        BY <3>2 DEF Fail
      <4> DEFINE time == task[t].elapsed + latency
      <4>2. time \in Nat
        BY <2>2
      <4>3. /\ task'[t] = [task[t] EXCEPT !.elapsed = time,
                             !.state = IF Exhausted(t, time) THEN "failed" ELSE "sleeping",
                             !.reported = IF Exhausted(t, time) THEN @ + 1 ELSE @]
            /\ stored'[t] = stored[t] + taken /\ task[t].state = "posted"
        BY <3>0, <4>1
      <4> HIDE DEF time
      <4>4. /\ task'[t].elapsed = time /\ task'[t].tries = task[t].tries
            /\ task'[t].state = IF Exhausted(t, time) THEN "failed" ELSE "sleeping"
            /\ task'[t].reported = IF Exhausted(t, time) THEN task[t].reported + 1 ELSE task[t].reported
        BY <2>2, <4>3
      <4> QED
        BY <2>2, <4>2, <4>3, <4>4 DEF P, Exhausted, Retrying, ReportedOnce
    <3>3. CASE Resend(t)
      <4>1. /\ task'[t] = [task[t] EXCEPT !.state = "posted", !.tries = @ + 1, !.elapsed = @ + RETRY_DELAY]
            /\ stored'[t] = stored[t]
        BY <3>0, <3>3 DEF Resend
      <4>2. /\ task'[t].state = "posted" /\ task'[t].tries = task[t].tries + 1
            /\ task'[t].elapsed = task[t].elapsed + 1 /\ task'[t].reported = task[t].reported
            /\ task[t].state = "sleeping"
        BY <2>2, <3>3, <4>1 DEF Resend, RETRY_DELAY
      <4> QED
        BY <2>2, <4>1, <4>2 DEF P, Retrying, ReportedOnce, RETRY_DELAY
    <3>4. CASE ResendThrows(t)
      <4>1. /\ task'[t] = [task[t] EXCEPT !.state = "escaped", !.tries = @ + 1, !.elapsed = @ + RETRY_DELAY]
            /\ stored'[t] = stored[t]
        BY <3>0, <3>4 DEF ResendThrows
      <4>2. /\ task'[t].state = "escaped" /\ task'[t].tries = task[t].tries + 1
            /\ task'[t].elapsed = task[t].elapsed + 1 /\ task'[t].reported = task[t].reported
            /\ task[t].state = "sleeping"
        BY <2>2, <3>4, <4>1 DEF ResendThrows, RETRY_DELAY
      <4> QED
        BY <2>2, <4>1, <4>2 DEF P, Retrying, ReportedOnce, RETRY_DELAY
    <3> QED
      BY <1>2, <3>1, <3>2, <3>3, <3>4 DEF TaskStep
  <2>4. ASSUME NEW u \in Ids \ {t} PROVE P(u)
    BY <2>1 DEF P, Retrying, ReportedOnce
  <2> QED
    BY <2>3, <2>4 DEF P, Retrying, ReportedOnce
<1>3. CASE UNCHANGED <<task, stored>>
  BY <1>3 DEF Retrying, ReportedOnce
<1> QED
  BY <1>1, <1>2, <1>3
     DEF Next, CallerStep, BeginSend, PopTask, Join, CreateThrows, BeginDestroy, EndDestroy, Finished, vars

\* The invariants of the queue and of the retries hold throughout.
THEOREM TransportInvariant == Spec => [](TransportInv /\ Retrying /\ ReportedOnce)
<1>1. Init => TransportInv /\ Retrying /\ ReportedOnce
  BY TransportInit
<1>2. TransportInv /\ Retrying /\ ReportedOnce /\ [Next]_vars
        => (TransportInv /\ Retrying /\ ReportedOnce)'
  BY TransportNext, RetryNext
<1> QED
  BY <1>1, <1>2, PTL DEF Spec

\* The types are respected (http_transport_client's members).
THEOREM TransportTypes == Spec => []TypeOK
<1>1. TransportInv => TypeOK
  BY DEF TransportInv
<1> QED
  BY <1>1, TransportInvariant, PTL

\* A task whose continuations still run is never freed: pop_task joins it.
THEOREM TasksAreOwned == Spec => []RunningIsOwned
<1>1. TransportInv => RunningIsOwned
  <2> SUFFICES ASSUME TransportInv, NEW t \in Ids, task[t].state \in Running
               PROVE  /\ t = oldest \/ \E i \in 1 .. Len(tasks) : tasks[i] = t
                      /\ caller # "destroyed"
    BY DEF RunningIsOwned
  <2>1. /\ Len(tasks) \in Nat /\ accepted \in Nat /\ t \in Nat /\ t <= accepted
        /\ t = oldest \/ t > accepted - Len(tasks)
    BY DEF TransportInv, TypeOK, Started, LeftIsOver, Running, Ids
  <2>2. ASSUME t # oldest PROVE tasks[t - (accepted - Len(tasks))] = t /\ t - (accepted - Len(tasks)) \in 1 .. Len(tasks)
    BY <2>1, <2>2 DEF TransportInv, QueueIsSuffix
  <2>3. caller = "destroyed" => t = oldest
    BY <2>1 DEF TransportInv, Room
  <2> QED
    BY <2>1, <2>2, <2>3 DEF TransportInv, JoinsOldest, Ids
<1> QED
  BY <1>1, TransportInvariant, PTL

\* Buffers reach the server out of order by less than the limit of tasks.
THEOREM WindowHolds == Spec => []ReorderWindow
<1>1. TransportInv => ReorderWindow
  BY TransportAssumption
     DEF TransportInv, TypeOK, Started, LeftIsOver, Room, JoinsOldest, ReorderWindow, Ids
<1> QED
  BY <1>1, TransportInvariant, PTL

\* The error callback is called once for a buffer given up, never otherwise.
THEOREM FailuresReportedOnce == Spec => []ReportedOnce
BY TransportInvariant, PTL

\* Retries stop after their number or their time; copies are bounded too.
THEOREM RetriesAreBounded == Spec => []RetriesBounded
<1>1. TransportInv /\ Retrying => RetriesBounded
  BY TransportAssumption DEF TransportInv, TypeOK, Retrying, RetriesBounded, TaskStates
<1> QED
  BY <1>1, TransportInvariant, PTL

\* A state of a task has one fate.
LEMMA FateOfStates ==
  /\ FateOf("none") = "new"
  /\ \A s \in Running : FateOf(s) = "pending"
  /\ \A s \in TaskStates :
        /\ (FateOf(s) = "new") <=> (s = "none")
        /\ (FateOf(s) = "pending") <=> (s \in Running)
        /\ FateOf(s) \in {"new", "pending", "acknowledged", "given up"}
BY DEF FateOf, TaskStates, Running

\* A step of the client is a step of the promise or leaves every fate alone.
LEMMA DeliveryStep == TransportInv /\ [Next]_vars => [Promise!Next]_(Promise!vars)
<1> USE TransportAssumption
<1> SUFFICES ASSUME TransportInv, [Next]_vars, Fate' # Fate PROVE Promise!Next
  BY DEF Promise!vars
<1>0. /\ TypeOK /\ Started /\ LeftIsOver /\ Room /\ Len(tasks) \in Nat /\ accepted \in Nat
      /\ Promise!Messages = Ids
  BY DEF TransportInv, TypeOK, Promise!Messages, Ids
<1>s. \A t \in Ids : task[t].state \in TaskStates /\ task'[t].state \in TaskStates
  <2>1. TypeOK'
    BY TransportNext DEF TransportInv
  <2> QED
    BY <1>0, <2>1 DEF TypeOK
<1>1. CASE CreateTask
  <2> DEFINE m == accepted + 1
  <2>1. /\ m \in Ids /\ NewTask.state = "posted" /\ task' = [task EXCEPT ![m] = NewTask]
        /\ oldest = 0 /\ Len(tasks) < MaxTasks
    BY <1>0, <1>1 DEF TransportInv, CreateTask, Room, JoinsOldest, NewTask, Ids
  <2>2. task[m].state = "none" /\ \A k \in Ids : k < m => task[k].state # "none"
    BY <1>0, <2>1 DEF Started, Ids
  <2>3. \A k \in Ids : k + MaxTasks <= m => task[k].state \notin Running
    <3> SUFFICES ASSUME NEW k \in Ids, k + MaxTasks <= m PROVE task[k].state \notin Running
      OBVIOUS
    <3>1. k <= accepted - Len(tasks) /\ k # oldest
      BY <1>0, <2>1 DEF Ids
    <3> QED
      BY <1>0, <3>1 DEF LeftIsOver
  <2>p. task \in [Ids -> [state : TaskStates, tries : Nat, elapsed : Nat, reported : Nat]]
    BY <1>0 DEF TypeOK
  <2> HIDE DEF m
  <2>4. Fate' = [Fate EXCEPT ![m] = "pending"]
    <3>1. task'[m].state = "posted" /\ \A k \in Ids \ {m} : task'[k] = task[k]
      BY <2>1, <2>p
    <3>2. FateOf("posted") = "pending"
      BY FateOfStates DEF Running
    <3>3. Fate'[m] = "pending" /\ \A k \in Ids \ {m} : Fate'[k] = Fate[k]
      BY <2>1, <3>1, <3>2 DEF Fate
    <3> QED
      BY <2>1, <3>3 DEF Fate
  <2>5. Promise!Accept(m)
    <3>1. \A k \in Ids : /\ (Fate[k] = "new") <=> (task[k].state = "none")
                         /\ (Fate[k] = "pending") <=> (task[k].state \in Running)
      BY <1>s, FateOfStates DEF Fate
    <3> QED
      BY <1>0, <2>1, <2>2, <2>3, <2>4, <3>1 DEF Promise!Accept
  <2> QED
    BY <1>0, <2>1, <2>5 DEF Promise!Next
<1>2. ASSUME NEW t \in Ids, TaskStep(t) PROVE Promise!Next
  <2>1. /\ task[t].state \in Running /\ task'[t].state # "none"
        /\ \A u \in Ids \ {t} : task'[u] = task[u]
    BY <1>0, <1>2, TaskStepFrame
  <2> DEFINE f == Fate'[t]
  <2>2. Fate' = [Fate EXCEPT ![t] = f]
    BY <2>1 DEF Fate
  <2>3. Fate[t] = "pending" /\ f \in {"pending", "acknowledged", "given up"}
    BY <1>s, <2>1, FateOfStates DEF Fate
  <2> HIDE DEF f
  <2>4. f # "pending"
    BY <2>2, <2>3 DEF Fate
  <2>5. Promise!Settle(t)
    BY <2>2, <2>3, <2>4 DEF Promise!Settle
  <2> QED
    BY <1>0, <2>5 DEF Promise!Next
<1>3. CASE UNCHANGED task
  BY <1>3 DEF Fate
<1> QED
  BY <1>1, <1>2, <1>3
     DEF Next, CallerStep, BeginSend, PopTask, Join, CreateThrows, BeginDestroy, EndDestroy, Finished, vars

\* The client implements the delivery promised by a sender.
THEOREM TransportDelivers == Spec => ImplementsDelivery
<1>1. Init => Promise!Init
  <2> SUFFICES ASSUME Init PROVE Promise!Init
    OBVIOUS
  <2>1. \A t \in Ids : task[t].state = "none"
    BY DEF Init, NewTask
  <2>2. FateOf("none") = "new"
    BY FateOfStates
  <2>3. Fate = [t \in Ids |-> "new"]
    BY <2>1, <2>2 DEF Fate
  <2> QED
    BY <2>3 DEF Promise!Init, Promise!Messages, Ids
<1> QED
  BY <1>1, DeliveryStep, TransportInvariant, PTL DEF Spec, ImplementsDelivery, Promise!Spec
=============================================================================
