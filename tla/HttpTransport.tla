---------------------------- MODULE HttpTransport ----------------------------
(***************************************************************************)
(* http_transport_client (logger/http_transport_client.h): one thread, the *)
(* batcher's, calls v_send; each accepted buffer becomes a task that POSTs *)
(* it and retries on the HTTP library's threads.  At most MaxTasks tasks   *)
(* are in _tasks; v_send waits for the oldest one when the queue is full,  *)
(* the destructor waits for all of them.                                   *)
(*                                                                         *)
(* A task is known by its number, the order in which it was pushed.  Time  *)
(* is counted in RETRY_DELAYs: a request takes 0 .. MaxLatency of them.    *)
(***************************************************************************)
EXTENDS Integers, Sequences

CONSTANTS MaxTasks,     \* _max_tasks_count
          MaxRetries,   \* _max_retry_count
          MaxDuration,  \* _max_retry_duration
          MaxLatency,   \* bound: longest request
          MaxAccept     \* bound: buffers accepted

\* A limit of zero would make pop_task join a null task.
ASSUME TransportAssumption ==
    /\ MaxTasks \in Nat \ {0}
    /\ {MaxRetries, MaxDuration, MaxLatency, MaxAccept} \subseteq Nat

RETRY_DELAY == 1

VARIABLES
    tasks,     \* _tasks: the numbers of the tasks in the queue, oldest first
    task,      \* what each task's chain of continuations is doing
    oldest,    \* the task pop_task has taken out and joins, 0 if none
    caller,    \* where the thread that owns the client is
    accepted,  \* number of tasks pushed so far
    stored     \* how many copies of each buffer the server has taken

vars == <<tasks, task, oldest, caller, accepted, stored>>

Ids == 1 .. MaxAccept

TaskStates == {"none", "posted", "sleeping", "ok", "failed", "escaped"}
Running == {"posted", "sleeping"}

\* try_count, the time since _start_time and the calls of the error callback.
NewTask == [state |-> "posted", tries |-> 0, elapsed |-> 0, reported |-> 0]

Init ==
    /\ tasks = <<>>
    /\ task = [t \in Ids |-> [NewTask EXCEPT !.state = "none"]]
    /\ oldest = 0
    /\ caller = "idle"
    /\ accepted = 0
    /\ stored = [t \in Ids |-> 0]

-----------------------------------------------------------------------------
(* The thread that owns the client. *)

\* Mutant of BeginSend: the queue may grow by one more.
BeginSend_OffByOne ==
    /\ caller = "idle"
    /\ accepted < MaxAccept
    /\ caller' = IF Len(tasks) > MaxTasks THEN "pop" ELSE "create"
    /\ UNCHANGED <<tasks, task, oldest, accepted, stored>>

\* The size is read before the new task exists: v_send pops when it is full.
\* (Without an authorization header v_send returns before, leaving no trace.)
BeginSend ==
    /\ caller = "idle"
    /\ accepted < MaxAccept
    /\ caller' = IF Len(tasks) >= MaxTasks THEN "pop" ELSE "create"
    /\ UNCHANGED <<tasks, task, oldest, accepted, stored>>

\* pop_task: the oldest task leaves the queue and is joined, done or not.
PopTask ==
    /\ caller \in {"pop", "dtor"}
    /\ oldest = 0
    /\ tasks # <<>>
    /\ oldest' = Head(tasks)
    /\ tasks' = Tail(tasks)
    /\ UNCHANGED <<task, caller, accepted, stored>>

\* Mutant of Join: the task is destroyed without waiting for it.
Join_Detach ==
    /\ oldest # 0
    /\ oldest' = 0
    /\ caller' = IF caller = "pop" THEN "create" ELSE caller
    /\ UNCHANGED <<tasks, task, accepted, stored>>

\* join returns and the task is destroyed; the continuations hold its `this'.
Join ==
    /\ oldest # 0
    /\ task[oldest].state \notin Running
    /\ oldest' = 0
    /\ caller' = IF caller = "pop" THEN "create" ELSE caller
    /\ UNCHANGED <<tasks, task, accepted, stored>>

\* The task's constructor posts the first request; then the task is pushed.
CreateTask ==
    /\ caller = "create"
    /\ accepted' = accepted + 1
    /\ task' = [task EXCEPT ![accepted + 1] = NewTask]
    /\ tasks' = Append(tasks, accepted + 1)
    /\ caller' = "idle"
    /\ UNCHANGED <<oldest, stored>>

\* The constructor throws: eventhub_http_generic, nothing is pushed.
CreateThrows ==
    /\ caller = "create"
    /\ caller' = "idle"
    /\ UNCHANGED <<tasks, task, oldest, accepted, stored>>

BeginDestroy ==
    /\ caller = "idle"
    /\ caller' = "dtor"
    /\ UNCHANGED <<tasks, task, oldest, accepted, stored>>

\* The destructor's loop ends on an empty queue; the client is freed.
EndDestroy ==
    /\ caller = "dtor"
    /\ oldest = 0
    /\ tasks = <<>>
    /\ caller' = "destroyed"
    /\ UNCHANGED <<tasks, task, oldest, accepted, stored>>

-----------------------------------------------------------------------------
(* The continuations of a task. *)

\* A status of 200 .. 299 ends the task.
Succeed(t) ==
    /\ task[t].state = "posted"
    /\ task' = [task EXCEPT ![t].state = "ok"]
    /\ stored' = [stored EXCEPT ![t] = @ + 1]
    /\ UNCHANGED <<tasks, oldest, caller, accepted>>

Exhausted(t, elapsed) == task[t].tries >= MaxRetries \/ elapsed > MaxDuration

\* Mutant of Fail: every failure calls the error callback.
Fail_ReportsAll(t) ==
    \E latency \in 0 .. MaxLatency, taken \in {0, 1} :
        LET elapsed == task[t].elapsed + latency IN
        /\ task[t].state = "posted"
        /\ task' = [task EXCEPT ![t].elapsed  = elapsed,
                       ![t].state = IF Exhausted(t, elapsed) THEN "failed" ELSE "sleeping",
                       ![t].reported = @ + 1]
        /\ stored' = [stored EXCEPT ![t] = @ + taken]
        /\ UNCHANGED <<tasks, oldest, caller, accepted>>

\* Any other status, or an exception of the request.  The server may have
\* taken the buffer all the same.  The last failure calls the error callback.
Fail(t) ==
    \E latency \in 0 .. MaxLatency, taken \in {0, 1} :
        LET elapsed == task[t].elapsed + latency IN
        /\ task[t].state = "posted"
        /\ task' = [task EXCEPT ![t].elapsed  = elapsed,
                       ![t].state = IF Exhausted(t, elapsed) THEN "failed" ELSE "sleeping",
                       ![t].reported = IF Exhausted(t, elapsed) THEN @ + 1 ELSE @]
        /\ stored' = [stored EXCEPT ![t] = @ + taken]
        /\ UNCHANGED <<tasks, oldest, caller, accepted>>

\* Mutant of Resend: the count and the time of the task start over.
Resend_StartsOver(t) ==
    /\ task[t].state = "sleeping"
    /\ task' = [task EXCEPT ![t].state = "posted", ![t].tries = 0, ![t].elapsed = 0]
    /\ UNCHANGED <<tasks, oldest, caller, accepted, stored>>

\* After RETRY_DELAY the same data is posted again ...
Resend(t) ==
    /\ task[t].state = "sleeping"
    /\ task' = [task EXCEPT ![t].state = "posted", ![t].tries = @ + 1,
                            ![t].elapsed = @ + RETRY_DELAY]
    /\ UNCHANGED <<tasks, oldest, caller, accepted, stored>>

\* ... or posting it throws: send_request traces the exception and no more.
ResendThrows(t) ==
    /\ task[t].state = "sleeping"
    /\ task' = [task EXCEPT ![t].state = "escaped", ![t].tries = @ + 1,
                            ![t].elapsed = @ + RETRY_DELAY]
    /\ UNCHANGED <<tasks, oldest, caller, accepted, stored>>

-----------------------------------------------------------------------------
CallerStep == PopTask \/ Join \/ CreateTask \/ CreateThrows \/ EndDestroy
TaskStep(t) == Succeed(t) \/ Fail(t) \/ Resend(t) \/ ResendThrows(t)

\* The client is freed and its tasks are over: nothing is left to happen.
Finished ==
    /\ caller = "destroyed"
    /\ UNCHANGED vars

Next ==
    \/ BeginSend \/ BeginDestroy \/ CallerStep \/ Finished
    \/ \E t \in Ids : TaskStep(t)

Spec == Init /\ [][Next]_vars

\* Requests end (the HTTP library times them out) and threads are scheduled.
FairSpec == Spec /\ WF_vars(CallerStep) /\ \A t \in Ids : WF_vars(TaskStep(t))

-----------------------------------------------------------------------------
(* Properties. *)

TypeOK ==
    /\ tasks \in Seq(Ids)
    /\ task \in [Ids -> [state : TaskStates, tries : Nat, elapsed : Nat, reported : Nat]]
    /\ oldest \in Ids \cup {0}
    /\ caller \in {"idle", "pop", "create", "dtor", "destroyed"}
    /\ accepted \in 0 .. MaxAccept
    /\ stored \in [Ids -> Nat]

\* The chain of continuations uses its task's `this' and the client's
\* pointers: a task that still runs is in the queue or is being joined, and
\* none runs once the client is freed (~http_transport_client).
RunningIsOwned ==
    \A t \in Ids : task[t].state \in Running =>
        /\ t = oldest \/ \E i \in 1 .. Len(tasks) : tasks[i] = t
        /\ caller # "destroyed"

\* A buffer is posted only when the one MaxTasks before it is over: no more
\* than MaxTasks requests are outstanding, and the server sees buffers out of
\* order by less than MaxTasks places (v_send waits for the oldest task).
ReorderWindow ==
    \A t, u \in Ids : (t + MaxTasks <= u /\ task[u].state # "none")
                         => task[t].state \notin Running

\* The error callback is called for the buffers whose retries are exhausted,
\* once, and for no other: not for one that was acknowledged on a retry.
ReportedOnce ==
    \A t \in Ids : task[t].reported = IF task[t].state = "failed" THEN 1 ELSE 0

\* "retries will halt before max_retries attempts if this time elapses first":
\* no more than 1 + MaxRetries copies of a buffer reach the server, and no
\* request starts more than a RETRY_DELAY after MaxDuration.
RetriesBounded ==
    \A t \in Ids :
        /\ stored[t] <= 1 + MaxRetries
        /\ task[t].state = "posted" => task[t].elapsed <= MaxDuration + RETRY_DELAY

\* What the state of a task says of the delivery of its buffer.
FateOf(state) == CASE state = "none" -> "new"
                   [] state \in Running -> "pending"
                   [] state = "ok" -> "acknowledged"
                   [] state \in {"failed", "escaped"} -> "given up"

Fate == [t \in Ids |-> FateOf(task[t].state)]

Promise == INSTANCE Delivery WITH fate <- Fate, Window <- MaxTasks

\* The client with its queue, joins and retries keeps the sender's promise.
ImplementsDelivery == Promise!Spec

\* v_send comes back from waiting for the oldest task and the destructor from
\* waiting for all, however often the requests fail: the retries of a task end.
CallerReturns ==
    /\ (caller \in {"pop", "create"}) ~> (caller = "idle")
    /\ (caller = "dtor") ~> (caller = "destroyed")
=============================================================================
