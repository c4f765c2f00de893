------------------------------ MODULE Watchdog ------------------------------
(***************************************************************************)
(* utility/watchdog.cc with the threads that report to it, each run by a   *)
(* periodic_background_proc (utility/periodic_background_proc.h), and the  *)
(* interruptable_sleeper both sleep in.  A thread registers, then checks   *)
(* in before each iteration; the watchdog reports the threads whose last   *)
(* check-in is older than their timeout.  One owner thread starts and      *)
(* stops them all.                                                         *)
(*                                                                         *)
(* Time is in milliseconds, advanced by Tick; instead of time points, the  *)
(* model keeps the time passed since or left until them, so that it runs   *)
(* forever.  The background threads may be delayed without limit, which is *)
(* what the watchdog is there to see; the watchdog's own thread takes less *)
(* than a millisecond to run.                                              *)
(***************************************************************************)
EXTENDS Integers, FiniteSets

CONSTANTS Procs,     \* the periodic background procedures
          Interval,  \* Procs -> _interval_ms
          InitialTimeout,  \* _timeout_in_ms before any registration (10000)
          Second           \* milliseconds in a second (1000)

ASSUME WatchdogAssumption ==
    /\ IsFiniteSet(Procs)
    /\ Interval \in [Procs -> Nat]
    /\ InitialTimeout \in Nat /\ Second \in Nat \ {0}

VARIABLES
    thread,       \* where each background thread is
    left,         \* what is left of the sleep of each background thread
    interrupted,  \* _interrupt of the procs' sleepers (a set of procs)
    info,         \* _thread_infos: registered threads -> time since check-in
    stopping,     \* the proc whose stop() the owner is in, if any
    dog,          \* where the watchdog's thread is
    running,      \* _running
    dogTimeout,   \* _timeout_in_ms
    dogLeft,      \* what is left of its sleep
    dogIntr,      \* _interrupt of its sleeper
    failed,       \* failed_thread_names
    callback,     \* an error callback was given
    \* What the properties look at.
    told,         \* late threads reported since their last check-in
    late,         \* threads that are late or were when last looked at
    beat          \* when the watchdog has last looked at the threads

procVars == <<thread, left, interrupted>>
loopVars == <<dog, dogLeft, failed, beat>>
dogVars  == <<running, dogTimeout, dogIntr, callback>>
seen     == <<told, late>>
vars     == <<procVars, info, stopping, loopVars, dogVars, seen>>

None == "none"

\* timeout_grace_multiplier_c
Timeout(p) == 3 * Interval[p]

Registered == DOMAIN info

\* Mutant of Late: a thread is late at its timeout already.
Late_AtTimeout(p, grace) == p \in Registered /\ info[p] >= Timeout(p) + grace

Late(p, grace) == p \in Registered /\ info[p] > Timeout(p) + grace

Minimum(a, b) == IF a <= b THEN a ELSE b
Maximum(a, b) == IF a >= b THEN a ELSE b

Init ==
    /\ thread = [p \in Procs |-> "off"]
    /\ left = [p \in Procs |-> 0]
    /\ interrupted = {}
    /\ info = << >>
    /\ stopping = None
    /\ dog = "off"
    /\ running = FALSE
    /\ dogTimeout = InitialTimeout
    /\ dogLeft = 0
    /\ dogIntr = FALSE
    /\ failed = {}
    /\ callback \in BOOLEAN
    /\ told = {}
    /\ late = {}
    /\ beat = "never"

-----------------------------------------------------------------------------
(* A background thread: periodic_background_proc::time_loop. *)

\* Mutant of Register: the sleeping watchdog is not woken.
Register_NoWake(p) ==
    /\ thread[p] = "started"
    /\ info' = IF p \in Registered THEN info
               ELSE [q \in Registered \cup {p} |-> IF q = p THEN 0 ELSE info[q]]
    /\ dogTimeout' = Minimum(Timeout(p), dogTimeout \div Second)
    /\ thread' = [thread EXCEPT ![p] = "registered"]
    /\ UNCHANGED <<left, interrupted, stopping, loopVars, running, dogIntr, callback, seen>>

\* register_thread.  emplace keeps an entry that exists.  The timeout of the
\* watchdog is converted to seconds before it is compared with milliseconds.
Register(p) ==
    /\ thread[p] = "started"
    /\ info' = IF p \in Registered THEN info
               ELSE [q \in Registered \cup {p} |-> IF q = p THEN 0 ELSE info[q]]
    /\ dogTimeout' = Minimum(Timeout(p), dogTimeout \div Second)
    /\ dogIntr' = TRUE
    /\ thread' = [thread EXCEPT ![p] = "registered"]
    /\ UNCHANGED <<left, interrupted, stopping, loopVars, running, callback, seen>>

\* check_in, which throws for a thread that is not registered.
CheckIn(p) ==
    /\ thread[p] = "registered"
    /\ info' = IF p \in Registered THEN [info EXCEPT ![p] = 0] ELSE info
    /\ thread' = [thread EXCEPT ![p] = IF p \in Registered THEN "running" ELSE "terminated"]
    /\ told' = told \ {p}
    /\ late' = late \ ({p} \ failed)
    /\ UNCHANGED <<left, interrupted, stopping, loopVars, dogVars>>

\* run_iteration takes any time; its errors go to the callback.  Then sleep.
RunIteration(p) ==
    /\ thread[p] = "running"
    /\ thread' = [thread EXCEPT ![p] = "sleeping"]
    /\ left' = [left EXCEPT ![p] = Interval[p]]
    /\ UNCHANGED <<interrupted, info, stopping, loopVars, dogVars, seen>>

\* sleep returns at the deadline or when interrupted, even before it began.
EndSleep(p) ==
    /\ thread[p] = "sleeping"
    /\ p \in interrupted \/ left[p] = 0
    /\ thread' = [thread EXCEPT ![p] = IF p \in interrupted THEN "exited" ELSE "registered"]
    /\ UNCHANGED <<left, interrupted, info, stopping, loopVars, dogVars, seen>>

ThreadStep(p) == Register(p) \/ CheckIn(p) \/ RunIteration(p) \/ EndSleep(p)

-----------------------------------------------------------------------------
(* The owner of the procs and of the watchdog. *)

\* periodic_background_proc::init.
StartProc(p) ==
    /\ stopping = None
    /\ thread[p] = "off"
    /\ thread' = [thread EXCEPT ![p] = "started"]
    /\ UNCHANGED <<left, interrupted, info, stopping, loopVars, dogVars, seen>>

\* Mutant of BeginStop: the thread is unregistered before it is joined.
BeginStop_Unregisters(p) ==
    /\ stopping = None
    /\ thread[p] \notin {"off", "joined"}
    /\ stopping' = p
    /\ interrupted' = interrupted \cup {p}
    /\ info' = [q \in Registered \ {p} |-> info[q]]
    /\ UNCHANGED <<thread, left, loopVars, dogVars, seen>>

\* Mutant of BeginStop: only a thread that sleeps is interrupted.
BeginStop_Forgotten(p) ==
    /\ stopping = None
    /\ thread[p] \notin {"off", "joined"}
    /\ stopping' = p
    /\ interrupted' = IF thread[p] = "sleeping" THEN interrupted \cup {p} ELSE interrupted
    /\ UNCHANGED <<thread, left, info, loopVars, dogVars, seen>>

\* stop: the sleeper is interrupted, the thread joined ...
BeginStop(p) ==
    /\ stopping = None
    /\ thread[p] \notin {"off", "joined"}
    /\ stopping' = p
    /\ interrupted' = interrupted \cup {p}
    /\ UNCHANGED <<thread, left, info, loopVars, dogVars, seen>>

\* ... and unregistered "after it has completely finished execution".
EndStop(p) ==
    /\ stopping = p
    /\ thread[p] = "exited"
    /\ thread' = [thread EXCEPT ![p] = "joined"]
    /\ info' = [q \in Registered \ {p} |-> info[q]]
    /\ stopping' = None
    /\ told' = told \ {p}
    /\ late' = late \ ({p} \ failed)
    /\ UNCHANGED <<left, interrupted, loopVars, dogVars>>

\* watchdog::start.
StartDog ==
    /\ stopping = None
    /\ ~running
    /\ dog = "off"
    /\ running' = TRUE
    /\ dog' = "scan"
    /\ UNCHANGED <<procVars, info, stopping, dogLeft, failed, beat, dogTimeout, dogIntr, callback, seen>>

\* The thread cannot be created; _running stays set.
StartDogFails ==
    /\ stopping = None
    /\ ~running
    /\ dog = "off"
    /\ running' = TRUE
    /\ UNCHANGED <<procVars, info, stopping, loopVars, dogTimeout, dogIntr, callback, seen>>

\* watchdog::stop; the join is waited for only when there is a thread.
BeginStopDog ==
    /\ stopping = None
    /\ running
    /\ running' = FALSE
    /\ dogIntr' = TRUE
    /\ stopping' = IF dog \in {"off", "joined"} THEN None ELSE "watchdog"
    /\ UNCHANGED <<procVars, info, loopVars, dogTimeout, callback, seen>>

EndStopDog ==
    /\ stopping = "watchdog"
    /\ dog = "exited"
    /\ dog' = "joined"
    /\ stopping' = None
    /\ UNCHANGED <<procVars, info, dogLeft, failed, beat, dogVars, seen>>

-----------------------------------------------------------------------------
(* The watchdog's thread: watchdog::loop. *)

\* The threads are looked at under the lock; they are reported after it, or
\* without a callback by setting _unhandled_background_error_occurred at once.
Scan ==
    LET overdue == {p \in Registered : Late(p, 0)} IN
    /\ dog = "scan"
    /\ running
    /\ failed' = IF callback THEN overdue ELSE {}
    /\ told' = IF callback THEN told ELSE told \cup overdue
    /\ dog' = "report"
    /\ UNCHANGED <<procVars, info, stopping, dogLeft, beat, dogVars, late>>

\* The callback is called for each name; then the thread goes to sleep.
Report ==
    /\ dog = "report"
    /\ told' = told \cup {p \in failed : Late(p, 0)}
    /\ late' = {p \in Registered : Late(p, 0)}
    /\ failed' = {}
    /\ dog' = "sleep"
    /\ dogLeft' = IF dogIntr THEN 0 ELSE dogTimeout
    /\ beat' = "now"
    /\ UNCHANGED <<procVars, info, stopping, dogVars>>

EndDogSleep ==
    /\ dog = "sleep"
    /\ dogIntr \/ dogLeft = 0
    /\ dog' = "scan"
    /\ UNCHANGED <<procVars, info, stopping, dogLeft, failed, beat, dogVars, seen>>

LoopEnds ==
    /\ dog = "scan"
    /\ ~running
    /\ dog' = "exited"
    /\ UNCHANGED <<procVars, info, stopping, dogLeft, failed, beat, dogVars, seen>>

DogStep == Scan \/ Report \/ EndDogSleep \/ LoopEnds

\* A millisecond passes.  The watchdog's thread has done by then what it can.
\* Ages are counted up to two milliseconds past the timeout.
Tick ==
    /\ dog \notin {"scan", "report"}
    /\ (dog = "sleep" /\ (dogIntr \/ dogLeft = 0)) => beat = "now"
    /\ info' = [p \in Registered |-> Minimum(info[p] + 1, Timeout(p) + 2)]
    /\ left' = [p \in Procs |-> Maximum(left[p] - 1, 0)]
    /\ dogLeft' = Maximum(dogLeft - 1, 0)
    /\ beat' = IF beat = "now" THEN "before" ELSE beat
    /\ late' = late \cup {p \in Registered : info[p] >= Timeout(p)}
    /\ UNCHANGED <<thread, interrupted, stopping, dog, failed, dogVars, told>>

OwnerStep ==
    \/ \E p \in Procs : StartProc(p) \/ BeginStop(p) \/ EndStop(p)
    \/ StartDog \/ StartDogFails \/ BeginStopDog \/ EndStopDog

Next == OwnerStep \/ DogStep \/ Tick \/ \E p \in Procs : ThreadStep(p)

Spec == Init /\ [][Next]_vars

\* Iterations end and every thread is scheduled; the owner need not stop.
FairSpec ==
    /\ Spec
    /\ WF_vars(DogStep)
    /\ \A p \in Procs : WF_vars(ThreadStep(p)) /\ WF_vars(EndStop(p))
    /\ WF_vars(EndStopDog)

-----------------------------------------------------------------------------
(* Properties. *)

TypeOK ==
    /\ thread \in [Procs -> {"off", "started", "registered", "running", "sleeping",
                             "exited", "joined", "terminated"}]
    /\ left \in [Procs -> Nat]
    /\ interrupted \subseteq Procs
    /\ Registered \subseteq Procs /\ \A p \in Registered : info[p] \in Nat
    /\ stopping \in Procs \cup {None, "watchdog"}
    /\ dog \in {"off", "scan", "report", "sleep", "exited", "joined"}
    /\ {running, dogIntr, callback} \subseteq BOOLEAN
    /\ dogTimeout \in Nat /\ dogLeft \in Nat /\ beat \in {"never", "now", "before"}
    /\ failed \subseteq Procs /\ told \subseteq Procs /\ late \subseteq Procs

\* check_in never finds its thread unregistered (it would throw in a thread
\* and end the process): stop unregisters after the join, and only then.
CheckInNeverThrows ==
    TypeOK /\ \A p \in Procs :
        /\ thread[p] # "terminated"
        /\ thread[p] \in {"registered", "running", "sleeping", "exited"} <=> p \in Registered

\* The watchdog reports no thread that has always checked in within its
\* timeout.  (It may report one that has checked in since it was looked at.)
ReportsOnlyLate == failed \cup told \subseteq late

\* While the watchdog's thread runs, a registered thread is reported within a
\* millisecond of becoming late: register_thread wakes the watchdog from the
\* ten seconds it may have begun to sleep.
LateIsReported ==
    \A p \in Registered :
        (running /\ dog \in {"scan", "report", "sleep"} /\ beat # "never" /\ Late(p, 1)) => p \in told

\* stop() of a background procedure and of the watchdog return, whether the
\* thread sleeps, runs or has yet to start when it is interrupted.
StopReturns == (stopping # None) ~> (stopping = None)
=============================================================================
