---------------------------- MODULE WatchdogProofs ----------------------------
(***************************************************************************)
(* What is proved about Watchdog, for any number of procedures, intervals  *)
(* and initial timeout: its types, that no check-in throws, and that the   *)
(* threads reported are the late ones, all of them and no other.           *)
(***************************************************************************)
EXTENDS Watchdog, TLAPS

ThreadStates == {"off", "started", "registered", "running", "sleeping",
                 "exited", "joined", "terminated"}

\* The type invariant without what a single action says of it.
Typed ==
    /\ thread \in [Procs -> ThreadStates]
    /\ left \in [Procs -> Nat]
    /\ interrupted \subseteq Procs
    /\ info \in [Registered -> Nat] /\ Registered \subseteq Procs
    /\ stopping \in Procs \cup {None, "watchdog"}
    /\ dog \in {"off", "scan", "report", "sleep", "exited", "joined"}
    /\ running \in BOOLEAN /\ dogIntr \in BOOLEAN /\ callback \in BOOLEAN
    /\ dogTimeout \in Nat /\ dogLeft \in Nat /\ beat \in {"never", "now", "before"}
    /\ failed \subseteq Procs /\ told \subseteq Procs /\ late \subseteq Procs

\* A thread that is past its registration and not joined is registered.
Enrolled ==
    \A p \in Procs :
        /\ thread[p] # "terminated"
        /\ thread[p] \in {"registered", "running", "sleeping", "exited"} <=> p \in Registered

\* What is late is known to be, and what was reported still is.
LateIsKnown ==
    /\ \A p \in Registered : Late(p, 0) => p \in late
    /\ \A p \in told : Late(p, 0)
    /\ failed \subseteq late

\* The watchdog does not sleep once a thread has registered, and has reported
\* whatever was late when it last looked: before it looks, the threads late by
\* a millisecond and more; while it reports, those it has in hand; after it
\* and until time passes, every late one.
Prompt ==
    /\ Registered # {} => dogIntr
    /\ dog = "off" => beat = "never"
    /\ (running /\ dog \in {"exited", "joined"}) => beat = "never"
    /\ dog = "report" => \A p \in Registered : Late(p, 0) => p \in failed \cup told
    /\ beat = "now" => \A p \in Registered : Late(p, 0) => p \in told
    /\ LateIsReported

WatchdogInv == Typed /\ Enrolled /\ LateIsKnown /\ Prompt

\* Intervals and timeouts are numbers, whatever they are divided by.
LEMMA Numbers ==
  /\ \A p \in Procs : Interval[p] \in Nat /\ Timeout(p) \in Nat
  /\ \A a, b \in Nat : Minimum(a, b) \in Nat
  /\ \A a \in Nat : Maximum(a - 1, 0) \in Nat
  /\ \A n \in Nat : n \div Second \in Nat
<1>1. \A p \in Procs : Interval[p] \in Nat /\ Timeout(p) \in Nat
  BY WatchdogAssumption DEF Timeout
<1>2. /\ \A a, b \in Nat : Minimum(a, b) \in Nat
      /\ \A a \in Nat : Maximum(a - 1, 0) \in Nat
  BY DEF Minimum, Maximum
<1>3. \A n \in Nat : n \div Second \in Nat
  BY WatchdogAssumption
<1> QED
  BY <1>1, <1>2, <1>3

LEMMA TypedInit == Init => Typed
<1> SUFFICES ASSUME Init PROVE Typed
  OBVIOUS
<1>1. Registered = {}
  BY DEF Init, Registered
<1>2. info \in [Registered -> Nat]
  <2>1. info = [p \in {} |-> 0]
    BY DEF Init
  <2> QED
    BY <1>1, <2>1
<1> QED
  BY <1>1, <1>2, WatchdogAssumption DEF Init, Typed, ThreadStates, None

\* Every step keeps the types.
LEMMA TypedNext == Typed /\ [Next]_vars => Typed'
<1> SUFFICES ASSUME Typed, [Next]_vars PROVE Typed'
  OBVIOUS
<1> USE Numbers
<1>1. ASSUME NEW p \in Procs, Register(p) PROVE Typed'
  <2>1. Registered' = Registered \cup {p} /\ info' \in [Registered' -> Nat]
    BY <1>1 DEF Register, Typed, Registered
  <2>2. dogTimeout' \in Nat
    BY <1>1 DEF Register, Typed
  <2> QED
    BY <1>1, <2>1, <2>2 DEF Register, Typed, loopVars, seen, ThreadStates
<1>2. ASSUME NEW p \in Procs, CheckIn(p) PROVE Typed'
  <2>1. Registered' = Registered /\ info' \in [Registered' -> Nat]
    BY <1>2 DEF CheckIn, Typed, Registered
  <2> QED
    BY <1>2, <2>1 DEF CheckIn, Typed, loopVars, dogVars, ThreadStates
<1>3. ASSUME NEW p \in Procs, RunIteration(p) PROVE Typed'
  BY <1>3 DEF RunIteration, Typed, Registered, loopVars, dogVars, seen, ThreadStates
<1>4. ASSUME NEW p \in Procs, EndSleep(p) PROVE Typed'
  BY <1>4 DEF EndSleep, Typed, Registered, loopVars, dogVars, seen, ThreadStates
<1>5. ASSUME NEW p \in Procs, StartProc(p) PROVE Typed'
  BY <1>5 DEF StartProc, Typed, Registered, loopVars, dogVars, seen, ThreadStates
<1>6. ASSUME NEW p \in Procs, BeginStop(p) PROVE Typed'
  BY <1>6 DEF BeginStop, Typed, Registered, loopVars, dogVars, seen, ThreadStates
<1>7. ASSUME NEW p \in Procs, EndStop(p) PROVE Typed'
  <2>1. Registered' = Registered \ {p} /\ info' \in [Registered' -> Nat]
    BY <1>7 DEF EndStop, Typed, Registered
  <2> QED
    BY <1>7, <2>1 DEF EndStop, Typed, loopVars, dogVars, ThreadStates
<1>8. CASE StartDog \/ StartDogFails \/ BeginStopDog \/ EndStopDog
  BY <1>8 DEF StartDog, StartDogFails, BeginStopDog, EndStopDog, Typed, Registered, procVars,
              loopVars, dogVars, seen, None
<1>9. CASE Scan \/ LoopEnds \/ EndDogSleep
  BY <1>9 DEF Scan, LoopEnds, EndDogSleep, Typed, Registered, procVars, dogVars, seen
<1>10. CASE Report
  BY <1>10 DEF Report, Typed, Registered, procVars, dogVars, seen
<1>11. CASE Tick
  <2>1. Registered' = Registered /\ info' \in [Registered' -> Nat]
    BY <1>11 DEF Tick, Typed, Registered
  <2>2. left' \in [Procs -> Nat] /\ dogLeft' \in Nat
    BY <1>11 DEF Tick, Typed
  <2>3. late' \subseteq Procs /\ beat' \in {"never", "now", "before"}
    BY <1>11 DEF Tick, Typed
  <2> QED
    BY <1>11, <2>1, <2>2, <2>3 DEF Tick, Typed, dogVars
<1>12. CASE UNCHANGED vars
  BY <1>12 DEF vars, Typed, Registered, procVars, loopVars, dogVars, seen
<1> QED
  BY <1>1, <1>2, <1>3, <1>4, <1>5, <1>6, <1>7, <1>8, <1>9, <1>10, <1>11, <1>12
     DEF Next, OwnerStep, DogStep, ThreadStep

-----------------------------------------------------------------------------
(* Who is registered. *)

LEMMA EnrolledInit == Init => Enrolled
  BY DEF Init, Enrolled, Registered

\* A thread registers as it starts and is unregistered once joined.
LEMMA EnrolledNext == Typed /\ Enrolled /\ [Next]_vars => Enrolled'
<1> SUFFICES ASSUME Typed, Enrolled, [Next]_vars PROVE Enrolled'
  OBVIOUS
<1>1. ASSUME NEW p \in Procs, Register(p) PROVE Enrolled'
  <2>1. Registered' = Registered \cup {p}
    BY <1>1 DEF Register, Typed, Registered
  <2> QED
    BY <1>1, <2>1 DEF Register, Typed, Enrolled
<1>2. ASSUME NEW p \in Procs, CheckIn(p) PROVE Enrolled'
  <2>1. p \in Registered
    BY <1>2 DEF CheckIn, Enrolled
  <2>2. Registered' = Registered
    BY <1>2 DEF CheckIn, Typed, Registered
  <2> QED
    BY <1>2, <2>1, <2>2 DEF CheckIn, Typed, Enrolled
<1>3. ASSUME NEW p \in Procs, RunIteration(p) PROVE Enrolled'
  BY <1>3 DEF RunIteration, Typed, Enrolled, Registered
<1>4. ASSUME NEW p \in Procs, EndSleep(p) PROVE Enrolled'
  BY <1>4 DEF EndSleep, Typed, Enrolled, Registered
<1>5. ASSUME NEW p \in Procs, StartProc(p) PROVE Enrolled'
  BY <1>5 DEF StartProc, Typed, Enrolled, Registered
<1>6. ASSUME NEW p \in Procs, BeginStop(p) PROVE Enrolled'
  BY <1>6 DEF BeginStop, Typed, Enrolled, Registered
<1>7. ASSUME NEW p \in Procs, EndStop(p) PROVE Enrolled'
  <2>1. Registered' = Registered \ {p}
    BY <1>7 DEF EndStop, Typed, Registered
  <2> QED
    BY <1>7, <2>1 DEF EndStop, Typed, Enrolled
<1>8. CASE StartDog \/ StartDogFails \/ BeginStopDog \/ EndStopDog
  BY <1>8 DEF StartDog, StartDogFails, BeginStopDog, EndStopDog, Enrolled, Registered, procVars
<1>9. CASE Scan \/ LoopEnds \/ EndDogSleep \/ Report
  BY <1>9 DEF Scan, LoopEnds, EndDogSleep, Report, Enrolled, Registered, procVars
<1>10. CASE Tick
  BY <1>10 DEF Tick, Enrolled, Registered
<1>11. CASE UNCHANGED vars
  BY <1>11 DEF vars, Enrolled, Registered, procVars
<1> QED
  BY <1>1, <1>2, <1>3, <1>4, <1>5, <1>6, <1>7, <1>8, <1>9, <1>10, <1>11
     DEF Next, OwnerStep, DogStep, ThreadStep

-----------------------------------------------------------------------------
(* What is late.  Each lemma says what a step does to Late; the invariants *)
(* below use these facts instead of the ages.                              *)

\* A thread that has just checked in is not late.
LEMMA RegisterAges ==
  ASSUME Typed, NEW p \in Procs, Register(p)
  PROVE  /\ Registered' = Registered \cup {p}
         /\ \A q \in Procs, g \in Nat : Late(q, g)' <=> Late(q, g)
<1>1. Registered' = Registered \cup {p}
  BY DEF Register, Typed, Registered
<1>2. ASSUME NEW q \in Procs, NEW g \in Nat PROVE Late(q, g)' <=> Late(q, g)
  <2>1. CASE p \in Registered
    BY <2>1 DEF Register, Late, Registered, Timeout
  <2>2. CASE p \notin Registered
    <3>1. q # p => (q \in Registered' <=> q \in Registered)
      BY <1>1
    <3>2. q \in Registered' => info'[q] = IF q = p THEN 0 ELSE info[q]
      BY <2>2, <1>1 DEF Register
    <3>3. ~Late(p, g)
      BY <2>2 DEF Late
    <3>4. q = p => ~Late(q, g)'
      <4>1. Interval[q] \in Nat
        BY Numbers
      <4> QED
        BY <3>2, <4>1 DEF Late, Timeout
    <3> QED
      BY <3>1, <3>2, <3>3, <3>4 DEF Late, Timeout
  <2> QED
    BY <2>1, <2>2
<1> QED
  BY <1>1, <1>2

LEMMA CheckInAges ==
  ASSUME Typed, Enrolled, NEW p \in Procs, CheckIn(p)
  PROVE  /\ Registered' = Registered
         /\ \A q \in Procs, g \in Nat : Late(q, g)' <=> (q # p /\ Late(q, g))
<1>1. p \in Registered
  BY DEF CheckIn, Enrolled
<1>2. Registered' = Registered /\ info' = [info EXCEPT ![p] = 0]
  BY <1>1 DEF CheckIn, Typed, Registered
<1>3. ASSUME NEW q \in Procs, NEW g \in Nat PROVE Late(q, g)' <=> (q # p /\ Late(q, g))
  <2>1. q \in Registered => info'[q] = IF q = p THEN 0 ELSE info[q]
    BY <1>2 DEF Typed
  <2>2. Interval[q] \in Nat
    BY Numbers
  <2> QED
    BY <1>2, <2>1, <2>2 DEF Late, Timeout
<1> QED
  BY <1>2, <1>3

LEMMA EndStopAges ==
  ASSUME Typed, NEW p \in Procs, EndStop(p)
  PROVE  /\ Registered' = Registered \ {p}
         /\ \A q \in Procs, g \in Nat : Late(q, g)' <=> (q # p /\ Late(q, g))
<1>1. Registered' = Registered \ {p}
  BY DEF EndStop, Registered
<1>2. \A q \in Registered' : info'[q] = info[q]
  BY <1>1 DEF EndStop
<1> QED
  BY <1>1, <1>2 DEF Late, Timeout

\* What is late after a millisecond was late before it by one less, and what
\* was late still is.
LEMMA TickAges ==
  ASSUME Typed, Tick
  PROVE  /\ Registered' = Registered
         /\ \A q \in Registered : Late(q, 0)' <=> info[q] >= Timeout(q)
         /\ \A q \in Registered : Late(q, 0) => Late(q, 0)'
         /\ \A q \in Registered : Late(q, 1)' => Late(q, 0)
<1>1. Registered' = Registered
  BY DEF Tick, Registered
<1>2. \A q \in Registered : info'[q] = Minimum(info[q] + 1, Timeout(q) + 2)
  BY DEF Tick, Typed
<1>3. \A q \in Registered : info[q] \in Nat /\ Timeout(q) \in Nat
  BY Numbers DEF Typed
<1>4. ASSUME NEW q \in Registered, NEW g \in {0, 1} PROVE Late(q, g)' <=> info'[q] > Timeout(q) + g
  BY <1>1, <1>4 DEF Late, Timeout
<1>5. ASSUME NEW q \in Registered
      PROVE  (Late(q, 0)' <=> info[q] >= Timeout(q)) /\ (Late(q, 1)' => Late(q, 0))
  <2>1. info'[q] = IF info[q] + 1 <= Timeout(q) + 2 THEN info[q] + 1 ELSE Timeout(q) + 2
    BY <1>2 DEF Minimum
  <2>2. Late(q, 0) <=> info[q] > Timeout(q)
    BY <1>3 DEF Late
  <2>3. (Late(q, 0)' <=> info'[q] > Timeout(q)) /\ (Late(q, 1)' <=> info'[q] > Timeout(q) + 1)
    BY <1>3, <1>4
  <2> QED
    BY <1>3, <2>1, <2>2, <2>3
<1>6. \A q \in Registered : Late(q, 0) => info[q] >= Timeout(q)
  BY <1>3 DEF Late
<1> QED
  BY <1>1, <1>5, <1>6

\* The other steps leave the ages alone.
LEMMA SameAges ==
  ASSUME info' = info
  PROVE  Registered' = Registered /\ \A q, g : Late(q, g)' <=> Late(q, g)
  BY DEF Late, Registered, Timeout
-----------------------------------------------------------------------------
(* No report of a thread that was in time. *)

LEMMA LateIsKnownInit == Init => LateIsKnown
  BY DEF Init, LateIsKnown, Registered

LEMMA LateIsKnownNext == Typed /\ Enrolled /\ LateIsKnown /\ [Next]_vars => LateIsKnown'
<1> SUFFICES ASSUME Typed, Enrolled, LateIsKnown, [Next]_vars PROVE LateIsKnown'
  OBVIOUS
<1>0. Registered \subseteq Procs /\ told \subseteq Procs /\ 0 \in Nat
  BY DEF Typed
<1>1. ASSUME NEW p \in Procs, Register(p) PROVE LateIsKnown'
  <2>1. \A q \in Procs : Late(q, 0)' <=> Late(q, 0)
    BY <1>0, <1>1, RegisterAges
  <2>2. Registered' = Registered \cup {p}
    BY <1>1, RegisterAges
  <2>3. told' = told /\ late' = late /\ failed' = failed
    BY <1>1 DEF Register, loopVars, seen
  <2>4. \A q \in Procs : Late(q, 0) => q \in late
    BY DEF LateIsKnown, Late
  <2> QED
    BY <1>0, <2>1, <2>2, <2>3, <2>4 DEF LateIsKnown
<1>2. ASSUME NEW p \in Procs, CheckIn(p) PROVE LateIsKnown'
  <2>1. \A q \in Procs : Late(q, 0)' <=> (q # p /\ Late(q, 0))
    BY <1>0, <1>2, CheckInAges
  <2>2. Registered' = Registered
    BY <1>2, CheckInAges
  <2>3. told' = told \ {p} /\ late' = late \ ({p} \ failed) /\ failed' = failed
    BY <1>2 DEF CheckIn, loopVars
  <2> QED
    BY <1>0, <2>1, <2>2, <2>3 DEF LateIsKnown
<1>3. ASSUME NEW p \in Procs, EndStop(p) PROVE LateIsKnown'
  <2>1. \A q \in Procs : Late(q, 0)' <=> (q # p /\ Late(q, 0))
    BY <1>0, <1>3, EndStopAges
  <2>2. Registered' = Registered \ {p}
    BY <1>3, EndStopAges
  <2>3. told' = told \ {p} /\ late' = late \ ({p} \ failed) /\ failed' = failed
    BY <1>3 DEF EndStop, loopVars
  <2> QED
    BY <1>0, <2>1, <2>2, <2>3 DEF LateIsKnown
<1>4. CASE Scan
  <2>1. Registered' = Registered /\ \A q : Late(q, 0)' <=> Late(q, 0)
    BY <1>4, SameAges DEF Scan
  <2>2. /\ failed' \subseteq {q \in Registered : Late(q, 0)}
        /\ told' \subseteq told \cup {q \in Registered : Late(q, 0)}
        /\ late' = late
    BY <1>4 DEF Scan
  <2> QED
    BY <2>1, <2>2 DEF LateIsKnown
<1>5. CASE Report
  <2>1. Registered' = Registered /\ \A q : Late(q, 0)' <=> Late(q, 0)
    BY <1>5, SameAges DEF Report
  <2>2. /\ failed' = {} /\ late' = {q \in Registered : Late(q, 0)}
        /\ told' = told \cup {q \in failed : Late(q, 0)}
    BY <1>5 DEF Report
  <2> QED
    BY <2>1, <2>2 DEF LateIsKnown
<1>6. CASE Tick
  <2>1. /\ failed' = failed /\ told' = told
        /\ late' = late \cup {q \in Registered : info[q] >= Timeout(q)}
    BY <1>6 DEF Tick
  <2>2. \A q \in told : q \in Registered /\ Late(q, 0)
    BY DEF LateIsKnown, Late
  <2> QED
    BY <1>6, <2>1, <2>2, TickAges DEF LateIsKnown
<1>7. ASSUME info' = info /\ failed' = failed /\ told' = told /\ late' = late PROVE LateIsKnown'
  BY <1>7, SameAges DEF LateIsKnown
<1>8. ASSUME NEW p \in Procs, RunIteration(p) \/ EndSleep(p) \/ StartProc(p) \/ BeginStop(p)
      PROVE  LateIsKnown'
  BY <1>7, <1>8 DEF RunIteration, EndSleep, StartProc, BeginStop, loopVars, seen
<1>9. CASE StartDog \/ StartDogFails \/ BeginStopDog \/ EndStopDog
  BY <1>7, <1>9 DEF StartDog, StartDogFails, BeginStopDog, EndStopDog, loopVars, seen
<1>10. CASE LoopEnds \/ EndDogSleep \/ UNCHANGED vars
  BY <1>7, <1>10 DEF LoopEnds, EndDogSleep, vars, loopVars, seen
<1> QED
  BY <1>1, <1>2, <1>3, <1>4, <1>5, <1>6, <1>8, <1>9, <1>10
     DEF Next, OwnerStep, DogStep, ThreadStep

-----------------------------------------------------------------------------
(* A report of every late thread. *)

LEMMA PromptInit == Init => Prompt
  BY DEF Init, Prompt, LateIsReported, Registered

LEMMA PromptNext ==
  Typed /\ Enrolled /\ LateIsKnown /\ Prompt /\ [Next]_vars => Prompt'
<1> SUFFICES ASSUME Typed, Enrolled, LateIsKnown, Prompt, [Next]_vars PROVE Prompt'
  OBVIOUS
<1>0. Registered \subseteq Procs /\ 0 \in Nat /\ 1 \in Nat
  BY DEF Typed
<1>z. \A q \in Registered : Late(q, 1) => Late(q, 0)
  <2> SUFFICES ASSUME NEW q \in Registered PROVE Late(q, 1) => Late(q, 0)
    OBVIOUS
  <2>1. info[q] \in Nat /\ Timeout(q) \in Nat
    BY <1>0, Numbers DEF Typed
  <2> QED
    BY <2>1 DEF Late
<1>1. ASSUME NEW p \in Procs, Register(p) PROVE Prompt'
  <2>1. \A q \in Procs : (Late(q, 0)' <=> Late(q, 0)) /\ (Late(q, 1)' <=> Late(q, 1))
    BY <1>0, <1>1, RegisterAges
  <2>2. Registered' = Registered \cup {p}
    BY <1>1, RegisterAges
  <2>3. dogIntr' = TRUE /\ UNCHANGED <<dog, beat, failed, told, running>>
    BY <1>1 DEF Register, loopVars, seen
  <2>4. \A q \in Procs : (Late(q, 0) => q \in Registered) /\ (Late(q, 1) => q \in Registered)
    BY DEF Late
  <2> QED
    BY <1>0, <2>1, <2>2, <2>3, <2>4 DEF Prompt, LateIsReported
<1>2. ASSUME NEW p \in Procs, CheckIn(p) \/ EndStop(p) PROVE Prompt'
  <2>1. \A q \in Procs : /\ Late(q, 0)' <=> (q # p /\ Late(q, 0))
                         /\ Late(q, 1)' <=> (q # p /\ Late(q, 1))
    BY <1>0, <1>2, CheckInAges, EndStopAges
  <2>2. Registered' \subseteq Registered
    BY <1>2, CheckInAges, EndStopAges
  <2>3. told' = told \ {p} /\ UNCHANGED <<dog, beat, failed, running, dogIntr>>
    BY <1>2 DEF CheckIn, EndStop, loopVars, dogVars
  <2> QED
    BY <1>0, <2>1, <2>2, <2>3 DEF Prompt, LateIsReported
<1>3. ASSUME NEW p \in Procs, RunIteration(p) \/ EndSleep(p) \/ StartProc(p) \/ BeginStop(p)
      PROVE  Prompt'
  <2>1. info' = info /\ UNCHANGED <<dog, beat, failed, running, dogIntr, told>>
    BY <1>3 DEF RunIteration, EndSleep, StartProc, BeginStop, loopVars, dogVars, seen
  <2> QED
    BY <2>1, SameAges DEF Prompt, LateIsReported
<1>4. CASE StartDog \/ StartDogFails \/ BeginStopDog \/ EndStopDog
  <2>1. info' = info /\ UNCHANGED <<beat, failed, told>>
    BY <1>4 DEF StartDog, StartDogFails, BeginStopDog, EndStopDog, loopVars, seen
  <2>2. Registered' = Registered /\ \A q, g : Late(q, g)' <=> Late(q, g)
    BY <2>1, SameAges
  <2> QED
    BY <1>4, <2>1, <2>2
       DEF StartDog, StartDogFails, BeginStopDog, EndStopDog, loopVars, dogVars, Prompt, LateIsReported
<1>5. CASE Scan
  <2>1. info' = info
    BY <1>5 DEF Scan
  <2>2. Registered' = Registered /\ \A q, g : Late(q, g)' <=> Late(q, g)
    BY <2>1, SameAges
  <2>3. dog = "scan" /\ dog' = "report" /\ UNCHANGED <<beat, running, dogIntr>>
    BY <1>5 DEF Scan, dogVars
  <2>4. told \subseteq told' /\ \A q \in Registered : Late(q, 0) => q \in failed' \cup told'
    BY <1>5 DEF Scan
  <2> QED
    BY <2>2, <2>3, <2>4 DEF Prompt, LateIsReported
<1>6. CASE Report
  <2>1. info' = info
    BY <1>6 DEF Report
  <2>2. Registered' = Registered /\ \A q, g : Late(q, g)' <=> Late(q, g)
    BY <2>1, SameAges
  <2>3. dog = "report" /\ dog' = "sleep" /\ beat' = "now" /\ UNCHANGED <<running, dogIntr>>
    BY <1>6 DEF Report, dogVars
  <2>4. \A q \in Registered : Late(q, 0) => q \in told'
    BY <1>6, <2>3 DEF Report, Prompt
  <2> QED
    BY <1>z, <2>2, <2>3, <2>4 DEF Prompt, LateIsReported
<1>7. CASE EndDogSleep
  <2>1. info' = info
    BY <1>7 DEF EndDogSleep
  <2>2. Registered' = Registered /\ \A q, g : Late(q, g)' <=> Late(q, g)
    BY <2>1, SameAges
  <2>3. dog = "sleep" /\ dog' = "scan" /\ UNCHANGED <<running, dogIntr, failed, told, beat>>
    BY <1>7 DEF EndDogSleep, dogVars, seen
  <2> QED
    BY <2>2, <2>3 DEF Prompt, LateIsReported
<1>8. CASE LoopEnds
  <2>1. info' = info
    BY <1>8 DEF LoopEnds
  <2>2. Registered' = Registered /\ \A q, g : Late(q, g)' <=> Late(q, g)
    BY <2>1, SameAges
  <2>3. ~running /\ dog' = "exited" /\ UNCHANGED <<running, dogIntr, failed, told, beat>>
    BY <1>8 DEF LoopEnds, dogVars, seen
  <2> QED
    BY <2>2, <2>3 DEF Prompt, LateIsReported
<1>9. CASE Tick
  <2>1. /\ dog \notin {"scan", "report"} /\ UNCHANGED <<running, dogIntr, failed, told, dog>>
        /\ beat' = IF beat = "now" THEN "before" ELSE beat
    BY <1>9 DEF Tick, dogVars
  <2>2. Registered' = Registered /\ \A q \in Registered : Late(q, 1)' => Late(q, 0)
    BY <1>9, TickAges
  <2>3. dog = "sleep" /\ Registered # {} => beat = "now"
    BY <1>9 DEF Tick, Prompt
  <2>4. LateIsReported'
    <3> SUFFICES ASSUME NEW q \in Registered, dog = "sleep", Late(q, 1)' PROVE q \in told
      BY <2>1, <2>2 DEF LateIsReported
    <3>1. Late(q, 0)
      BY <2>2
    <3> QED
      BY <2>3, <3>1 DEF Prompt
  <2>5. beat' # "now" /\ (beat = "never" => beat' = "never")
    BY <2>1
  <2> QED
    BY <2>1, <2>2, <2>4, <2>5 DEF Prompt
<1>10. CASE UNCHANGED vars
  <2>1. info' = info /\ UNCHANGED <<dog, beat, failed, running, dogIntr, told>>
    BY <1>10 DEF vars, loopVars, dogVars, seen
  <2> QED
    BY <2>1, SameAges DEF Prompt, LateIsReported
<1> QED
  BY <1>1, <1>2, <1>3, <1>4, <1>5, <1>6, <1>7, <1>8, <1>9, <1>10
     DEF Next, OwnerStep, DogStep, ThreadStep

-----------------------------------------------------------------------------
(* The theorems. *)

\* The invariant, in every reachable state.
THEOREM WatchdogInvariant == Spec => []WatchdogInv
<1>1. Init => WatchdogInv
  BY TypedInit, EnrolledInit, LateIsKnownInit, PromptInit DEF WatchdogInv
<1>2. WatchdogInv /\ [Next]_vars => WatchdogInv'
  BY TypedNext, EnrolledNext, LateIsKnownNext, PromptNext DEF WatchdogInv
<1> QED
  BY <1>1, <1>2, PTL DEF Spec

\* check_in finds its thread registered, at every moment between the
\* registration and the join in stop(): the exception it would throw in a
\* background thread, and end the process with, is never thrown.
THEOREM CheckInsNeverThrow == Spec => []CheckInNeverThrows
<1>1. WatchdogInv => CheckInNeverThrows
  BY DEF WatchdogInv, Typed, Enrolled, CheckInNeverThrows, TypeOK, ThreadStates
<1> QED
  BY <1>1, WatchdogInvariant, PTL

\* The names given to the error callback, and the threads the flag
\* _unhandled_background_error_occurred stands for, are of threads that were
\* late when the watchdog looked at them.
THEOREM ReportsAreLate == Spec => []ReportsOnlyLate
<1>1. WatchdogInv => ReportsOnlyLate
  BY DEF WatchdogInv, Typed, LateIsKnown, ReportsOnlyLate, Late
<1> QED
  BY <1>1, WatchdogInvariant, PTL

\* While the watchdog's loop runs, no registered thread is late by more than a
\* millisecond without having been reported, whatever the timeout the
\* watchdog computed.
THEOREM LateAreReported == Spec => []LateIsReported
<1>1. WatchdogInv => LateIsReported
  BY DEF WatchdogInv, Prompt
<1> QED
  BY <1>1, WatchdogInvariant, PTL
=============================================================================
