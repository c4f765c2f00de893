--------------------------- MODULE LiveModelProofs ---------------------------
(***************************************************************************)
(* What is proved about LiveModel, for any users, configurations, numbers  *)
(* of actions and slots, baselines and calls: what is logged of a call,    *)
(* what its caller gets to see and what code it returns.                   *)
(***************************************************************************)
EXTENDS LiveModel, FiniteSetTheorems, TLAPS

\* The event of a call and the final forms its response may get, from what the
\* call keeps of itself: its id, kind, baselines and the response drawn.
EventOf(c) == [id |-> c.id, kind |-> c.kind,
               actions |-> Logged(c.kind, ToLog(c.kind, c.drawn))]
ShownOf(c) == Shown([kind |-> c.kind, base |-> c.base, resp |-> ToLog(c.kind, c.drawn)])

\* A call that was admitted and has not returned.
InProgress(u) ==
    LET c == call[u] IN
    /\ lib = "ready"
    /\ c.pc \in {"log", "return"}
    /\ c = [pc |-> c.pc, id |-> <<u, calls[u] - 1>>, kind |-> c.kind, base |-> c.base,
            flagged |-> c.flagged, drawn |-> c.drawn, resp |-> ToLog(c.kind, c.drawn)]
    /\ calls[u] > 0
    /\ c.kind \in Deciding \cup Reporting
    /\ c.kind \in Deciding => c.drawn \in Responses(c.kind)
    /\ c.base \in Baselines
    /\ c.flagged => flag
    /\ Events(c) = IF c.pc = "log" THEN {} ELSE {EventOf(c)}

\* The last call a user has finished.
Finished(u) ==
    LET r == ret[u]
        logged == Worked(r) /\ r.kind # "refresh" IN
    /\ \E n \in 0 .. calls[u] - 1 :
          r.id = <<u, n>> /\ (call[u] # Idle => n < calls[u] - 1)
    /\ logged => /\ r.kind \in Deciding \cup Reporting
                 /\ r.kind \in Deciding => r.drawn \in Responses(r.kind)
                 /\ r.base \in Baselines
                 /\ r.shown \in ShownOf(r)
    /\ Events(r) = IF logged THEN {EventOf(r)} ELSE {}
    /\ r.flagged /\ r.kind \in Deciding \cup {"outcome", "outcome_id"} => r.code # "ok"

LibraryInv ==
    /\ setup \in Setups
    /\ lib \in {"new", "failed", "ready"}
    /\ started \subseteq {"downloader", "interaction", "observation"}
    /\ "observation" \in started => "interaction" \in started
    /\ flag \in BOOLEAN
    /\ calls \in [Users -> 0 .. MaxCalls]
    /\ DOMAIN call = Users /\ DOMAIN ret = Users

\* Events are those of calls that were made.
LogInv == \A e \in log : \E u \in Users : \E n \in 0 .. calls[u] - 1 : e.id = <<u, n>>

CallsInv == \A u \in Users : /\ call[u] # Idle => InProgress(u)
                             /\ ret[u] # None => Finished(u)

LiveInv == LibraryInv /\ LogInv /\ CallsInv

-----------------------------------------------------------------------------
(* The order of the actions. *)

\* NumActions places without a repetition hold every action.
LEMMA InjectiveIsOnto ==
  ASSUME NEW g \in [1 .. NumActions -> Actions], IsInjective(g)
  PROVE  ToSet(g) = Actions
<1>1. g \in Injection(1 .. NumActions, Actions)
  BY DEF Injection
<1>2. /\ IsFiniteSet(Actions)
      /\ Cardinality(Actions) = NumActions
      /\ Cardinality(1 .. NumActions) = NumActions
  <2>1. NumActions \in Nat /\ NumActions > 0 /\ NumActions - 1 \in Int
    BY LiveModelAssumption
  <2> QED
    BY <2>1, FS_Interval DEF Actions
<1>3. g \in Surjection(1 .. NumActions, Actions)
  BY <1>1, <1>2, FS_Injection
<1> QED
  BY <1>3 DEF Surjection, ToSet

\* A ranking that rank returns names every action once.
LEMMA RankingIsPermutation ==
  ASSUME NEW r \in Responses("rank")
  PROVE  /\ r \in [1 .. NumActions -> Actions]
         /\ ToSet(r) = Actions
<1>1. PICK q \in Rankings, k \in 1 .. NumActions : r = SwapChosen(q, k)
  BY DEF Responses
<1>2. r \in [1 .. NumActions -> Actions] /\ IsInjective(r)
  BY <1>1, LiveModelAssumption DEF Rankings, SwapChosen, IsInjective
<1> QED
  BY <1>2, InjectiveIsOnto

\* The actions in increasing order leave no choice: the i-th is i - 1, since
\* the ones before it are those that are smaller.
LEMMA IncreasingIsIdentity ==
  ASSUME NEW g \in [1 .. NumActions -> Actions], ToSet(g) = Actions,
         \A i, j \in 1 .. NumActions : i < j => g[i] < g[j]
  PROVE  g = [i \in 1 .. NumActions |-> i - 1]
<1> SUFFICES ASSUME NEW i \in 1 .. NumActions PROVE g[i] = i - 1
  OBVIOUS
<1>0. NumActions \in Nat /\ i \in Nat /\ g[i] \in Nat /\ i - 1 \in Int /\ g[i] - 1 \in Int
  BY LiveModelAssumption DEF Actions
<1> DEFINE h == [j \in 1 .. i - 1 |-> g[j]]
<1>1. h \in [1 .. i - 1 -> 0 .. g[i] - 1]
  BY <1>0 DEF Actions
<1>2. \A j, k \in 1 .. i - 1 : h[j] = h[k] => j = k
  BY <1>0 DEF Actions
<1>3. \A v \in 0 .. g[i] - 1 : \E j \in 1 .. i - 1 : h[j] = v
  <2> SUFFICES ASSUME NEW v \in 0 .. g[i] - 1 PROVE \E j \in 1 .. i - 1 : h[j] = v
    OBVIOUS
  <2>0. v \in Actions /\ v < g[i]
    BY <1>0 DEF Actions
  <2>1. PICK j \in 1 .. NumActions : g[j] = v
    BY <2>0 DEF ToSet
  <2>2. j < i
    <3>1. j # i
      BY <1>0, <2>0, <2>1
    <3>2. i < j => g[i] < g[j]
      OBVIOUS
    <3>3. v \in Nat
      OBVIOUS
    <3> QED
      BY <1>0, <2>0, <2>1, <3>1, <3>2, <3>3
  <2> QED
    BY <1>0, <2>1, <2>2
<1>4. h \in Bijection(1 .. i - 1, 0 .. g[i] - 1)
  <2> HIDE DEF h
  <2>1. DOMAIN h = 1 .. i - 1
    BY <1>1
  <2> QED
    BY <1>1, <1>2, <1>3, <2>1 DEF Bijection, Injection, Surjection, IsInjective
<1>5. Cardinality(1 .. i - 1) = i - 1 /\ Cardinality(0 .. g[i] - 1) = g[i] /\ IsFiniteSet(1 .. i - 1)
  <2>1. PICK m \in Int, n \in Int : m = i - 1 /\ n = g[i] - 1
    BY <1>0
  <2>2. IsFiniteSet(1 .. m) /\ Cardinality(1 .. m) = IF 1 > m THEN 0 ELSE m - 1 + 1
    BY FS_Interval
  <2>3. Cardinality(0 .. n) = IF 0 > n THEN 0 ELSE n - 0 + 1
    BY FS_Interval
  <2> QED
    BY <1>0, <2>1, <2>2, <2>3
<1>6. Cardinality(1 .. i - 1) = Cardinality(0 .. g[i] - 1)
  <2> HIDE DEF h
  <2>1. ExistsBijection(1 .. i - 1, 0 .. g[i] - 1)
    BY <1>4 DEF ExistsBijection
  <2> QED
    BY <1>5, <2>1, FS_Bijection
<1> QED
  BY <1>5, <1>6

\* reset_action_order makes of every ranking the list of the actions.
LEMMA ResetIsIdentity ==
  ASSUME NEW r \in Responses("rank")
  PROVE  ResetActionOrder(r) = [i \in 1 .. NumActions |-> i - 1]
<1> DEFINE Sorted(s) == \A i, j \in DOMAIN r : i < j => s[i] < s[j]
           id == [i \in 1 .. NumActions |-> i - 1]
<1>1. /\ r \in [1 .. NumActions -> Actions] /\ DOMAIN r = 1 .. NumActions
      /\ ToSet(r) = Actions
  BY RankingIsPermutation
<1>2. id \in [DOMAIN r -> ToSet(r)] /\ Sorted(id)
  BY <1>1, LiveModelAssumption DEF Actions
<1>3. ASSUME NEW s \in [DOMAIN r -> ToSet(r)], Sorted(s) PROVE s = id
  <2>1. s \in [1 .. NumActions -> Actions] /\ \A i, j \in 1 .. NumActions : i < j => s[i] < s[j]
    BY <1>1, <1>3
  <2>2. ToSet(s) = Actions
    <3>1. IsInjective(s)
      BY <2>1, LiveModelAssumption DEF IsInjective, Actions
    <3> QED
      BY <2>1, <3>1, InjectiveIsOnto
  <2> QED
    BY <2>1, <2>2, IncreasingIsIdentity
<1> QED
  <2>1. ResetActionOrder(r) = id
    <3> HIDE DEF id
    <3> QED
      BY <1>2, <1>3 DEF ResetActionOrder
  <2> QED
    BY <2>1
-----------------------------------------------------------------------------
(* The invariant *)

LEMMA LiveInit == Init => LiveInv
<1> SUFFICES ASSUME Init PROVE LiveInv
  OBVIOUS
<1>1. LibraryInv
  <2>1. calls \in [Users -> 0 .. MaxCalls]
    BY LiveModelAssumption DEF Init
  <2> QED
    BY <2>1 DEF Init, LibraryInv
<1>2. LogInv /\ CallsInv
  BY DEF Init, LogInv, CallsInv
<1> QED
  BY <1>1, <1>2 DEF LiveInv

\* The configuration does not change, and with it what is logged and shown.
LEMMA SameSetup ==
  ASSUME setup' = setup
  PROVE  /\ \A kind, resp : ToLog(kind, resp)' = ToLog(kind, resp)
         /\ \A c : EventOf(c)' = EventOf(c)
         /\ \A c : ShownOf(c)' = ShownOf(c)
         /\ \A kind : Responses(kind)' = Responses(kind)
  BY DEF ToLog, EventOf, ShownOf, Shown, Responses, SwapChosen, Rankings

\* A step leaves a user's call and its result alone when it takes no event of
\* the user's from the log and gives it none.
LEMMA Undisturbed ==
  ASSUME LiveInv, NEW u \in Users,
         call'[u] = call[u], ret'[u] = ret[u], calls'[u] = calls[u],
         setup' = setup, lib = "ready" => lib' = "ready", flag => flag',
         \A n \in Nat : {e \in log' : e.id = <<u, n>>} = {e \in log : e.id = <<u, n>>}
  PROVE  /\ call'[u] # Idle => InProgress(u)'
         /\ ret'[u] # None => Finished(u)'
<1>0. calls[u] \in Nat
  BY LiveModelAssumption DEF LiveInv, LibraryInv
<1>1. ASSUME call'[u] # Idle PROVE InProgress(u)'
  <2>1. InProgress(u)
    BY <1>1 DEF LiveInv, CallsInv
  <2>2. \E n \in Nat : call[u].id = <<u, n>>
    BY <1>0, <2>1 DEF InProgress
  <2>3. Events(call[u])' = Events(call[u])
    BY <2>2 DEF Events
  <2> QED
    BY <2>1, <2>3, SameSetup DEF InProgress
<1>2. ASSUME ret'[u] # None PROVE Finished(u)'
  <2>1. Finished(u)
    BY <1>2 DEF LiveInv, CallsInv
  <2>2. \E n \in Nat : ret[u].id = <<u, n>>
    BY <1>0, <2>1 DEF Finished
  <2>3. Events(ret[u])' = Events(ret[u])
    BY <2>2 DEF Events
  <2> QED
    BY <2>1, <2>3, SameSetup DEF Finished, Worked
<1> QED
  BY <1>1, <1>2
-----------------------------------------------------------------------------
(* The steps *)

\* No call is under way before init has succeeded, so that init disturbs none.
LEMMA InitLibraryStep ==
  ASSUME LiveInv, NEW upTo \in {"model", "mgmt", "interaction", "encoding", "end"},
         InitLibrary(upTo)
  PROVE  LiveInv'
<1>1. LibraryInv'
  BY DEF InitLibrary, InitThreads, LiveInv, LibraryInv
<1>2. LogInv'
  BY DEF InitLibrary, LiveInv, LogInv
<1>3. ASSUME NEW u \in Users
      PROVE  (call'[u] # Idle => InProgress(u)') /\ (ret'[u] # None => Finished(u)')
  BY Undisturbed DEF InitLibrary
<1> QED
  BY <1>1, <1>2, <1>3 DEF LiveInv, CallsInv

LEMMA BackgroundErrorStep ==
  ASSUME LiveInv, BackgroundError
  PROVE  LiveInv'
<1>1. LibraryInv' /\ LogInv'
  BY DEF BackgroundError, LiveInv, LibraryInv, LogInv
<1>2. ASSUME NEW u \in Users
      PROVE  (call'[u] # Idle => InProgress(u)') /\ (ret'[u] # None => Finished(u)')
  BY Undisturbed DEF BackgroundError
<1> QED
  BY <1>1, <1>2 DEF LiveInv, CallsInv

\* A call that has just begun has no event; it is refused, fails, or is under
\* way with a response that the mode may have reset.
LEMMA CallStep ==
  ASSUME LiveInv, NEW u \in Users, NEW kind \in Kinds, NEW base \in Baselines,
         NEW argOK \in BOOLEAN, Call(u, kind, base, argOK)
  PROVE  LiveInv'
<1> DEFINE c == [pc |-> "log", id |-> <<u, calls[u]>>, kind |-> kind,
                 base |-> base, flagged |-> flag, drawn |-> <<>>, resp |-> <<>>]
           refusal == Refusal(kind, base, argOK)
<1>0. /\ calls \in [Users -> 0 .. MaxCalls] /\ MaxCalls \in Nat /\ calls[u] \in Nat
      /\ DOMAIN call = Users /\ DOMAIN ret = Users
  BY LiveModelAssumption DEF LiveInv, LibraryInv
<1>1. /\ calls' = [calls EXCEPT ![u] = @ + 1] /\ calls[u] < MaxCalls /\ call[u] = Idle
      /\ UNCHANGED <<setup, lib, started, flag, log>>
  BY DEF Call
<1>2. calls' \in [Users -> 0 .. MaxCalls]
  BY <1>0, <1>1
<1>3. \/ /\ \E code \in {"not_initialized", "not_supported", "baseline_actions_not_defined",
                          "invalid_argument", "exploration_error", "model_rank_error",
                          "model_update_error"} : ReturnWith(u, code, <<>>, c)
      \/ /\ kind = "refresh"
         /\ \E code \in {"ok", "model_update_error"} : ReturnWith(u, code, <<>>, c)
      \/ /\ refusal = "none" /\ kind \in Deciding /\ ret' = ret
         /\ \E r \in Responses(kind) :
               call' = [call EXCEPT ![u] = [c EXCEPT !.drawn = r, !.resp = ToLog(kind, r)]]
      \/ /\ refusal = "none" /\ kind \in Reporting /\ ret' = ret
         /\ call' = [call EXCEPT ![u] = c]
  <2>1. refusal \in {"none", "not_initialized", "not_supported", "baseline_actions_not_defined",
                    "invalid_argument", "model_update_error"}
    BY DEF Refusal
  <2> QED
    BY <2>1 DEF Call
<1>4. /\ DOMAIN call' = Users /\ DOMAIN ret' = Users
      /\ \A v \in Users \ {u} : call'[v] = call[v] /\ ret'[v] = ret[v] /\ calls'[v] = calls[v]
  BY <1>0, <1>1, <1>3 DEF ReturnWith
<1>5. LibraryInv'
  BY <1>1, <1>2, <1>4 DEF LiveInv, LibraryInv
<1>6. LogInv'
  BY <1>0, <1>1 DEF LiveInv, LogInv
<1>7. \A v \in Users \ {u} : /\ call'[v] # Idle => InProgress(v)'
                             /\ ret'[v] # None => Finished(v)'
  BY <1>1, <1>4, Undisturbed
<1>8. {e \in log : e.id = <<u, calls[u]>>} = {}
  BY <1>0 DEF LiveInv, LogInv
<1>9. calls'[u] = calls[u] + 1
  BY <1>0, <1>1
<1>10. ASSUME NEW code, ReturnWith(u, code, <<>>, c), code # "none",
              ~(code \in {"ok", "unhandled_background_error_occurred"} /\ kind # "refresh")
       PROVE  call'[u] = Idle /\ Finished(u)'
  <2>1. ret'[u] = [code |-> code, id |-> c.id, kind |-> kind, base |-> base,
                   flagged |-> flag, drawn |-> <<>>, shown |-> <<>>]
    BY <1>0, <1>10 DEF ReturnWith
  <2>2. call'[u] = Idle
    BY <1>0, <1>10 DEF ReturnWith
  <2>3. Events(ret[u])' = {}
    BY <1>1, <1>8, <2>1 DEF Events
  <2>4. ret'[u].id = <<u, calls[u]>> /\ calls[u] \in 0 .. calls'[u] - 1
    BY <1>0, <1>9, <2>1
  <2>5. ~(Worked(ret[u])' /\ ret'[u].kind # "refresh")
    BY <1>10, <2>1 DEF Worked
  <2>6. ret'[u].kind \in Deciding \cup {"outcome", "outcome_id"} => ret'[u].code # "ok"
    BY <1>10, <2>1 DEF Deciding
  <2> QED
    BY <2>2, <2>3, <2>4, <2>5, <2>6 DEF Finished
<1>11. ASSUME refusal = "none", kind \in Deciding \cup Reporting, ret' = ret,
              NEW d, kind \in Deciding => d \in Responses(kind),
              call' = [call EXCEPT ![u] = [c EXCEPT !.drawn = d, !.resp = ToLog(kind, d)]]
       PROVE  InProgress(u)' /\ (ret'[u] # None => Finished(u)')
  <2>1. call'[u] = [pc |-> "log", id |-> <<u, calls[u]>>, kind |-> kind, base |-> base,
                    flagged |-> flag, drawn |-> d, resp |-> ToLog(kind, d)]
    BY <1>0, <1>11
  <2>2. lib = "ready"
    BY <1>11 DEF Refusal
  <2>3. Events(call[u])' = {}
    BY <1>1, <1>8, <2>1 DEF Events
  <2>4. \A k, resp : ToLog(k, resp)' = ToLog(k, resp)
    BY <1>1, SameSetup
  <2>5. \A k : Responses(k)' = Responses(k)
    BY <1>1, SameSetup
  <2>6. InProgress(u)'
    BY <1>0, <1>1, <1>9, <1>11, <2>1, <2>2, <2>3, <2>4, <2>5 DEF InProgress
  <2>7. ASSUME ret'[u] # None PROVE Finished(u)'
    <3>1. Finished(u) /\ ret'[u] = ret[u]
      BY <1>11, <2>7 DEF LiveInv, CallsInv
    <3>2. PICK n \in 0 .. calls[u] - 1 : ret[u].id = <<u, n>>
      BY <3>1 DEF Finished
    <3>3. n \in 0 .. calls'[u] - 1 /\ n < calls'[u] - 1
      BY <1>0, <1>9
    <3>4. Events(ret[u])' = Events(ret[u])
      BY <1>1, <3>1 DEF Events
    <3>5. EventOf(ret[u])' = EventOf(ret[u]) /\ ShownOf(ret[u])' = ShownOf(ret[u])
      BY <1>1, <3>1, SameSetup
    <3> QED
      BY <3>1, <3>2, <3>3, <3>4, <3>5 DEF Finished, Worked
  <2> QED
    BY <2>6, <2>7
<1>12. (call'[u] # Idle => InProgress(u)') /\ (ret'[u] # None => Finished(u)')
  <2>1. ASSUME kind \in Reporting, call' = [call EXCEPT ![u] = c]
        PROVE  call' = [call EXCEPT ![u] = [c EXCEPT !.drawn = <<>>, !.resp = ToLog(kind, <<>>)]]
    BY <2>1 DEF ToLog, Reporting
  <2> HIDE DEF c, refusal
  <2> QED
    BY <1>3, <1>10, <1>11, <2>1 DEF Reporting, Deciding
<1>13. CallsInv'
  <2> SUFFICES ASSUME NEW v \in Users
               PROVE  (call'[v] # Idle => InProgress(v)') /\ (ret'[v] # None => Finished(v)')
    BY DEF CallsInv
  <2>1. CASE v = u
    BY <1>12, <2>1
  <2>2. CASE v # u
    BY <1>7, <2>2
  <2> QED
    BY <2>1, <2>2
<1> QED
  BY <1>5, <1>6, <1>13 DEF LiveInv

\* A user's event has the id of the call: the calls of the others keep theirs.
LEMMA LogOthers ==
  ASSUME LiveInv, NEW u \in Users, call[u] # Idle, NEW e,
         e.id = call[u].id, log' \in {log, log \cup {e}}
  PROVE  /\ \A v \in Users \ {u} : \A n \in Nat :
               {f \in log' : f.id = <<v, n>>} = {f \in log : f.id = <<v, n>>}
         /\ \A n \in Nat : n < calls[u] - 1 =>
               {f \in log' : f.id = <<u, n>>} = {f \in log : f.id = <<u, n>>}
<1>1. e.id = <<u, calls[u] - 1>> /\ calls[u] \in Nat
  BY LiveModelAssumption DEF LiveInv, LibraryInv, CallsInv, InProgress
<1> QED
  BY <1>1

\* The event is written if the version admits it, and is then the only one.
LEMMA LogStep ==
  ASSUME LiveInv, NEW u \in Users, Log(u)
  PROVE  LiveInv'
<1> DEFINE c == call[u]
           e == [id |-> c.id, kind |-> c.kind, actions |-> Logged(c.kind, c.resp)]
<1>0. /\ calls \in [Users -> 0 .. MaxCalls] /\ MaxCalls \in Nat /\ calls[u] \in Nat
      /\ DOMAIN call = Users /\ DOMAIN ret = Users
  BY LiveModelAssumption DEF LiveInv, LibraryInv
<1>1. /\ c.pc = "log" /\ c # Idle
      /\ UNCHANGED <<setup, lib, started, flag, calls>>
  BY DEF Log, Idle
<1>2. InProgress(u) /\ (ret[u] # None => Finished(u))
  BY <1>1 DEF LiveInv, CallsInv
<1>3. \/ /\ log' = log \cup {e}
         /\ call' = [call EXCEPT ![u].pc = "return"] /\ ret' = ret
      \/ /\ log' = log
         /\ ReturnWith(u, "protocol_not_supported", c.resp, c)
  BY DEF Log
<1>4. /\ DOMAIN call' = Users /\ DOMAIN ret' = Users
      /\ \A v \in Users \ {u} : call'[v] = call[v] /\ ret'[v] = ret[v]
  BY <1>0, <1>3 DEF ReturnWith
<1>5. LibraryInv'
  BY <1>1, <1>4 DEF LiveInv, LibraryInv
<1>6. e = EventOf(c) /\ e.id = <<u, calls[u] - 1>> /\ calls[u] - 1 \in 0 .. calls[u] - 1
  <2>1. c.resp = ToLog(c.kind, c.drawn) /\ c.id = <<u, calls[u] - 1>> /\ calls[u] > 0
    BY <1>2 DEF InProgress
  <2> QED
    BY <1>0, <2>1 DEF EventOf
<1>7. LogInv'
  BY <1>1, <1>3, <1>6 DEF LiveInv, LogInv
<1>8. /\ \A v \in Users \ {u} : \A n \in Nat :
            {f \in log' : f.id = <<v, n>>} = {f \in log : f.id = <<v, n>>}
      /\ \A n \in Nat : n < calls[u] - 1 =>
            {f \in log' : f.id = <<u, n>>} = {f \in log : f.id = <<u, n>>}
  <2>1. e.id = c.id
    OBVIOUS
  <2> HIDE DEF c, e
  <2>2. log' \in {log, log \cup {e}}
    BY <1>3
  <2> QED
    BY <1>1, <2>1, <2>2, LogOthers DEF c
<1>9. \A v \in Users \ {u} : /\ call'[v] # Idle => InProgress(v)'
                             /\ ret'[v] # None => Finished(v)'
  BY <1>1, <1>4, <1>8, Undisturbed
<1>10. CASE log' = log \cup {e} /\ call' = [call EXCEPT ![u].pc = "return"] /\ ret' = ret
  <2>1. call'[u] = [pc |-> "return", id |-> <<u, calls[u] - 1>>, kind |-> c.kind, base |-> c.base,
                    flagged |-> c.flagged, drawn |-> c.drawn, resp |-> ToLog(c.kind, c.drawn)]
    BY <1>0, <1>2, <1>10 DEF InProgress
  <2>2. /\ Events(call[u])' = {EventOf(c)}
        /\ EventOf(call'[u]) = EventOf(c)
    <3>1. Events(c) = {}
      BY <1>1, <1>2 DEF InProgress
    <3>2. call'[u].id = c.id /\ e.id = c.id
      BY <1>2, <2>1 DEF InProgress
    <3> QED
      BY <1>6, <1>10, <2>1, <3>1, <3>2 DEF Events, EventOf
  <2>3. EventOf(call[u])' = EventOf(call'[u]) /\ \A k, resp : ToLog(k, resp)' = ToLog(k, resp)
    BY <1>1, SameSetup
  <2>4. InProgress(u)'
    <3>1. \A kind : Responses(kind)' = Responses(kind)
      BY <1>1, SameSetup
    <3> QED
      BY <1>1, <1>2, <2>1, <2>2, <2>3, <3>1 DEF InProgress
  <2>5. ASSUME ret'[u] # None PROVE Finished(u)'
    <3>1. Finished(u) /\ ret'[u] = ret[u] /\ call'[u] # Idle
      BY <1>2, <1>10, <2>1, <2>5 DEF Idle
    <3>2. PICK n \in 0 .. calls[u] - 1 : ret[u].id = <<u, n>> /\ n < calls[u] - 1
      BY <1>1, <3>1 DEF Finished
    <3>3. Events(ret[u])' = Events(ret[u])
      BY <1>0, <1>8, <1>10, <3>2 DEF Events
    <3>4. EventOf(ret[u])' = EventOf(ret[u]) /\ ShownOf(ret[u])' = ShownOf(ret[u])
      BY <1>1, <1>10, SameSetup
    <3> QED
      BY <1>1, <3>1, <3>2, <3>3, <3>4 DEF Finished, Worked
  <2> QED
    BY <1>5, <1>7, <1>9, <2>4, <2>5 DEF LiveInv, CallsInv
<1>11. CASE log' = log /\ ReturnWith(u, "protocol_not_supported", c.resp, c)
  <2>1. /\ call'[u] = Idle
        /\ ret'[u] = [code |-> "protocol_not_supported", id |-> c.id, kind |-> c.kind,
                      base |-> c.base, flagged |-> c.flagged, drawn |-> c.drawn, shown |-> c.resp]
    BY <1>0, <1>11 DEF ReturnWith
  <2>2. Events(ret[u])' = {}
    <3>1. Events(c) = {}
      BY <1>1, <1>2 DEF InProgress
    <3> QED
      BY <1>11, <2>1, <3>1 DEF Events
  <2>3. ret'[u].id = <<u, calls[u] - 1>>
    BY <1>6, <2>1
  <2>4. Finished(u)'
    BY <1>1, <1>6, <2>1, <2>2, <2>3 DEF Finished, Worked
  <2> QED
    BY <1>5, <1>7, <1>9, <2>1, <2>4 DEF LiveInv, CallsInv
<1> QED
  BY <1>3, <1>10, <1>11

\* The response gets its final form after the event was written.
LEMMA ReturnStep ==
  ASSUME LiveInv, NEW u \in Users, Return(u)
  PROVE  LiveInv'
<1> DEFINE c == call[u]
<1>0. /\ calls \in [Users -> 0 .. MaxCalls] /\ MaxCalls \in Nat /\ calls[u] \in Nat
      /\ DOMAIN call = Users /\ DOMAIN ret = Users
  BY LiveModelAssumption DEF LiveInv, LibraryInv
<1>1. /\ c.pc = "return" /\ c # Idle
      /\ UNCHANGED <<setup, lib, started, flag, calls, log>>
  BY DEF Return, Idle
<1>2. InProgress(u)
  BY <1>1 DEF LiveInv, CallsInv
<1>3. PICK shown \in Shown(c) :
        ReturnWith(u, IF flag /\ Checked(c.kind)
                      THEN "unhandled_background_error_occurred" ELSE "ok", shown, c)
  BY DEF Return
<1>4. /\ DOMAIN call' = Users /\ DOMAIN ret' = Users
      /\ \A v \in Users \ {u} : call'[v] = call[v] /\ ret'[v] = ret[v]
  BY <1>0, <1>3 DEF ReturnWith
<1>5. LibraryInv' /\ LogInv'
  BY <1>1, <1>4 DEF LiveInv, LibraryInv, LogInv
<1>6. \A v \in Users \ {u} : /\ call'[v] # Idle => InProgress(v)'
                             /\ ret'[v] # None => Finished(v)'
  BY <1>1, <1>4, Undisturbed
<1>7. /\ call'[u] = Idle
      /\ ret'[u] = [code |-> IF flag /\ Checked(c.kind)
                             THEN "unhandled_background_error_occurred" ELSE "ok",
                    id |-> c.id, kind |-> c.kind, base |-> c.base,
                    flagged |-> c.flagged, drawn |-> c.drawn, shown |-> shown]
  BY <1>0, <1>3 DEF ReturnWith
<1>8. Finished(u)'
  <2>1. /\ ret'[u].id = <<u, calls[u] - 1>> /\ calls[u] - 1 \in 0 .. calls[u] - 1
        /\ c.kind \in Deciding \cup Reporting /\ c.base \in Baselines
        /\ c.kind \in Deciding => c.drawn \in Responses(c.kind)
        /\ c.flagged => flag
    BY <1>0, <1>2, <1>7 DEF InProgress
  <2>2. Events(ret[u])' = {EventOf(ret'[u])}
    <3>1. Events(c) = {EventOf(c)}
      BY <1>1, <1>2 DEF InProgress
    <3> QED
      BY <1>1, <1>7, <3>1 DEF Events, EventOf
  <2>3. shown \in ShownOf(ret'[u])
    <3>1. c.resp = ToLog(c.kind, c.drawn)
      BY <1>2 DEF InProgress
    <3>2. ret'[u].kind = c.kind /\ ret'[u].base = c.base /\ ret'[u].drawn = c.drawn
      BY <1>7
    <3> QED
      BY <3>1, <3>2 DEF ShownOf, Shown
  <2>4. EventOf(ret[u])' = EventOf(ret'[u]) /\ ShownOf(ret[u])' = ShownOf(ret'[u])
    BY <1>1, SameSetup
  <2>5. Worked(ret[u])' /\ ret'[u].kind # "refresh"
    BY <1>7, <2>1 DEF Worked, Deciding, Reporting
  <2>6. c.flagged /\ c.kind \in Deciding \cup {"outcome", "outcome_id"} => ret'[u].code # "ok"
    BY <1>7, <2>1 DEF Checked, Deciding
  <2>7. \A kind : Responses(kind)' = Responses(kind)
    BY <1>1, SameSetup
  <2> QED
    BY <1>1, <1>7, <2>1, <2>2, <2>3, <2>4, <2>5, <2>6, <2>7 DEF Finished
<1> QED
  BY <1>5, <1>6, <1>7, <1>8 DEF LiveInv, CallsInv
-----------------------------------------------------------------------------
(* The theorems *)

\* The inductive invariant of the inference API, in every reachable state.
THEOREM LiveModelInvariant == Spec => []LiveInv
<1>1. LiveInv /\ [Next]_vars => LiveInv'
  <2> SUFFICES ASSUME LiveInv, [Next]_vars PROVE LiveInv'
    OBVIOUS
  <2>1. CASE UNCHANGED vars
    <3>1. LibraryInv' /\ LogInv'
      BY <2>1 DEF vars, LiveInv, LibraryInv, LogInv
    <3>2. CallsInv'
      BY <2>1, Undisturbed DEF vars, CallsInv
    <3> QED
      BY <3>1, <3>2 DEF LiveInv
  <2>2. CASE Next
    BY <2>2, InitLibraryStep, BackgroundErrorStep, CallStep, LogStep, ReturnStep DEF Next
  <2> QED
    BY <2>1, <2>2
<1> QED
  BY <1>1, LiveInit, PTL DEF Spec

\* Every call that decides or reports, and no other, has its event in the log
\* exactly when it returned success or only the error of a background thread;
\* with the module's types.
THEOREM FailuresAreUnlogged == Spec => []FailedIsUnlogged
<1>1. LiveInv => FailedIsUnlogged
  <2> SUFFICES ASSUME LiveInv PROVE FailedIsUnlogged
    OBVIOUS
  <2>1. TypeOK
    BY DEF LiveInv, LibraryInv, CallsInv, InProgress, TypeOK
  <2>2. ASSUME NEW u \in Users, ret[u] # None
        PROVE  Events(ret[u]) # {} <=> Worked(ret[u]) /\ ret[u].kind # "refresh"
    BY <2>2 DEF LiveInv, CallsInv, Finished
  <2> QED
    BY <2>1, <2>2 DEF FailedIsUnlogged
<1> QED
  BY <1>1, LiveModelInvariant, PTL

\* What the trainer reads is what the caller was shown (ONLINE; LOGGINGONLY for
\* a ranking), or what the model had drawn (APPRENTICE).
THEOREM LogTellsWhatWasShown == Spec => []LoggedIsShown
<1>1. LiveInv => LoggedIsShown
  <2> SUFFICES ASSUME LiveInv, NEW u \in Users, ret[u] # None, Worked(ret[u]),
                      NEW e \in Events(ret[u])
               PROVE  LET r == ret[u] IN
                      /\ setup.mode = "ONLINE" => e.actions = Logged(r.kind, r.shown)
                      /\ setup.mode = "LOGGINGONLY" /\ r.kind = "rank" =>
                           e.actions = Logged(r.kind, r.shown)
                      /\ setup.mode = "APPRENTICE" => e.actions = Logged(r.kind, r.drawn)
    BY DEF LoggedIsShown
  <2> DEFINE r == ret[u]
  <2>1. e = EventOf(r) /\ r.shown \in ShownOf(r)
    BY DEF LiveInv, CallsInv, Finished
  <2>2. e.actions = Logged(r.kind, ToLog(r.kind, r.drawn))
    BY <2>1 DEF EventOf
  <2>3. setup.mode # "LOGGINGONLY" => ToLog(r.kind, r.drawn) = r.drawn
    BY DEF ToLog
  <2>4. setup.mode = "ONLINE" \/ (setup.mode = "LOGGINGONLY" /\ r.kind = "rank")
          => r.shown = ToLog(r.kind, r.drawn)
    BY <2>1 DEF ShownOf, Shown
  <2> QED
    BY <2>2, <2>3, <2>4
<1> QED
  BY <1>1, LiveModelInvariant, PTL

\* Outside ONLINE mode a caller is shown the actions in their order or, of
\* several slots, the baselines it passed.
THEOREM BaselinesAreShown == Spec => []BaselineShown
<1>1. LiveInv => BaselineShown
  <2> SUFFICES ASSUME LiveInv, NEW u \in Users, ret[u] # None, Worked(ret[u]),
                      setup.mode # "ONLINE"
               PROVE  LET r == ret[u] IN
                      /\ r.kind = "rank" => r.shown = [i \in 1 .. NumActions |-> i - 1]
                      /\ r.kind = "slots" => \A s \in 1 .. NumSlots :
                           /\ s <= Len(r.base) => r.shown[s] = r.base[s]
                           /\ r.base = <<>>    => r.shown[s] = s - 1
    BY DEF BaselineShown
  <2> DEFINE r == ret[u]
  <2>1. /\ r.kind \in Deciding => r.drawn \in Responses(r.kind)
        /\ r.kind # "refresh" => r.shown \in ShownOf(r) /\ r.base \in Baselines
    BY DEF LiveInv, CallsInv, Finished, Deciding
  <2>2. ASSUME r.kind = "rank" PROVE r.shown = [i \in 1 .. NumActions |-> i - 1]
    <3>1. r.drawn \in Responses("rank") /\ r.shown \in ShownOf(r)
      BY <2>1, <2>2 DEF Deciding
    <3>2. setup.mode \in Modes
      BY LiveModelAssumption DEF LiveInv, LibraryInv, Configurations
    <3>3. r.shown = ResetActionOrder(r.drawn)
      BY <2>2, <3>1, <3>2 DEF ShownOf, Shown, ToLog, Modes
    <3> QED
      BY <3>1, <3>3, ResetIsIdentity
  <2>3. ASSUME r.kind = "slots", NEW s \in 1 .. NumSlots
        PROVE  /\ s <= Len(r.base) => r.shown[s] = r.base[s]
               /\ r.base = <<>>    => r.shown[s] = s - 1
    <3>1. /\ r.drawn \in [1 .. NumSlots -> Actions] /\ r.base \in Seq(Actions)
          /\ r.shown \in ShownOf(r)
      BY <2>1, <2>3, LiveModelAssumption DEF Deciding, Responses
    <3>2. Len(r.drawn) = NumSlots
      BY <3>1, LiveModelAssumption
    <3>3. r.shown \in ResetChosen(r.drawn, r.base)
      BY <2>3, <3>1 DEF ShownOf, Shown, ToLog
    <3>4. /\ r.base # <<>> /\ Len(r.base) >= s - 1 /\ s <= Len(r.base) => r.shown[s] = r.base[s]
          /\ r.base = <<>> => r.shown[s] = s - 1
      BY <3>2, <3>3 DEF ResetChosen
    <3>5. Len(r.base) \in Nat /\ s \in Nat /\ s >= 1 /\ (r.base = <<>> => Len(r.base) = 0)
      BY <3>1, LiveModelAssumption
    <3> QED
      BY <3>4, <3>5
  <2> QED
    BY <2>2, <2>3
<1> QED
  BY <1>1, LiveModelInvariant, PTL

\* No decision or outcome that began after a background thread had failed
\* unheard returns success.
THEOREM FlagIsAlwaysSeen == Spec => []FlagIsSeen
<1>1. LiveInv => FlagIsSeen
  BY DEF LiveInv, CallsInv, Finished, FlagIsSeen
<1> QED
  BY <1>1, LiveModelInvariant, PTL
=============================================================================
