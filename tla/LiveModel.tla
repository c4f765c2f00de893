------------------------------ MODULE LiveModel ------------------------------
(***************************************************************************)
(* The inference API: live_model.cc and the loops over live_model_impl.cc, *)
(* with the version and type dispatch of logger/logger_facade.cc and the   *)
(* responses of sampling.cc.  Several user threads call one initialized    *)
(* library while its background threads may fail.                          *)
(*                                                                         *)
(* A call takes three steps: Call (checks and the model's decision), Log   *)
(* (the event is handed to the logger) and Return (the response is given   *)
(* its final form and the background error flag is read).                  *)
(*                                                                         *)
(* Actions are numbered from 0.  A response is the sequence of its action  *)
(* ids: the ranking of "rank", chosen action first; the chosen action of   *)
(* each slot of "decision" and "slots"; one value for "continuous".        *)
(* Callers use the operation made for the type of their model, as          *)
(* cb_loop, ca_loop, ccb_loop and slates_loop see to.                      *)
(***************************************************************************)
EXTENDS Integers, Sequences, SequencesExt

CONSTANTS Users,       \* threads that call the library
          Setups,      \* configurations
          NumActions, NumSlots,
          Baselines,   \* baseline_actions a caller may pass
          MaxCalls     \* bound: calls of each user

Modes    == {"ONLINE", "APPRENTICE", "LOGGINGONLY"}
Types    == {"CB", "CA", "CCB", "SLATES"}
Versions == {1, 2}
Actions  == 0 .. NumActions - 1

\* What a caller can configure: learning mode, protocol version, model type,
\* background model refresh, a user error callback, v2-only event encodings.
Configurations ==
    [mode : Modes, version : Versions, type : Types, background : BOOLEAN,
     callback : BOOLEAN, encoded : BOOLEAN]

ASSUME LiveModelAssumption ==
    /\ NumActions \in Nat \ {0} /\ NumSlots \in Nat \ {0} /\ MaxCalls \in Nat
    /\ Setups \subseteq Configurations
    /\ Baselines \subseteq Seq(Actions)

Deciding  == {"rank", "continuous", "decision", "slots"}
Reporting == {"outcome", "outcome_id", "taken", "taken_id"}
Kinds     == Deciding \cup Reporting \cup {"refresh"}

VARIABLES
    setup,    \* the configuration
    lib,      \* "new", "failed" or "ready" (_initialized)
    started,  \* background threads that run
    flag,     \* _unhandled_background_error_occurred
    call,     \* the call each user is in
    calls,    \* calls each user has made
    log,      \* events handed to the loggers
    ret       \* what the last call of each user returned

vars == <<setup, lib, started, flag, call, calls, log, ret>>

Idle == [pc |-> "idle"]
None == [code |-> "none"]

----------------------------------------------------------------------------
(* Responses *)

\* sample_and_populate_response: the sampled action is swapped with the first
\* of the ranking the model gave.
SwapChosen(ranking, i) ==
    [ranking EXCEPT ![1] = ranking[i], ![i] = ranking[1]]

Rankings == {s \in [1 .. NumActions -> Actions] : IsInjective(s)}

Responses(kind) ==
    CASE kind = "rank" ->
           {SwapChosen(r, i) : r \in Rankings, i \in 1 .. NumActions}
      [] kind = "continuous" -> [{1} -> Actions]
      [] OTHER -> [1 .. NumSlots -> Actions]

\* reset_action_order: sorted by action id, the first is chosen.
ResetActionOrder(resp) ==
    CHOOSE s \in [DOMAIN resp -> ToSet(resp)] :
        \A i, j \in DOMAIN resp : i < j => s[i] < s[j]

\* reset_chosen_action_multi_slot.  The test compares size() >= index, so that
\* the slot just past the end reads one past the end of the vector: whatever
\* lies there.
Beyond == 0 .. NumActions

\* Mutant of ResetChosen: the implicit baseline counts slots from 1.
ResetChosen_FromOne(resp, base) ==
    {r \in [1 .. Len(resp) -> Beyond] :
        \A s \in 1 .. Len(resp) :
            IF base # <<>> /\ Len(base) >= s - 1
            THEN s <= Len(base) => r[s] = base[s]
            ELSE r[s] = s}

ResetChosen(resp, base) ==
    {r \in [1 .. Len(resp) -> Beyond] :
        \A s \in 1 .. Len(resp) :
            IF base # <<>> /\ Len(base) >= s - 1
            THEN s <= Len(base) => r[s] = base[s]
            ELSE r[s] = s - 1}

----------------------------------------------------------------------------
(* What the configuration admits *)

Fits(kind) ==
    /\ kind = "rank"       => setup.type = "CB"
    /\ kind = "continuous" => setup.type = "CA"
    /\ kind = "decision"   => setup.type = "CCB"
    /\ kind = "slots"      => setup.type \in {"CCB", "SLATES"}

\* The dispatch of interaction_logger_facade and observation_logger_facade.
FacadeLogs(kind) ==
    CASE kind \in {"rank", "outcome", "taken"} -> TRUE
      [] kind = "decision" -> setup.version = 1
      [] kind = "slots"    -> setup.version = 2 \/ setup.type = "SLATES"
      [] OTHER             -> setup.version = 2

\* The checks before any work, in the order of the code: INIT_CHECK, then the
\* learning mode, then the arguments.
Refusal(kind, base, argOK) ==
    IF lib # "ready" THEN "not_initialized"
    ELSE IF kind = "decision" /\ setup.mode # "ONLINE" THEN "not_supported"
    ELSE IF kind = "slots" /\ setup.mode = "APPRENTICE" /\ base = <<>>
         THEN "baseline_actions_not_defined"
    ELSE IF kind = "refresh" /\ setup.background THEN "model_update_error"
    ELSE IF kind \notin {"taken", "taken_id", "refresh"} /\ ~argOK THEN "invalid_argument"
    ELSE "none"

----------------------------------------------------------------------------
Init ==
    /\ setup \in Setups
    /\ lib = "new" /\ started = {} /\ flag = FALSE
    /\ call = [u \in Users |-> Idle]
    /\ calls = [u \in Users |-> 0]
    /\ log = {}
    /\ ret = [u \in Users |-> None]

\* init: trace and model, model management, the interaction and the observation
\* logger, then the check of the encodings against the protocol version, when
\* the threads already run.  upTo is the last part that succeeded.  An init
\* that failed is not tried again.
InitThreads(upTo) ==
    (IF upTo # "model" /\ setup.background THEN {"downloader"} ELSE {})
        \cup (IF upTo \in {"interaction", "encoding", "end"} THEN {"interaction"}
              ELSE {})
        \cup (IF upTo \in {"encoding", "end"} THEN {"observation"} ELSE {})

InitLibrary(upTo) ==
    /\ lib = "new"
    /\ setup.version = 1 /\ setup.type = "CA" => upTo \in {"model", "mgmt"}
    /\ upTo = "encoding" => setup.version = 1 /\ setup.encoded
    /\ upTo = "end" => ~(setup.version = 1 /\ setup.encoded)
    /\ lib' = IF upTo = "end" THEN "ready" ELSE "failed"
    /\ started' = InitThreads(upTo)
    /\ UNCHANGED <<setup, flag, call, calls, log, ret>>

\* A background thread reports an error.  default_error_callback raises the
\* flag; a callback of the user's gets the error instead.
BackgroundError ==
    /\ started # {} /\ ~setup.callback
    /\ flag' = TRUE
    /\ UNCHANGED <<setup, lib, started, call, calls, log, ret>>

ReturnWith(u, code, shown, c) ==
    /\ ret' = [ret EXCEPT ![u] =
                 [code |-> code, id |-> c.id, kind |-> c.kind, base |-> c.base,
                  flagged |-> c.flagged, drawn |-> c.drawn, shown |-> shown]]
    /\ call' = [call EXCEPT ![u] = Idle]

\* Mutant of ToLog: APPRENTICE resets before logging, too.
ToLog_Apprentice(kind, resp) ==
    IF kind = "rank" /\ setup.mode # "ONLINE" THEN ResetActionOrder(resp) ELSE resp

\* For rank LOGGINGONLY resets the order before logging.
ToLog(kind, resp) ==
    IF kind = "rank" /\ setup.mode = "LOGGINGONLY" THEN ResetActionOrder(resp) ELSE resp

\* The first part of a call.  A failing model leaves rank with an empty
\* distribution, which cannot be sampled.
Call(u, kind, base, argOK) ==
    LET c == [pc |-> "log", id |-> <<u, calls[u]>>, kind |-> kind,
              base |-> base, flagged |-> flag, drawn |-> <<>>, resp |-> <<>>]
        refusal == Refusal(kind, base, argOK)
    IN  /\ call[u] = Idle
        /\ calls[u] < MaxCalls /\ Fits(kind)
        /\ calls' = [calls EXCEPT ![u] = @ + 1]
        /\ \/ refusal # "none" /\ ReturnWith(u, refusal, <<>>, c)
           \/ /\ refusal = "none" /\ kind \in Deciding
              /\ ReturnWith(u, IF kind = "rank" THEN "exploration_error"
                               ELSE "model_rank_error", <<>>, c)
           \/ /\ refusal = "none" /\ kind \in Deciding
              /\ \E r \in Responses(kind) :
                    call' = [call EXCEPT ![u] =
                      [c EXCEPT !.drawn = r, !.resp = ToLog(kind, r)]]
              /\ ret' = ret
           \/ /\ refusal = "none" /\ kind \in Reporting
              /\ call' = [call EXCEPT ![u] = c]
              /\ ret' = ret
           \/ /\ refusal = "none" /\ kind = "refresh"
              /\ \E code \in {"ok", "model_update_error"} :
                    ReturnWith(u, code, <<>>, c)
        /\ UNCHANGED <<setup, lib, started, flag, log>>

\* The event as the serializers write it: a ranking counts actions from 1.
Logged(kind, resp) ==
    IF kind = "rank" THEN [i \in DOMAIN resp |-> resp[i] + 1] ELSE resp

\* Mutant of Log: the event is handed over before the version is looked at.
Log_Undispatched(u) ==
    LET c == call[u] IN
    /\ c.pc = "log"
    /\ log' = log \cup {[id |-> c.id, kind |-> c.kind, actions |-> Logged(c.kind, c.resp)]}
    /\ IF FacadeLogs(c.kind)
       THEN call' = [call EXCEPT ![u].pc = "return"] /\ ret' = ret
       ELSE ReturnWith(u, "protocol_not_supported", c.resp, c)
    /\ UNCHANGED <<setup, lib, started, flag, calls>>

Log(u) ==
    LET c == call[u] IN
    /\ c.pc = "log"
    /\ IF FacadeLogs(c.kind)
       THEN /\ log' = log \cup {[id |-> c.id, kind |-> c.kind,
                                 actions |-> Logged(c.kind, c.resp)]}
            /\ call' = [call EXCEPT ![u].pc = "return"]
            /\ ret' = ret
       ELSE /\ ReturnWith(u, "protocol_not_supported", c.resp, c)
            /\ log' = log
    /\ UNCHANGED <<setup, lib, started, flag, calls>>

\* What the caller gets to see, once the event is logged.
Shown(c) ==
    CASE c.kind = "rank" /\ setup.mode = "APPRENTICE" -> {ResetActionOrder(c.resp)}
      [] c.kind = "slots" /\ setup.mode # "ONLINE" -> ResetChosen(c.resp, c.base)
      [] OTHER -> {c.resp}

\* Mutant of Checked: outcomes do not look at the flag either.
Checked_Decisions(kind) == kind \in Deciding

\* report_action_taken returns without a look at the flag.
Checked(kind) == kind \notin {"taken", "taken_id"}

Return(u) ==
    /\ call[u].pc = "return"
    /\ \E shown \in Shown(call[u]) :
          ReturnWith(u, IF flag /\ Checked(call[u].kind)
                        THEN "unhandled_background_error_occurred" ELSE "ok",
                     shown, call[u])
    /\ UNCHANGED <<setup, lib, started, flag, calls, log>>

Next ==
    \/ \E upTo \in {"model", "mgmt", "interaction", "encoding", "end"} :
          InitLibrary(upTo)
    \/ BackgroundError
    \/ \E u \in Users :
          \/ \E kind \in Kinds, base \in Baselines, argOK \in BOOLEAN :
                /\ kind # "slots" => base = <<>>
                /\ Call(u, kind, base, argOK)
          \/ Log(u)
          \/ Return(u)

Spec == Init /\ [][Next]_vars

----------------------------------------------------------------------------
(* Properties *)

\* Every variable keeps its type: a call in progress was admitted, and the
\* observation logger never runs without the interaction logger.
TypeOK ==
    /\ setup \in Setups
    /\ lib \in {"new", "failed", "ready"}
    /\ started \subseteq {"downloader", "interaction", "observation"}
    /\ "observation" \in started => "interaction" \in started
    /\ flag \in BOOLEAN
    /\ calls \in [Users -> 0 .. MaxCalls]
    /\ \A u \in Users :
          call[u] # Idle => lib = "ready" /\ call[u].pc \in {"log", "return"}

Events(r) == {e \in log : e.id = r.id}
Worked(r) == r.code \in {"ok", "unhandled_background_error_occurred"}

\* A call that decides or reports has its event in the log exactly when it
\* returned success or only the error of a background thread: "Do this at the
\* end of function so that the work is still done".  Any other error, a call
\* before init and a refresh leave no event for the trainer to join.
FailedIsUnlogged ==
    TypeOK /\ \A u \in Users : ret[u] # None =>
        (Events(ret[u]) # {} <=> Worked(ret[u]) /\ ret[u].kind # "refresh")

\* The log is what the trainer learns from.  ONLINE, and LOGGINGONLY for a
\* ranking, it holds the actions the caller was shown; in APPRENTICE mode, the
\* ones the model chose, whatever the caller was shown.
LoggedIsShown ==
    \A u \in Users : LET r == ret[u] IN
        r # None /\ Worked(r) => \A e \in Events(r) :
            /\ setup.mode = "ONLINE" => e.actions = Logged(r.kind, r.shown)
            /\ setup.mode = "LOGGINGONLY" /\ r.kind = "rank" =>
                 e.actions = Logged(r.kind, r.shown)
            /\ setup.mode = "APPRENTICE" => e.actions = Logged(r.kind, r.drawn)

\* Outside ONLINE mode the model is never let loose on the caller: a ranking
\* comes back in the order of the actions, a slot gets the baseline action the
\* caller gave for it or, when none were given, the action of its index.
BaselineShown ==
    \A u \in Users : LET r == ret[u] IN
        r # None /\ Worked(r) /\ setup.mode # "ONLINE" =>
            /\ r.kind = "rank" => r.shown = [i \in 1 .. NumActions |-> i - 1]
            /\ r.kind = "slots" => \A s \in 1 .. NumSlots :
                 /\ s <= Len(r.base) => r.shown[s] = r.base[s]
                 /\ r.base = <<>>    => r.shown[s] = s - 1

\* Once a background thread has failed without anyone to tell, every later call
\* says so: no decision and no outcome begun after that returns success.
FlagIsSeen ==
    \A u \in Users : LET r == ret[u] IN
        r # None /\ r.flagged /\ r.kind \in Deciding \cup {"outcome", "outcome_id"}
            => r.code # "ok"
=============================================================================
