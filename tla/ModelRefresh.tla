------------------------------ MODULE ModelRefresh ------------------------------
(***************************************************************************)
(* How a published model reaches the decisions: the transports of          *)
(* model_mgmt/ (an HTTP resource or a file), model_downloader and          *)
(* live_model_impl around them, and vw_model, whose pool of workspaces     *)
(* enters as the register that VersionedPool is shown to implement.        *)
(*                                                                         *)
(* A model is named by its number in the order of publication; 0 is the    *)
(* model made of the initial command line.  A publication replaces the     *)
(* resource at once (a PUT of a blob, a rename of a file).                 *)
(***************************************************************************)
EXTENDS Naturals, Sequences

CONSTANTS
  Users,       \* threads that take decisions
  Background,  \* model.backgroundrefresh
  Transport,   \* "http" or "file"
  Sizes,       \* sizes of models; 0 is a resource without content
  Ticks,       \* seconds of its clock between two changes of the resource
  Faults,      \* what may fail: a subset of {"transport", "update"}
  MaxPublish,  \* bound: publications
  MaxFaults    \* bound: requests, reads and constructions that fail

ASSUME RefreshAssumption ==
  /\ Background \in BOOLEAN
  /\ Transport \in {"http", "file"}
  /\ Sizes \subseteq Nat
  /\ Ticks \subseteq Nat
  /\ Faults \subseteq {"transport", "update"}
  /\ MaxPublish \in Nat
  /\ MaxFaults \in Nat

VARIABLES
  published,    \* the models published, with the stamp and size of the resource
  lastModified, \* _last_modified of the transport
  dataSize,     \* _datasz of the transport
  at,           \* per loader: the call of get_data or update it is in
  opened,       \* per loader: the model whose size (and file) it has
  stamped,      \* per loader: the model whose modification time it has
  got,          \* per loader: the model in its model_data
  fetched,      \* the model the transport returned last
  current,      \* the model of the pool's factory
  using,        \* per user: {}, or the set of the one model it ranks with
  ranked,       \* per user: the last model it ranked with
  faults        \* requests, reads and constructions that failed

transportVars == <<lastModified, dataSize, fetched>>
loaderVars    == <<at, opened, stamped, got>>
poolVars      == <<current, using>>
refreshVars   == <<published, transportVars, loaderVars, poolVars, ranked, faults>>

\* The background thread of _bg_model_proc, and the thread that calls
\* refresh_model (the application's, or the one in init_model_mgmt).
Loaders == {"poller", "caller"}

Pool == INSTANCE ModelRegister WITH Models <- Nat, InitialModel <- 0

Latest  == Len(published)
Stamp(n) == published[n].stamp
Size(n)  == published[n].size

\* vw_model::update can make a compatible workspace of it.
Usable(n) == Size(n) > 0 /\ published[n].good

Fault(kind) ==
  /\ kind \in Faults
  /\ faults < MaxFaults
  /\ faults' = faults + 1

Goto(l, place) == at' = [at EXCEPT ![l] = place]

\* Mutant: refresh_model does not look at _bg_model_proc.
MayLoad_Unguarded(l) == Background \/ l = "caller"

\* Polling and calls of refresh_model exclude each other.
MayLoad(l) == IF Background THEN l = "poller" ELSE l = "caller"

\* The transport has seen a resource of this time and size.
Unchanged(n, m) == lastModified = Stamp(n) /\ dataSize = Size(m)

-----------------------------------------------------------------------------

Init ==
  /\ published = <<>>
  /\ lastModified = 0 /\ dataSize = 0 /\ fetched = 0
  /\ at = [l \in Loaders |-> "idle"]
  /\ opened = [l \in Loaders |-> 0]
  /\ stamped = [l \in Loaders |-> 0]
  /\ got = [l \in Loaders |-> 0]
  /\ Pool!Init
  /\ ranked = [u \in Users |-> 0]
  /\ faults = 0

\* Whoever trains the models puts a new one in the place of the last.
Publish(tick, size, good) ==
  /\ Latest < MaxPublish
  /\ LET stamp == tick + IF Latest = 0 THEN 1 ELSE Stamp(Latest) IN
     published' = Append(published, [stamp |-> stamp, size |-> size, good |-> good])
  /\ UNCHANGED <<transportVars, loaderVars, poolVars, ranked, faults>>

-----------------------------------------------------------------------------
(* restapi_data_transport                                                  *)

\* get_data_info, by HEAD or else by GET, and the comparison in get_data.
GetDataInfo(l) ==
  /\ Transport = "http" /\ MayLoad(l)
  /\ at[l] = "idle"
  /\ Latest > 0
  /\ ~Unchanged(Latest, Latest)
  /\ Goto(l, "body")
  /\ UNCHANGED <<published, transportVars, opened, stamped, got, poolVars, ranked, faults>>

\* Neither the HEAD nor the GET tried in its place is answered.
GetDataInfoFails(l) ==
  /\ Transport = "http" /\ MayLoad(l)
  /\ at[l] = "idle"
  /\ Fault("transport")
  /\ UNCHANGED <<published, transportVars, loaderVars, poolVars, ranked>>

\* The response to the GET: its headers and body are of one model, not
\* necessarily the one that get_data_info has seen.
GetBody(l) ==
  /\ at[l] = "body"
  /\ got' = [got EXCEPT ![l] = Latest]
  /\ fetched' = Latest
  /\ lastModified' = Stamp(Latest)
  /\ IF Size(Latest) > 0
     THEN dataSize' = Size(Latest) /\ Goto(l, "update")
     ELSE Goto(l, "idle") /\ UNCHANGED dataSize
  /\ UNCHANGED <<published, opened, stamped, poolVars, ranked, faults>>

\* Mutant: the time and size are those of get_data_info, kept although the
\* body could not be read.
GetBodyFails_Remembers(l) ==
  /\ at[l] = "body"
  /\ Fault("transport")
  /\ lastModified' = Stamp(Latest) /\ dataSize' = Size(Latest)
  /\ Goto(l, "idle")
  /\ UNCHANGED <<published, fetched, opened, stamped, got, poolVars, ranked>>

\* A bad status, a missing header or an exception: reported, and tried again
\* by the next get_data.
GetBodyFails(l) ==
  /\ at[l] = "body"
  /\ Fault("transport")
  /\ Goto(l, "idle")
  /\ UNCHANGED <<published, transportVars, opened, stamped, got, poolVars, ranked>>

-----------------------------------------------------------------------------
(* file_model_loader                                                       *)

\* get_data opens the file and takes its size.
OpenFile(l) ==
  /\ Transport = "file" /\ MayLoad(l)
  /\ at[l] = "idle"
  /\ Latest > 0
  /\ opened' = [opened EXCEPT ![l] = Latest]
  /\ Goto(l, "stat")
  /\ UNCHANGED <<published, transportVars, stamped, got, poolVars, ranked, faults>>

\* get_file_modified_time asks for the file of that name anew.
StatFile(l) ==
  /\ at[l] = "stat"
  /\ stamped' = [stamped EXCEPT ![l] = Latest]
  /\ Goto(l, IF Unchanged(Latest, opened[l]) THEN "idle" ELSE "read")
  /\ UNCHANGED <<published, transportVars, opened, got, poolVars, ranked, faults>>

\* The file that was opened is read.
ReadFile(l) ==
  /\ at[l] = "read"
  /\ got' = [got EXCEPT ![l] = opened[l]]
  /\ fetched' = opened[l]
  /\ lastModified' = Stamp(stamped[l])
  /\ dataSize' = Size(opened[l])
  /\ Goto(l, "update")
  /\ UNCHANGED <<published, opened, stamped, poolVars, ranked, faults>>

\* stat or read fails.
FileFails(l) ==
  /\ at[l] \in {"stat", "read"}
  /\ Fault("transport")
  /\ Goto(l, "idle")
  /\ UNCHANGED <<published, transportVars, opened, stamped, got, poolVars, ranked>>

-----------------------------------------------------------------------------
(* live_model_impl, vw_model                                               *)

\* Mutant: the factory is installed before it has been tried.
Update_Untried(l) ==
  /\ at[l] = "update"
  /\ Pool!Replace(got[l])
  /\ Goto(l, "idle")
  /\ UNCHANGED <<published, transportVars, opened, stamped, got, ranked, faults>>

\* vw_model::update, called by handle_model_update or by refresh_model: a
\* model that is empty, does not load or is incompatible leaves the pool alone.
Update(l) ==
  /\ at[l] = "update"
  /\ IF Usable(got[l]) THEN Pool!Replace(got[l]) ELSE UNCHANGED poolVars
  /\ Goto(l, "idle")
  /\ UNCHANGED <<published, transportVars, opened, stamped, got, ranked, faults>>

\* The construction of a workspace throws though the model is sound.
UpdateFails(l) ==
  /\ at[l] = "update"
  /\ Fault("update")
  /\ Goto(l, "idle")
  /\ UNCHANGED <<published, transportVars, opened, stamped, got, poolVars, ranked>>

\* choose_rank takes a workspace from the pool, and gives it back.
BeginRank(u) ==
  /\ Pool!Take(u)
  /\ ranked' = [ranked EXCEPT ![u] = current]
  /\ UNCHANGED <<published, transportVars, loaderVars, faults>>

EndRank(u) ==
  /\ Pool!Release(u)
  /\ UNCHANGED <<published, transportVars, loaderVars, ranked, faults>>

-----------------------------------------------------------------------------

LoaderStep(l) ==
  \/ GetDataInfo(l) \/ GetDataInfoFails(l) \/ GetBody(l) \/ GetBodyFails(l)
  \/ OpenFile(l) \/ StatFile(l) \/ ReadFile(l) \/ FileFails(l)
  \/ Update(l) \/ UpdateFails(l)

Next ==
  \/ \E tick \in Ticks, size \in Sizes, good \in BOOLEAN : Publish(tick, size, good)
  \/ \E l \in Loaders : LoaderStep(l)
  \/ \E u \in Users : BeginRank(u) \/ EndRank(u)

Spec == Init /\ [][Next]_refreshVars

\* The background thread wakes up again after each interval, and its requests
\* end by themselves or by their timeout.
FairSpec == Spec /\ WF_refreshVars(LoaderStep("poller"))

-----------------------------------------------------------------------------
(* Properties                                                              *)

Models == 0..Latest

TypeOK ==
  /\ published \in Seq([stamp : Nat \ {0}, size : Nat, good : BOOLEAN])
  /\ lastModified \in Nat /\ dataSize \in Nat /\ fetched \in Models
  /\ at \in [Loaders -> {"idle", "body", "stat", "read", "update"}]
  /\ opened \in [Loaders -> Models]
  /\ stamped \in [Loaders -> Models]
  /\ got \in [Loaders -> Models]
  /\ current \in Models
  /\ using \in [Users -> SUBSET Models]
  /\ ranked \in [Users -> Models]
  /\ faults \in Nat

\* The inductive invariant: one loader at most is at work, and what it holds
\* is not older than the pool's model, which no thread has gone beyond.
OneLoader == \A l \in Loaders : at[l] # "idle" => MayLoad(l)

InOrder ==
  /\ \A l \in Loaders :
       /\ at[l] \in {"stat", "read"} => opened[l] >= 1 /\ current <= opened[l]
       /\ at[l] = "read" => stamped[l] >= 1
       /\ at[l] = "body" => Latest >= 1
       /\ at[l] = "update" => got[l] >= 1 /\ current <= got[l]
  /\ \A u \in Users : ranked[u] <= current

\* What a thread holds is what it ranked with last.
Holding == \A u \in Users : using[u] \in {{}, {ranked[u]}}

RefreshInv == TypeOK /\ OneLoader /\ InOrder /\ Holding

\* "If file has the same size and same timestamp, no need to reload": get_data
\* declares unchanged only what it returned last, also when the resource was
\* replaced between two of its requests.
NoNeedToReload ==
  \A n \in 1..Latest : Unchanged(n, n) => fetched = n

\* The pool's model was accepted by update: empty, corrupt and incompatible
\* models never decide.
ServedIsUsable == current = 0 \/ Usable(current)

\* A thread's decisions are never made with an older model than its last one.
DecisionsNeverGoBack ==
  [][\A u \in Users : ranked'[u] >= ranked[u]]_refreshVars

\* With background refresh a usable model that stays the published one is
\* served in the end.
ServesLatest ==
  \A n \in 1..MaxPublish :
    (Latest = n /\ Usable(n)) ~> (Latest > n \/ current = n)
=============================================================================
