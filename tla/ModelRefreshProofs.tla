--------------------------- MODULE ModelRefreshProofs ---------------------------
(***************************************************************************)
(* What is proved about ModelRefresh, for any number of threads, any sizes *)
(* of models and any number of publications and failures.                  *)
(***************************************************************************)
EXTENDS ModelRefresh, TLAPS

Places   == {"idle", "body", "stat", "read", "update"}
Resource == [stamp : Nat \ {0}, size : Nat, good : BOOLEAN]

\* A publication leaves the models published before it as they were.
LEMMA PublishType ==
  ASSUME TypeOK, NEW tick \in Ticks, NEW size \in Sizes, NEW good \in BOOLEAN,
         Publish(tick, size, good)
  PROVE  /\ published' \in Seq(Resource)
         /\ Latest \in Nat /\ Latest' = Latest + 1
         /\ \A n \in 1..Latest : published'[n] = published[n]
         /\ published'[Latest + 1].stamp = tick + IF Latest = 0 THEN 1 ELSE Stamp(Latest)
<1> DEFINE stamp == tick + IF Latest = 0 THEN 1 ELSE Stamp(Latest)
           new == [stamp |-> stamp, size |-> size, good |-> good]
<1>1. published \in Seq(Resource) /\ Latest \in Nat
  BY DEF TypeOK, Resource, Latest
<1>2. Latest > 0 => published[Latest] \in Resource
  BY <1>1 DEF Latest
<1>3. stamp \in Nat \ {0} /\ size \in Nat
  BY <1>1, <1>2, RefreshAssumption DEF Resource, Stamp
<1>4. new \in Resource
  BY <1>3 DEF Resource
<1>5. published' = Append(published, new)
  BY DEF Publish
<1> HIDE DEF new
<1>6. /\ published' \in Seq(Resource) /\ Len(published') = Len(published) + 1
      /\ \A n \in 1..Len(published) : published'[n] = published[n]
      /\ published'[Len(published) + 1] = new
  BY <1>1, <1>4, <1>5
<1> QED
  BY <1>1, <1>2, <1>6 DEF Latest, Stamp, new, Resource

\* The type invariant holds initially.
LEMMA RefreshInitInv == Init => RefreshInv
<1> SUFFICES ASSUME Init PROVE RefreshInv
  OBVIOUS
<1>1. published = <<>> /\ Latest = 0 /\ Models = {0}
  BY DEF Init, Latest, Models
<1>2. TypeOK
  BY <1>1 DEF Init, TypeOK, Loaders, Pool!Init
<1>3. OneLoader /\ InOrder /\ Holding
  BY DEF Init, OneLoader, InOrder, Holding, Pool!Init
<1> QED
  BY <1>2, <1>3 DEF RefreshInv

\* The types survive the steps of a loader.
LEMMA LoaderType ==
  ASSUME TypeOK, InOrder, NEW l \in Loaders, LoaderStep(l)
  PROVE  TypeOK'
<1> USE DEF TypeOK, Models, transportVars, loaderVars, poolVars
<1>1. Latest \in Nat /\ published \in Seq(Resource)
  BY DEF Latest, Resource
<1>2. published' = published /\ Latest' = Latest
  BY DEF LoaderStep, GetDataInfo, GetDataInfoFails, GetBody, GetBodyFails, OpenFile, StatFile,
         ReadFile, FileFails, Update, UpdateFails, Latest
<1>3. ASSUME NEW n \in 1..Latest PROVE Stamp(n) \in Nat /\ Size(n) \in Nat
  <2>1. published[n] \in Resource
    BY <1>1 DEF Latest
  <2> QED
    BY <2>1 DEF Stamp, Size, Resource
<1>4. CASE GetDataInfo(l)
  BY <1>2, <1>4 DEF GetDataInfo, Goto
<1>5. CASE GetDataInfoFails(l)
  BY <1>2, <1>5 DEF GetDataInfoFails, Fault
<1>6. CASE GetBody(l)
  <2>1. Latest >= 1 /\ Stamp(Latest) \in Nat /\ Size(Latest) \in Nat
    BY <1>1, <1>3, <1>6 DEF GetBody, InOrder
  <2> QED
    BY <1>1, <1>2, <1>6, <2>1 DEF GetBody, Goto
<1>7. CASE GetBodyFails(l)
  BY <1>2, <1>7 DEF GetBodyFails, Goto, Fault
<1>8. CASE OpenFile(l)
  BY <1>1, <1>2, <1>8 DEF OpenFile, Goto
<1>9. CASE StatFile(l)
  BY <1>1, <1>2, <1>9 DEF StatFile, Goto
<1>10. CASE ReadFile(l)
  <2>1. opened[l] \in 1..Latest /\ stamped[l] \in 1..Latest
    BY <1>1, <1>10 DEF ReadFile, InOrder
  <2>2. Stamp(stamped[l]) \in Nat /\ Size(opened[l]) \in Nat
    BY <1>3, <2>1
  <2> QED
    BY <1>1, <1>2, <1>10, <2>1, <2>2 DEF ReadFile, Goto
<1>11. CASE FileFails(l)
  BY <1>2, <1>11 DEF FileFails, Goto, Fault
<1>12. CASE Update(l)
  BY <1>2, <1>12 DEF Update, Goto, Pool!Replace
<1>13. CASE UpdateFails(l)
  BY <1>2, <1>13 DEF UpdateFails, Goto, Fault
<1> QED
  BY <1>4, <1>5, <1>6, <1>7, <1>8, <1>9, <1>10, <1>11, <1>12, <1>13 DEF LoaderStep

\* The order survives the steps of a loader: the other one is idle.
LEMMA LoaderOrder ==
  ASSUME RefreshInv, NEW l \in Loaders, LoaderStep(l)
  PROVE  OneLoader' /\ InOrder' /\ Holding'
<1>1. Latest \in Nat /\ Latest' = Latest
  BY DEF LoaderStep, GetDataInfo, GetDataInfoFails, GetBody, GetBodyFails, OpenFile, StatFile,
         ReadFile, FileFails, Update, UpdateFails, Latest, RefreshInv, TypeOK
<1>2. MayLoad(l)
  BY DEF LoaderStep, GetDataInfo, GetDataInfoFails, GetBody, GetBodyFails, OpenFile, StatFile,
         ReadFile, FileFails, Update, UpdateFails, RefreshInv, OneLoader
<1>3. \A k \in Loaders \ {l} : at[k] = "idle"
  BY <1>2 DEF RefreshInv, OneLoader, MayLoad, Loaders
<1>4. /\ at \in [Loaders -> Places]
      /\ at' = at \/ \E place \in Places : at' = [at EXCEPT ![l] = place]
  <2>1. at \in [Loaders -> Places]
    BY DEF RefreshInv, TypeOK, Places
  <2>2. at' = at \/ \E place \in Places : Goto(l, place)
    BY DEF LoaderStep, GetDataInfo, GetDataInfoFails, GetBody, GetBodyFails, OpenFile,
           StatFile, ReadFile, FileFails, Update, UpdateFails, loaderVars, Places
  <2> QED
    BY <2>1, <2>2 DEF Goto
<1>5. \A k \in Loaders \ {l} : at'[k] = "idle"
  BY <1>3, <1>4
<1>6. OneLoader'
  BY <1>2, <1>5 DEF OneLoader, MayLoad
<1>7. Holding'
  <2>1. CASE UNCHANGED <<using, ranked>>
    BY <2>1 DEF RefreshInv, Holding
  <2> QED
    BY <2>1 DEF LoaderStep, GetDataInfo, GetDataInfoFails, GetBody, GetBodyFails, OpenFile,
                StatFile, ReadFile, FileFails, Update, UpdateFails, poolVars, Pool!Replace
<1> DEFINE Carries ==
      /\ at[l] \in {"stat", "read"} => opened[l] >= 1 /\ current <= opened[l]
      /\ at[l] = "read" => stamped[l] >= 1
      /\ at[l] = "body" => Latest >= 1
      /\ at[l] = "update" => got[l] >= 1 /\ current <= got[l]
<1>8. SUFFICES Carries' /\ \A u \in Users : ranked'[u] <= current'
  BY <1>5, <1>6, <1>7 DEF InOrder
<1>9. Carries /\ \A u \in Users : ranked[u] <= current
  BY DEF RefreshInv, InOrder
<1>10. /\ current \in 0..Latest /\ ranked \in [Users -> 0..Latest]
       /\ opened \in [Loaders -> 0..Latest] /\ stamped \in [Loaders -> 0..Latest]
       /\ got \in [Loaders -> 0..Latest] /\ at \in [Loaders -> Places]
  BY DEF RefreshInv, TypeOK, Models, Places
<1> USE <1>1, <1>9, <1>10 DEF Goto, Places, transportVars, loaderVars, poolVars
<1>11. CASE GetDataInfo(l)
  BY <1>11 DEF GetDataInfo
<1>12. CASE GetDataInfoFails(l)
  BY <1>12 DEF GetDataInfoFails
<1>13. CASE GetBody(l)
  BY <1>13 DEF GetBody
<1>14. CASE GetBodyFails(l)
  BY <1>14 DEF GetBodyFails
<1>15. CASE OpenFile(l)
  BY <1>15 DEF OpenFile
<1>16. CASE StatFile(l)
  <2>1. opened[l] >= 1 /\ opened[l] <= Latest
    BY <1>16 DEF StatFile
  <2> QED
    BY <1>16, <2>1 DEF StatFile
<1>17. CASE ReadFile(l)
  BY <1>17 DEF ReadFile
<1>18. CASE FileFails(l)
  BY <1>18 DEF FileFails
<1>19. CASE Update(l)
  <2>1. current' \in {current, got[l]} /\ current <= got[l]
    BY <1>19 DEF Update, Pool!Replace
  <2> QED
    BY <1>19, <2>1 DEF Update
<1>20. CASE UpdateFails(l)
  BY <1>20 DEF UpdateFails
<1> QED
  BY <1>11, <1>12, <1>13, <1>14, <1>15, <1>16, <1>17, <1>18, <1>19, <1>20 DEF LoaderStep

\* The invariant is preserved by every step.
LEMMA RefreshStep == RefreshInv /\ [Next]_refreshVars => RefreshInv'
<1> SUFFICES ASSUME RefreshInv, [Next]_refreshVars PROVE RefreshInv'
  OBVIOUS
<1>1. Latest \in Nat
  BY DEF RefreshInv, TypeOK, Latest
<1>2. ASSUME NEW tick \in Ticks, NEW size \in Sizes, NEW good \in BOOLEAN,
             Publish(tick, size, good)
      PROVE  RefreshInv'
  <2>1. published' \in Seq(Resource) /\ Latest' = Latest + 1
    BY <1>2, PublishType DEF RefreshInv
  <2>2. UNCHANGED <<transportVars, loaderVars, poolVars, ranked, faults>>
    BY <1>2 DEF Publish
  <2>3. Models \subseteq Models'
    BY <1>1, <2>1 DEF Models
  <2>4. TypeOK'
    BY <2>1, <2>2, <2>3 DEF RefreshInv, TypeOK, Resource, transportVars, loaderVars, poolVars
  <2>5. OneLoader' /\ InOrder' /\ Holding'
    BY <1>1, <2>1, <2>2 DEF RefreshInv, OneLoader, InOrder, Holding, transportVars,
                           loaderVars, poolVars
  <2> QED
    BY <2>4, <2>5 DEF RefreshInv
<1>3. ASSUME NEW l \in Loaders, LoaderStep(l) PROVE RefreshInv'
  BY <1>3, LoaderType, LoaderOrder DEF RefreshInv
<1>4. ASSUME NEW u \in Users, BeginRank(u) PROVE RefreshInv'
  <2>1. Latest' = Latest
    BY <1>4 DEF BeginRank, Latest
  <2>2. /\ using' = [using EXCEPT ![u] = {current}] /\ ranked' = [ranked EXCEPT ![u] = current]
        /\ UNCHANGED <<published, transportVars, loaderVars, faults, current>>
    BY <1>4 DEF BeginRank, Pool!Take
  <2>3. TypeOK'
    BY <2>1, <2>2 DEF RefreshInv, TypeOK, Models, transportVars, loaderVars
  <2>4. OneLoader'
    BY <2>2 DEF RefreshInv, OneLoader, MayLoad, loaderVars
  <2>5. InOrder'
    BY <1>1, <2>1, <2>2 DEF RefreshInv, TypeOK, Models, InOrder, loaderVars
  <2>6. Holding'
    BY <2>2 DEF RefreshInv, TypeOK, Holding
  <2> QED
    BY <2>3, <2>4, <2>5, <2>6 DEF RefreshInv
<1>5. ASSUME NEW u \in Users, EndRank(u) PROVE RefreshInv'
  <2>1. Latest' = Latest
    BY <1>5 DEF EndRank, Latest
  <2> QED
    BY <1>1, <1>5, <2>1 DEF RefreshInv, TypeOK, Models, OneLoader, InOrder, Holding, EndRank,
                          Pool!Release, transportVars, loaderVars, MayLoad
<1>6. CASE UNCHANGED refreshVars
  BY <1>6 DEF RefreshInv, TypeOK, Models, Latest, OneLoader, InOrder, Holding, refreshVars,
              transportVars, loaderVars, poolVars, MayLoad
<1> QED
  BY <1>2, <1>3, <1>4, <1>5, <1>6 DEF Next

\* Refreshing keeps its invariant: one loader at a time, whose model is not
\* older than the pool's, in every interleaving of publications, failures,
\* polls or calls of refresh_model, and rankings.
THEOREM RefreshInvariant == Spec => []RefreshInv
<1> QED
  BY RefreshInitInv, RefreshStep, PTL DEF Spec
\* What a thread ranks with is never older than what it ranked with before,
\* whichever way the models are refreshed.
THEOREM NeverGoBack == Spec => DecisionsNeverGoBack
<1>1. RefreshInv /\ [Next]_refreshVars => [\A u \in Users : ranked'[u] >= ranked[u]]_refreshVars
  <2> SUFFICES ASSUME RefreshInv, Next, NEW u \in Users PROVE ranked'[u] >= ranked[u]
    OBVIOUS
  <2>1. /\ Latest \in Nat /\ ranked \in [Users -> 0..Latest]
        /\ current \in 0..Latest /\ ranked[u] <= current
    BY DEF RefreshInv, TypeOK, Models, InOrder, Latest
  <2>2. CASE UNCHANGED ranked
    BY <2>1, <2>2
  <2>3. ASSUME NEW w \in Users, BeginRank(w) PROVE ranked'[u] >= ranked[u]
    BY <2>1, <2>3 DEF BeginRank
  <2>4. ASSUME NEW l \in Loaders, LoaderStep(l) PROVE UNCHANGED ranked
    BY <2>4 DEF LoaderStep, GetDataInfo, GetDataInfoFails, GetBody, GetBodyFails, OpenFile,
                StatFile, ReadFile, FileFails, Update, UpdateFails
  <2> QED
    BY <2>2, <2>3, <2>4 DEF Next, Publish, EndRank
<1> QED
  BY <1>1, RefreshInvariant, PTL DEF Spec, DecisionsNeverGoBack

\* An accepted model stays usable, and only an accepted one is installed.
LEMMA UsableStep ==
  RefreshInv /\ ServedIsUsable /\ [Next]_refreshVars => ServedIsUsable'
<1> SUFFICES ASSUME RefreshInv, ServedIsUsable, [Next]_refreshVars PROVE ServedIsUsable'
  OBVIOUS
<1>1. Latest \in Nat /\ current \in 0..Latest
  BY DEF RefreshInv, TypeOK, Models, Latest
<1>2. ASSUME NEW tick \in Ticks, NEW size \in Sizes, NEW good \in BOOLEAN,
             Publish(tick, size, good)
      PROVE  ServedIsUsable'
  <2>1. \A n \in 1..Latest : published'[n] = published[n]
    BY <1>2, PublishType DEF RefreshInv
  <2>2. current' = current
    BY <1>2 DEF Publish, poolVars
  <2> QED
    BY <1>1, <2>1, <2>2 DEF ServedIsUsable, Usable, Size
<1>3. CASE UNCHANGED <<published, current>>
  BY <1>3 DEF ServedIsUsable, Usable, Size
<1>4. ASSUME NEW l \in Loaders, Update(l) PROVE ServedIsUsable'
  BY <1>4 DEF Update, Pool!Replace, ServedIsUsable, Usable, Size, poolVars
<1>5. ASSUME NEW l \in Loaders, LoaderStep(l), ~Update(l)
      PROVE  UNCHANGED <<published, current>>
  BY <1>5 DEF LoaderStep, GetDataInfo, GetDataInfoFails, GetBody, GetBodyFails, OpenFile,
              StatFile, ReadFile, FileFails, UpdateFails, poolVars
<1>6. ASSUME NEW u \in Users, BeginRank(u) \/ EndRank(u) PROVE UNCHANGED <<published, current>>
  BY <1>6 DEF BeginRank, EndRank, Pool!Take, Pool!Release
<1> QED
  BY <1>2, <1>3, <1>4, <1>5, <1>6 DEF Next, refreshVars, poolVars

\* Decisions are made with the initial model or with one that update accepted.
THEOREM UsableServed == Spec => []ServedIsUsable
<1>1. Init => ServedIsUsable
  BY DEF Init, Pool!Init, ServedIsUsable
<1> QED
  BY <1>1, RefreshInvariant, UsableStep, PTL DEF Spec

\* What an HTTP transport remembers, when the resource's time advances with
\* each change: the time of the model it returned last.
Remembers ==
  /\ \A n, m \in 1..Latest : n < m => Stamp(n) < Stamp(m)
  /\ lastModified = IF fetched = 0 THEN 0 ELSE Stamp(fetched)

\* It opens no file.
NoFile == \A l \in Loaders : at[l] \in {"idle", "body", "update"}

\* No file is opened after any step.
LEMMA NoFileStep ==
  ASSUME Transport = "http", RefreshInv, NoFile, [Next]_refreshVars
  PROVE  NoFile'
<1>1. at \in [Loaders -> Places]
  BY DEF RefreshInv, TypeOK, Places
<1>2. CASE UNCHANGED at
  BY <1>2 DEF NoFile
<1>3. ASSUME NEW l \in Loaders, LoaderStep(l), ~UNCHANGED at
      PROVE  \E place \in {"idle", "body", "update"} : Goto(l, place)
  <2>1. at[l] \notin {"stat", "read"}
    BY DEF NoFile
  <2> QED
    BY <1>3, <2>1 DEF LoaderStep, GetDataInfo, GetDataInfoFails, GetBody, GetBodyFails, OpenFile,
                      StatFile, ReadFile, FileFails, Update, UpdateFails, loaderVars
<1>4. ASSUME NEW l \in Loaders, LoaderStep(l), ~UNCHANGED at PROVE NoFile'
  BY <1>1, <1>3, <1>4 DEF NoFile, Goto
<1> QED
  BY <1>2, <1>4 DEF Next, Publish, BeginRank, EndRank, refreshVars, loaderVars

\* The transport remembers so after every step.
LEMMA RemembersStep ==
  ASSUME Transport = "http", 0 \notin Ticks, RefreshInv, NoFile, Remembers,
         [Next]_refreshVars
  PROVE  Remembers'
<1>1. Latest \in Nat /\ fetched \in 0..Latest /\ published \in Seq(Resource)
  BY DEF RefreshInv, TypeOK, Models, Latest, Resource
<1>2. \A n \in 1..Latest : Stamp(n) \in Nat
  <2>1. \A n \in 1..Latest : published[n] \in Resource
    BY <1>1 DEF Latest
  <2> QED
    BY <2>1 DEF Stamp, Resource
<1>3. ASSUME NEW tick \in Ticks, NEW size \in Sizes, NEW good \in BOOLEAN,
             Publish(tick, size, good)
      PROVE  Remembers'
  <2>1. /\ Latest' = Latest + 1
        /\ \A n \in 1..Latest : published'[n] = published[n]
        /\ Latest > 0 => published'[Latest + 1].stamp = tick + Stamp(Latest)
    BY <1>1, <1>3, PublishType DEF RefreshInv
  <2>2. UNCHANGED <<lastModified, fetched>> /\ tick \in Nat /\ tick > 0
    BY <1>3, RefreshAssumption DEF Publish, transportVars
  <2>3. ASSUME NEW n \in 1..Latest + 1, NEW m \in 1..Latest + 1, n < m
        PROVE  published'[n].stamp < published'[m].stamp
    <3>1. CASE m \in 1..Latest
      BY <1>1, <2>1, <2>3, <3>1 DEF Remembers, Stamp
    <3>2. CASE m = Latest + 1
      <4>1. n \in 1..Latest /\ Latest \in 1..Latest
        BY <1>1, <2>3, <3>2
      <4>2. Stamp(n) <= Stamp(Latest)
        BY <1>1, <1>2, <4>1 DEF Remembers
      <4>3. Stamp(Latest) < published'[m].stamp
        BY <1>1, <1>2, <2>1, <2>2, <3>2, <4>1
      <4>4. published'[n].stamp = Stamp(n) /\ Stamp(n) \in Nat /\ Stamp(Latest) \in Nat
        BY <1>2, <2>1, <4>1 DEF Stamp
      <4>5. published'[m].stamp \in Nat
        BY <2>1, <2>2, <3>2, <4>1, <4>4
      <4> QED
        BY <4>2, <4>3, <4>4, <4>5
    <3> QED
      BY <1>1, <3>1, <3>2
  <2>4. lastModified' = IF fetched' = 0 THEN 0 ELSE published'[fetched'].stamp
    BY <1>1, <2>1, <2>2 DEF Remembers, Stamp
  <2> QED
    BY <2>1, <2>3, <2>4 DEF Remembers, Stamp
<1>4. CASE UNCHANGED <<published, lastModified, fetched>>
  BY <1>4 DEF Remembers, Stamp, Latest
<1>5. ASSUME NEW l \in Loaders, GetBody(l) PROVE Remembers'
  <2>1. Latest >= 1
    BY <1>5 DEF GetBody, RefreshInv, InOrder
  <2> QED
    BY <1>1, <1>5, <2>1 DEF GetBody, Remembers, Stamp, Latest
<1>6. ASSUME NEW l \in Loaders, LoaderStep(l), ~GetBody(l)
      PROVE  UNCHANGED <<published, lastModified, fetched>>
  <2>1. at[l] \notin {"stat", "read"}
    BY DEF NoFile
  <2> QED
    BY <1>6, <2>1 DEF LoaderStep, GetDataInfo, GetDataInfoFails, GetBodyFails, OpenFile, StatFile,
              ReadFile, FileFails, Update, UpdateFails, transportVars
<1>7. ASSUME NEW u \in Users, BeginRank(u) \/ EndRank(u)
      PROVE  UNCHANGED <<published, lastModified, fetched>>
  BY <1>7 DEF BeginRank, EndRank, transportVars
<1> QED
  BY <1>3, <1>4, <1>5, <1>6, <1>7 DEF Next, refreshVars, transportVars

\* What the transport remembers tells its last model from all others.
LEMMA RemembersReload == RefreshInv /\ Remembers => NoNeedToReload
<1> SUFFICES ASSUME RefreshInv, Remembers, NEW n \in 1..Latest, Unchanged(n, n)
             PROVE  fetched = n
  BY DEF NoNeedToReload
<1>1. Latest \in Nat /\ fetched \in 0..Latest /\ published \in Seq(Resource)
  BY DEF RefreshInv, TypeOK, Models, Latest, Resource
<1>2. \A m \in 1..Latest : Stamp(m) \in Nat \ {0}
  <2>1. \A m \in 1..Latest : published[m] \in Resource
    BY <1>1 DEF Latest
  <2> QED
    BY <2>1 DEF Stamp, Resource
<1>3. lastModified = Stamp(n)
  BY DEF Unchanged
<1>4. fetched \in 1..Latest /\ Stamp(fetched) = Stamp(n)
  BY <1>1, <1>2, <1>3 DEF Remembers
<1>5. ~(fetched < n) /\ ~(n < fetched)
  BY <1>2, <1>4 DEF Remembers
<1> QED
  BY <1>1, <1>4, <1>5

\* An HTTP transport that finds nothing new has returned the resource as it
\* is, however publications fall between its requests and whichever of these
\* fail, when the time of the resource advances with each publication.
THEOREM HttpReload ==
  ASSUME Transport = "http", 0 \notin Ticks
  PROVE  Spec => []NoNeedToReload
<1>1. Init => NoFile /\ Remembers
  BY DEF Init, NoFile, Remembers, Latest, Loaders
<1>2. RefreshInv /\ NoFile /\ Remembers /\ [Next]_refreshVars => NoFile' /\ Remembers'
  BY NoFileStep, RemembersStep
<1> QED
  BY <1>1, <1>2, RefreshInvariant, RemembersReload, PTL DEF Spec
=============================================================================
