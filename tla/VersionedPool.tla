----------------------------- MODULE VersionedPool -----------------------------
(***************************************************************************)
(* The versioned object pool, with which a vw_model lets many threads rank *)
(* while one replaces the model: utility/versioned_object_pool.h.          *)
(*                                                                         *)
(* An object is named by its number in the order of creation, its factory  *)
(* by the model it builds objects from.  Every operation holds the pool's  *)
(* mutex from its start to its end, so each is one step.  The pool is the  *)
(* set of its objects: nothing depends on which of them `get' takes.       *)
(***************************************************************************)
EXTENDS Naturals, FiniteSets

CONSTANTS
  Users,          \* threads that take objects, one at a time each
  Models,         \* models that factories build objects from
  InitialModel,   \* the model of the factory the pool is constructed with
  InitSize,       \* objects made by the constructor
  CanFail,        \* may a factory throw?
  MaxUpdates,     \* bound: versions of the pool
  MaxFailures     \* bound: calls of a factory that throw

ASSUME PoolAssumption ==
  /\ IsFiniteSet(Users)
  /\ InitialModel \in Models
  /\ InitSize \in Nat
  /\ CanFail \in BOOLEAN
  /\ MaxUpdates \in Nat
  /\ MaxFailures \in Nat

VARIABLES
  version,    \* _version
  model,      \* _factory: the model it builds from
  count,      \* _objects_count
  free,       \* _pool: the objects in it
  made,       \* number of objects ever made
  builtFrom,  \* per object: the model it was built from
  loan,       \* per user: the object it holds, or 0
  loanVersion,\* per user: current_version captured by the object's deleter
  deleted,    \* objects destroyed
  failures    \* calls of a factory that threw

poolVars == <<version, model, count, free, made, builtFrom, loan, loanVersion,
              deleted, failures>>

Objects == 1..made

\* A factory for m makes n objects.
Make(n, m) ==
  /\ made' = made + n
  /\ builtFrom' = [o \in 1..made + n |-> IF o \in Objects THEN builtFrom[o] ELSE m]

Fail ==
  /\ CanFail
  /\ failures < MaxFailures
  /\ failures' = failures + 1

Lend(u, o) ==
  /\ loan' = [loan EXCEPT ![u] = o]
  /\ loanVersion' = [loanVersion EXCEPT ![u] = version]

-----------------------------------------------------------------------------

Init ==
  /\ version = 0 /\ model = InitialModel
  /\ count = InitSize /\ made = InitSize
  /\ free = 1..InitSize
  /\ builtFrom = [o \in 1..InitSize |-> InitialModel]
  /\ loan = [u \in Users |-> 0] /\ loanVersion = [u \in Users |-> 0]
  /\ deleted = {} /\ failures = 0

\* get_or_create when the pool has an object.
Get(u, o) ==
  /\ loan[u] = 0
  /\ o \in free
  /\ free' = free \ {o}
  /\ Lend(u, o)
  /\ UNCHANGED <<version, model, count, made, builtFrom, deleted, failures>>

\* Mutant: create, and not only when the pool is empty.
Create_Always(u) ==
  /\ loan[u] = 0
  /\ count' = count + 1
  /\ Make(1, model)
  /\ Lend(u, made + 1)
  /\ UNCHANGED <<version, model, free, deleted, failures>>

\* get_or_create when it is empty.
Create(u) ==
  /\ loan[u] = 0
  /\ free = {}
  /\ count' = count + 1
  /\ Make(1, model)
  /\ Lend(u, made + 1)
  /\ UNCHANGED <<version, model, free, deleted, failures>>

\* The same when the factory throws: create has counted the object already.
CreateFails(u) ==
  /\ loan[u] = 0
  /\ free = {}
  /\ Fail
  /\ count' = count + 1
  /\ UNCHANGED <<version, model, free, made, builtFrom, loan, loanVersion, deleted>>

\* Mutant: the object goes back to the pool whatever its version.
Return_AnyVersion(u) ==
  /\ loan[u] # 0
  /\ free' = free \cup {loan[u]}
  /\ loan' = [loan EXCEPT ![u] = 0]
  /\ UNCHANGED <<version, model, count, made, builtFrom, loanVersion, deleted, failures>>

\* The deleter of the unique_ptr: return_to_pool with the captured version.
Return(u) ==
  /\ loan[u] # 0
  /\ IF loanVersion[u] = version
     THEN free' = free \cup {loan[u]} /\ UNCHANGED deleted
     ELSE deleted' = deleted \cup {loan[u]} /\ UNCHANGED free
  /\ loan' = [loan EXCEPT ![u] = 0]
  /\ UNCHANGED <<version, model, count, made, builtFrom, loanVersion, failures>>

\* update_factory: a new pool as large as the old one was, in its place.
UpdateFactory(m) ==
  /\ version < MaxUpdates
  /\ version' = version + 1
  /\ model' = m
  /\ Make(count, m)
  /\ free' = made + 1..made + count
  /\ deleted' = deleted \cup free
  /\ UNCHANGED <<count, loan, loanVersion, failures>>

\* Mutant: the objects built before the exception are lost.
UpdateFails_Leaks(m, n) ==
  /\ version < MaxUpdates
  /\ n < count
  /\ Fail
  /\ Make(n, m)
  /\ UNCHANGED <<version, model, count, free, loan, loanVersion, deleted>>

\* The same when the new factory throws after n objects: they are destroyed
\* with the new pool, and the old pool stays.
UpdateFails(m, n) ==
  /\ version < MaxUpdates
  /\ n < count
  /\ Fail
  /\ Make(n, m)
  /\ deleted' = deleted \cup made + 1..made + n
  /\ UNCHANGED <<version, model, count, free, loan, loanVersion>>

Next ==
  \/ \E u \in Users : Create(u) \/ CreateFails(u) \/ Return(u) \/ \E o \in free : Get(u, o)
  \/ \E m \in Models : UpdateFactory(m) \/ \E n \in 0..count : UpdateFails(m, n)

Spec == Init /\ [][Next]_poolVars

-----------------------------------------------------------------------------
(* Properties                                                              *)

TypeOK ==
  /\ version \in Nat
  /\ model \in Models
  /\ count \in Nat
  /\ made \in Nat
  /\ free \subseteq Objects
  /\ builtFrom \in [Objects -> Models]
  /\ loan \in [Users -> 0..made]
  /\ loanVersion \in [Users -> 0..version]
  /\ deleted \subseteq Objects
  /\ failures \in Nat

Borrowers == {u \in Users : loan[u] # 0}
Lent      == {loan[u] : u \in Borrowers}

\* The borrowers whose object will go back to the pool.
CurrentBorrowers == {u \in Borrowers : loanVersion[u] = version}

\* Every object has one owner: the pool, the one user that holds it, or none
\* because it was destroyed, once.  No two threads rank with one workspace,
\* and no object is leaked or destroyed under its user, also when the pool it
\* came from was replaced.
ObjectsAccounted ==
  /\ Objects = free \cup Lent \cup deleted
  /\ free \cap Lent = {} /\ free \cap deleted = {} /\ Lent \cap deleted = {}
  /\ \A u, w \in Borrowers : loan[u] = loan[w] => u = w

\* The pool holds objects of the current factory only, and so will it when
\* the users of this version have returned theirs.
FreeIsCurrent ==
  /\ \A o \in free : builtFrom[o] = model
  /\ \A u \in CurrentBorrowers : builtFrom[loan[u]] = model

\* _objects_count, with which the next pool is filled, is at least the number
\* of objects of this version in existence, and exceeds it by the creations
\* that failed only.
CountCovers ==
  /\ Cardinality(free) + Cardinality(CurrentBorrowers) <= count
  /\ count <= Cardinality(free) + Cardinality(CurrentBorrowers) + failures

\* A pool never counts more objects than the constructor made or users that
\* rank at once, but for one more with each failure, however many models it has
\* seen: update_factory carries the count over, while the old objects are out.
SizeBounded ==
  count <= InitSize + failures \/ count <= Cardinality(Users) + failures

\* The pool is a register of the model in force: who takes an object gets one
\* of the current model.
Register == INSTANCE ModelRegister WITH
  current <- model,
  using   <- [u \in Users |-> IF loan[u] = 0 THEN {} ELSE {builtFrom[loan[u]]}]

ImplementsRegister == Register!Spec
=============================================================================
