-------------------------- MODULE VersionedPoolProofs --------------------------
(***************************************************************************)
(* Proofs about VersionedPool, for any users, models and sizes.  The type  *)
(* invariant and the ownership of the objects come first; from them follow *)
(* what the pool holds, how large it grows, and that it is a register.     *)
(***************************************************************************)
EXTENDS VersionedPool, FiniteSetTheorems, TLAPS

\* What Make leaves: the objects made before keep their model, and the new
\* ones are built from m.
LEMMA MakeType ==
  ASSUME TypeOK, NEW n \in Nat, NEW m \in Models, Make(n, m)
  PROVE  /\ made' \in Nat
         /\ made' = made + n
         /\ builtFrom' \in [Objects' -> Models]
         /\ Objects \subseteq Objects'
         /\ made + 1..made + n \subseteq Objects'
         /\ Objects' = Objects \cup (made + 1..made + n)
         /\ Objects \cap (made + 1..made + n) = {}
         /\ \A o \in Objects : builtFrom'[o] = builtFrom[o]
         /\ \A o \in made + 1..made + n : builtFrom'[o] = m
BY DEF TypeOK, Make, Objects

\* The type invariant holds initially.
LEMMA InitType == Init => TypeOK
BY PoolAssumption DEF Init, TypeOK, Objects

\* The type invariant is preserved by every step.
LEMMA TypeStep == TypeOK /\ [Next]_poolVars => TypeOK'
<1> SUFFICES ASSUME TypeOK, [Next]_poolVars PROVE TypeOK'
  OBVIOUS
<1>1. ASSUME NEW u \in Users, NEW o \in free, Get(u, o) PROVE TypeOK'
  BY <1>1 DEF TypeOK, Get, Lend, Objects
<1>2. ASSUME NEW u \in Users, Create(u) PROVE TypeOK'
  <2>1. Make(1, model) /\ Lend(u, made + 1) /\ UNCHANGED <<version, model, free, deleted, failures>>
    BY <1>2 DEF Create
  <2>2. model \in Models /\ 1 \in Nat
    BY DEF TypeOK
  <2>3. made' = made + 1 /\ builtFrom' \in [Objects' -> Models] /\ Objects \subseteq Objects'
    BY <2>1, <2>2, MakeType
  <2>4. loan' \in [Users -> 0..made'] /\ loanVersion' \in [Users -> 0..version']
    BY <2>1, <2>3 DEF TypeOK, Lend
  <2>5. count' \in Nat
    BY <1>2 DEF Create, TypeOK
  <2> QED
    BY <2>1, <2>3, <2>4, <2>5 DEF TypeOK
<1>3. ASSUME NEW u \in Users, CreateFails(u) PROVE TypeOK'
  BY <1>3 DEF TypeOK, CreateFails, Fail, Objects
<1>4. ASSUME NEW u \in Users, Return(u) PROVE TypeOK'
  <2>1. loan[u] \in Objects /\ loan' \in [Users -> 0..made]
    BY <1>4 DEF TypeOK, Return, Objects
  <2>2. UNCHANGED <<version, model, count, made, builtFrom, loanVersion, failures>>
    BY <1>4 DEF Return
  <2>3. Objects' = Objects
    BY <2>2 DEF Objects
  <2>4. free' \subseteq Objects /\ deleted' \subseteq Objects
    BY <1>4, <2>1 DEF TypeOK, Return
  <2> QED
    BY <2>1, <2>2, <2>3, <2>4 DEF TypeOK
<1>5. ASSUME NEW m \in Models, UpdateFactory(m) PROVE TypeOK'
  <2>1. Make(count, m) /\ count \in Nat
    BY <1>5 DEF UpdateFactory, TypeOK
  <2>2. /\ made' \in Nat /\ made' = made + count
        /\ builtFrom' \in [Objects' -> Models]
        /\ Objects \subseteq Objects'
        /\ made + 1..made + count \subseteq Objects'
    BY <2>1, MakeType
  <2>3. free' \subseteq Objects' /\ deleted' \subseteq Objects'
    BY <1>5, <2>2 DEF UpdateFactory, TypeOK
  <2>4. loan' \in [Users -> 0..made'] /\ loanVersion' \in [Users -> 0..version']
    BY <1>5, <2>1, <2>2 DEF UpdateFactory, TypeOK
  <2> QED
    BY <1>5, <2>2, <2>3, <2>4 DEF UpdateFactory, TypeOK
<1>6. ASSUME NEW m \in Models, NEW n \in 0..count, UpdateFails(m, n) PROVE TypeOK'
  <2>1. Make(n, m) /\ n \in Nat
    BY <1>6 DEF UpdateFails, TypeOK
  <2>2. /\ made' \in Nat /\ made' = made + n
        /\ builtFrom' \in [Objects' -> Models]
        /\ Objects \subseteq Objects'
        /\ made + 1..made + n \subseteq Objects'
    BY <2>1, MakeType
  <2>3. free' \subseteq Objects' /\ deleted' \subseteq Objects'
    BY <1>6, <2>2 DEF UpdateFails, TypeOK
  <2>4. loan' \in [Users -> 0..made'] /\ loanVersion' \in [Users -> 0..version']
    BY <1>6, <2>1, <2>2 DEF UpdateFails, TypeOK
  <2> QED
    BY <1>6, <2>2, <2>3, <2>4 DEF UpdateFails, Fail, TypeOK
<1>7. CASE UNCHANGED poolVars
  BY <1>7 DEF TypeOK, poolVars, Objects
<1> QED
  BY <1>1, <1>2, <1>3, <1>4, <1>5, <1>6, <1>7 DEF Next

\* The variables of the pool keep their types: `get_or_create', the deleter
\* and `update_factory' in any order, with factories that fail or not.
THEOREM PoolTypeCorrect == Spec => []TypeOK
<1>1. Init => TypeOK
  BY InitType
<1>2. TypeOK /\ [Next]_poolVars => TypeOK'
  BY TypeStep
<1> QED
  BY <1>1, <1>2, PTL DEF Spec

-----------------------------------------------------------------------------

\* The borrowers of a step that takes no object and returns none.
LEMMA SameBorrowers ==
  ASSUME UNCHANGED loan
  PROVE  Borrowers' = Borrowers /\ Lent' = Lent
BY DEF Borrowers, Lent

\* The borrowers of a step that lends o to u.
LEMMA LendBorrowers ==
  ASSUME TypeOK, NEW u \in Users, NEW o \in Nat \ {0}, loan[u] = 0, Lend(u, o)
  PROVE  /\ Borrowers' = Borrowers \cup {u}
         /\ u \notin Borrowers
         /\ loan'[u] = o
         /\ \A w \in Borrowers : loan'[w] = loan[w]
         /\ Lent' = Lent \cup {o}
BY DEF TypeOK, Lend, Borrowers, Lent

\* The borrowers of a step in which u returns its object.
LEMMA ReturnBorrowers ==
  ASSUME TypeOK, ObjectsAccounted, NEW u \in Users, Return(u)
  PROVE  /\ Borrowers' = Borrowers \ {u}
         /\ u \in Borrowers
         /\ loan[u] \in Lent
         /\ \A w \in Borrowers' : loan'[w] = loan[w]
         /\ Lent' = Lent \ {loan[u]}
<1>1. loan' = [loan EXCEPT ![u] = 0] /\ loan[u] # 0
  BY DEF Return
<1>2. Borrowers' = Borrowers \ {u} /\ u \in Borrowers /\ loan[u] \in Lent
  BY <1>1 DEF TypeOK, Borrowers, Lent
<1>3. \A w \in Borrowers' : loan'[w] = loan[w]
  BY <1>1, <1>2 DEF TypeOK, Borrowers
<1>4. \A w \in Borrowers : loan[w] = loan[u] => w = u
  BY <1>2 DEF ObjectsAccounted
<1>5. Lent' = Lent \ {loan[u]}
  BY <1>2, <1>3, <1>4 DEF Lent
<1> QED
  BY <1>2, <1>3, <1>5

\* The objects of the pool have one owner each after every step.
LEMMA AccountedStep ==
  ASSUME TypeOK, ObjectsAccounted, [Next]_poolVars
  PROVE  ObjectsAccounted'
<1>1. ASSUME NEW u \in Users, NEW o \in free, Get(u, o) PROVE ObjectsAccounted'
  <2>1. o \in Nat \ {0} /\ loan[u] = 0 /\ Lend(u, o) /\ free' = free \ {o}
        /\ UNCHANGED <<made, deleted>>
    BY <1>1 DEF Get, TypeOK, Objects
  <2>2. /\ Borrowers' = Borrowers \cup {u} /\ loan'[u] = o
        /\ \A w \in Borrowers : loan'[w] = loan[w]
        /\ Lent' = Lent \cup {o}
    BY <2>1, LendBorrowers
  <2>3. \A w \in Borrowers : loan[w] \in Lent
    BY DEF Lent
  <2> QED
    BY <2>1, <2>2, <2>3 DEF ObjectsAccounted, Objects
<1>2. ASSUME NEW u \in Users, Create(u) PROVE ObjectsAccounted'
  <2>1. made + 1 \in Nat \ {0} /\ loan[u] = 0 /\ Lend(u, made + 1) /\ Make(1, model)
        /\ UNCHANGED <<free, deleted>> /\ model \in Models
    BY <1>2 DEF Create, TypeOK
  <2>2. /\ Borrowers' = Borrowers \cup {u} /\ loan'[u] = made + 1
        /\ \A w \in Borrowers : loan'[w] = loan[w]
        /\ Lent' = Lent \cup {made + 1}
    BY <2>1, LendBorrowers
  <2>3. Objects' = Objects \cup {made + 1} /\ made + 1 \notin Objects
    BY <2>1 DEF Make, Objects, TypeOK
  <2>4. Lent \subseteq Objects /\ free \subseteq Objects /\ deleted \subseteq Objects
    BY DEF ObjectsAccounted
  <2>5. \A w \in Borrowers : loan[w] \in Lent
    BY DEF Lent
  <2> QED
    BY <2>1, <2>2, <2>3, <2>4, <2>5 DEF ObjectsAccounted
<1>3. ASSUME NEW u \in Users, CreateFails(u) PROVE ObjectsAccounted'
  BY <1>3, SameBorrowers DEF CreateFails, ObjectsAccounted, Objects
<1>4. ASSUME NEW u \in Users, Return(u) PROVE ObjectsAccounted'
  <2>1. /\ Borrowers' = Borrowers \ {u} /\ loan[u] \in Lent
        /\ \A w \in Borrowers' : loan'[w] = loan[w]
        /\ Lent' = Lent \ {loan[u]}
    BY <1>4, ReturnBorrowers
  <2>2. \/ free' = free \cup {loan[u]} /\ UNCHANGED <<deleted, made>>
        \/ deleted' = deleted \cup {loan[u]} /\ UNCHANGED <<free, made>>
    BY <1>4 DEF Return
  <2> QED
    BY <2>1, <2>2 DEF ObjectsAccounted, Objects
<1>5. ASSUME NEW m \in Models, UpdateFactory(m) PROVE ObjectsAccounted'
  <2>1. Make(count, m) /\ count \in Nat /\ UNCHANGED loan
        /\ free' = made + 1..made + count /\ deleted' = deleted \cup free
    BY <1>5 DEF UpdateFactory, TypeOK
  <2>2. /\ Objects' = Objects \cup (made + 1..made + count)
        /\ Objects \cap (made + 1..made + count) = {}
    BY <2>1, MakeType
  <2>3. Borrowers' = Borrowers /\ Lent' = Lent
    BY <2>1, SameBorrowers
  <2>4. Lent \subseteq Objects /\ free \subseteq Objects /\ deleted \subseteq Objects
    BY DEF ObjectsAccounted
  <2> QED
    BY <2>1, <2>2, <2>3, <2>4 DEF ObjectsAccounted
<1>6. ASSUME NEW m \in Models, NEW n \in 0..count, UpdateFails(m, n) PROVE ObjectsAccounted'
  <2>1. Make(n, m) /\ n \in Nat /\ UNCHANGED <<loan, free>>
        /\ deleted' = deleted \cup made + 1..made + n
    BY <1>6 DEF UpdateFails, TypeOK
  <2>2. /\ Objects' = Objects \cup (made + 1..made + n)
        /\ Objects \cap (made + 1..made + n) = {}
    BY <2>1, MakeType
  <2>3. Borrowers' = Borrowers /\ Lent' = Lent
    BY <2>1, SameBorrowers
  <2>4. Lent \subseteq Objects /\ free \subseteq Objects /\ deleted \subseteq Objects
    BY DEF ObjectsAccounted
  <2> QED
    BY <2>1, <2>2, <2>3, <2>4 DEF ObjectsAccounted
<1>7. CASE UNCHANGED poolVars
  BY <1>7, SameBorrowers DEF poolVars, ObjectsAccounted, Objects
<1> QED
  BY <1>1, <1>2, <1>3, <1>4, <1>5, <1>6, <1>7 DEF Next

\* Every object has one owner: the pool, one user, or nobody after it was
\* destroyed, once.
THEOREM PoolAccounted == Spec => []ObjectsAccounted
<1>1. Init => ObjectsAccounted
  BY PoolAssumption DEF Init, ObjectsAccounted, Objects, Borrowers, Lent
<1>2. TypeOK /\ ObjectsAccounted /\ [Next]_poolVars => ObjectsAccounted'
  BY AccountedStep
<1> QED
  BY <1>1, <1>2, PoolTypeCorrect, PTL DEF Spec

-----------------------------------------------------------------------------

\* The users whose objects will go back to the pool, in a step that lends.
LEMMA LendCurrent ==
  ASSUME TypeOK, NEW u \in Users, NEW o \in Nat \ {0}, loan[u] = 0, Lend(u, o),
         UNCHANGED version
  PROVE  /\ CurrentBorrowers' = CurrentBorrowers \cup {u}
         /\ u \notin CurrentBorrowers
<1>1. Borrowers' = Borrowers \cup {u} /\ u \notin Borrowers
  BY LendBorrowers
<1>2. loanVersion'[u] = version /\ \A w \in Users \ {u} : loanVersion'[w] = loanVersion[w]
  BY DEF Lend, TypeOK
<1>3. Borrowers \subseteq Users \ {u}
  BY <1>1 DEF Borrowers
<1> QED
  BY <1>1, <1>2, <1>3 DEF CurrentBorrowers

\* The same in a step that returns.
LEMMA ReturnCurrent ==
  ASSUME TypeOK, ObjectsAccounted, NEW u \in Users, Return(u)
  PROVE  /\ CurrentBorrowers' = CurrentBorrowers \ {u}
         /\ u \in CurrentBorrowers <=> loanVersion[u] = version
<1>1. Borrowers' = Borrowers \ {u} /\ u \in Borrowers
  BY ReturnBorrowers
<1>2. UNCHANGED <<version, loanVersion>>
  BY DEF Return
<1> QED
  BY <1>1, <1>2 DEF CurrentBorrowers

\* The same in a step of update_factory: nobody holds an object of the new
\* version yet.
LEMMA UpdateCurrent ==
  ASSUME TypeOK, NEW m \in Models, UpdateFactory(m)
  PROVE  CurrentBorrowers' = {}
<1>1. version' = version + 1 /\ UNCHANGED loanVersion
  BY DEF UpdateFactory
<1>2. \A u \in Users : loanVersion[u] # version + 1
  BY DEF TypeOK
<1> QED
  BY <1>1, <1>2 DEF CurrentBorrowers, Borrowers

\* The pool and the objects that will come back hold the current model, after
\* every step.
LEMMA CurrentStep ==
  ASSUME TypeOK, ObjectsAccounted, FreeIsCurrent, [Next]_poolVars
  PROVE  FreeIsCurrent'
<1>1. ASSUME NEW u \in Users, NEW o \in free, Get(u, o) PROVE FreeIsCurrent'
  <2>1. /\ o \in Nat \ {0} /\ loan[u] = 0 /\ Lend(u, o) /\ free' = free \ {o}
        /\ UNCHANGED <<version, model, builtFrom>>
    BY <1>1 DEF Get, TypeOK, Objects
  <2>2. CurrentBorrowers' = CurrentBorrowers \cup {u}
    BY <2>1, LendCurrent
  <2>3. loan'[u] = o /\ \A w \in Borrowers : loan'[w] = loan[w]
    BY <2>1, LendBorrowers
  <2> QED
    BY <2>1, <2>2, <2>3 DEF FreeIsCurrent, CurrentBorrowers
<1>2. ASSUME NEW u \in Users, Create(u) PROVE FreeIsCurrent'
  <2>1. /\ made + 1 \in Nat \ {0} /\ loan[u] = 0 /\ Lend(u, made + 1) /\ Make(1, model)
        /\ UNCHANGED <<version, model, free>> /\ model \in Models
    BY <1>2 DEF Create, TypeOK
  <2>2. CurrentBorrowers' = CurrentBorrowers \cup {u}
    BY <2>1, LendCurrent
  <2>3. loan'[u] = made + 1 /\ \A w \in Borrowers : loan'[w] = loan[w]
    BY <2>1, LendBorrowers
  <2>4. /\ \A o \in Objects : builtFrom'[o] = builtFrom[o]
        /\ builtFrom'[made + 1] = model
    BY <2>1, MakeType DEF TypeOK
  <2>5. free \subseteq Objects /\ \A w \in Borrowers : loan[w] \in Objects
    BY DEF TypeOK, Borrowers, Objects
  <2> QED
    BY <2>1, <2>2, <2>3, <2>4, <2>5 DEF FreeIsCurrent, CurrentBorrowers
<1>3. ASSUME NEW u \in Users, CreateFails(u) PROVE FreeIsCurrent'
  BY <1>3 DEF CreateFails, FreeIsCurrent, CurrentBorrowers, Borrowers
<1>4. ASSUME NEW u \in Users, Return(u) PROVE FreeIsCurrent'
  <2>1. /\ CurrentBorrowers' = CurrentBorrowers \ {u}
        /\ u \in CurrentBorrowers <=> loanVersion[u] = version
    BY <1>4, ReturnCurrent
  <2>2. \A w \in Borrowers' : loan'[w] = loan[w]
    BY <1>4, ReturnBorrowers
  <2>3. \A o \in free' : o \in free \/ (u \in CurrentBorrowers /\ o = loan[u])
    BY <1>4, <2>1 DEF Return
  <2>4. UNCHANGED <<model, builtFrom>>
    BY <1>4 DEF Return
  <2>5. CurrentBorrowers' \subseteq Borrowers'
    BY DEF CurrentBorrowers
  <2> QED
    BY <2>1, <2>2, <2>3, <2>4, <2>5 DEF FreeIsCurrent
<1>5. ASSUME NEW m \in Models, UpdateFactory(m) PROVE FreeIsCurrent'
  <2>1. Make(count, m) /\ count \in Nat /\ model' = m /\ free' = made + 1..made + count
    BY <1>5 DEF UpdateFactory, TypeOK
  <2>2. \A o \in made + 1..made + count : builtFrom'[o] = m
    BY <2>1, MakeType
  <2>3. CurrentBorrowers' = {}
    BY <1>5, UpdateCurrent
  <2> QED
    BY <2>1, <2>2, <2>3 DEF FreeIsCurrent
<1>6. ASSUME NEW m \in Models, NEW n \in 0..count, UpdateFails(m, n) PROVE FreeIsCurrent'
  <2>1. Make(n, m) /\ n \in Nat /\ UNCHANGED <<version, model, free, loan, loanVersion>>
    BY <1>6 DEF UpdateFails, TypeOK
  <2>2. \A o \in Objects : builtFrom'[o] = builtFrom[o]
    BY <2>1, MakeType
  <2>3. free \subseteq Objects /\ \A w \in Borrowers : loan[w] \in Objects
    BY DEF TypeOK, Borrowers, Objects
  <2>4. CurrentBorrowers' = CurrentBorrowers /\ CurrentBorrowers \subseteq Borrowers
    BY <2>1 DEF CurrentBorrowers, Borrowers
  <2> QED
    BY <2>1, <2>2, <2>3, <2>4 DEF FreeIsCurrent
<1>7. CASE UNCHANGED poolVars
  BY <1>7 DEF poolVars, FreeIsCurrent, CurrentBorrowers, Borrowers
<1> QED
  BY <1>1, <1>2, <1>3, <1>4, <1>5, <1>6, <1>7 DEF Next

\* The pool never holds, nor will take back, an object of a replaced factory.
THEOREM PoolIsCurrent == Spec => []FreeIsCurrent
<1>1. Init => FreeIsCurrent
  BY DEF Init, FreeIsCurrent, CurrentBorrowers, Borrowers
<1>2. TypeOK /\ ObjectsAccounted /\ FreeIsCurrent /\ [Next]_poolVars => FreeIsCurrent'
  BY CurrentStep
<1> QED
  BY <1>1, <1>2, PoolTypeCorrect, PoolAccounted, PTL DEF Spec

-----------------------------------------------------------------------------

\* The sets that are counted are finite.
LEMMA PoolFinite ==
  ASSUME TypeOK
  PROVE  /\ IsFiniteSet(free) /\ Cardinality(free) \in Nat
         /\ IsFiniteSet(CurrentBorrowers) /\ Cardinality(CurrentBorrowers) \in Nat
         /\ Cardinality(CurrentBorrowers) <= Cardinality(Users)
         /\ Cardinality(Users) \in Nat
<1>1. IsFiniteSet(Objects)
  BY FS_Interval DEF TypeOK, Objects
<1>2. free \in SUBSET Objects
  BY DEF TypeOK
<1>3. IsFiniteSet(free)
  BY <1>1, <1>2, FS_Subset
<1>4. CurrentBorrowers \in SUBSET Users
  BY DEF CurrentBorrowers, Borrowers
<1>5. IsFiniteSet(CurrentBorrowers) /\ Cardinality(CurrentBorrowers) <= Cardinality(Users)
  BY <1>4, PoolAssumption, FS_Subset
<1> QED
  BY <1>3, <1>5, PoolAssumption, FS_CardinalityType

\* The count covers the objects in existence after every step.
LEMMA CoversStep ==
  ASSUME TypeOK, ObjectsAccounted, CountCovers, [Next]_poolVars
  PROVE  CountCovers'
<1> DEFINE F == Cardinality(free)
           B == Cardinality(CurrentBorrowers)
<1>0. /\ IsFiniteSet(free) /\ IsFiniteSet(CurrentBorrowers) /\ F \in Nat /\ B \in Nat
      /\ count \in Nat /\ failures \in Nat
      /\ F + B <= count /\ count <= F + B + failures
  BY PoolFinite DEF CountCovers, TypeOK
<1>1. ASSUME NEW u \in Users, NEW o \in free, Get(u, o) PROVE CountCovers'
  <2>1. /\ o \in Nat \ {0} /\ loan[u] = 0 /\ Lend(u, o) /\ free' = free \ {o}
        /\ UNCHANGED <<version, count, failures>>
    BY <1>1 DEF Get, TypeOK, Objects
  <2>2. CurrentBorrowers' = CurrentBorrowers \cup {u} /\ u \notin CurrentBorrowers
    BY <2>1, LendCurrent
  <2>3. Cardinality(free \ {o}) = F - 1
    BY <1>0, FS_RemoveElement
  <2>4. Cardinality(CurrentBorrowers \cup {u}) = B + 1
    BY <1>0, <2>2, FS_AddElement
  <2> QED
    BY <1>0, <2>1, <2>2, <2>3, <2>4 DEF CountCovers
<1>2. ASSUME NEW u \in Users, Create(u) PROVE CountCovers'
  <2>1. /\ made + 1 \in Nat \ {0} /\ loan[u] = 0 /\ Lend(u, made + 1)
        /\ UNCHANGED <<version, free, failures>> /\ count' = count + 1
    BY <1>2 DEF Create, TypeOK
  <2>2. CurrentBorrowers' = CurrentBorrowers \cup {u} /\ u \notin CurrentBorrowers
    BY <2>1, LendCurrent
  <2>3. Cardinality(CurrentBorrowers \cup {u}) = B + 1
    BY <1>0, <2>2, FS_AddElement
  <2> QED
    BY <1>0, <2>1, <2>2, <2>3 DEF CountCovers
<1>3. ASSUME NEW u \in Users, CreateFails(u) PROVE CountCovers'
  <2>1. /\ count' = count + 1 /\ failures' = failures + 1
        /\ UNCHANGED <<version, free, loan, loanVersion>>
    BY <1>3 DEF CreateFails, Fail
  <2>2. CurrentBorrowers' = CurrentBorrowers
    BY <2>1 DEF CurrentBorrowers, Borrowers
  <2> QED
    BY <1>0, <2>1, <2>2 DEF CountCovers
<1>4. ASSUME NEW u \in Users, Return(u) PROVE CountCovers'
  <2>1. /\ CurrentBorrowers' = CurrentBorrowers \ {u}
        /\ u \in CurrentBorrowers <=> loanVersion[u] = version
    BY <1>4, ReturnCurrent
  <2>2. loan[u] \notin free
    BY <1>4, ReturnBorrowers DEF ObjectsAccounted
  <2>3. UNCHANGED <<count, failures>>
    BY <1>4 DEF Return
  <2>4. CASE loanVersion[u] = version
    <3>1. free' = free \cup {loan[u]}
      BY <1>4, <2>4 DEF Return
    <3>2. Cardinality(free') = F + 1
      BY <1>0, <2>2, <3>1, FS_AddElement
    <3>3. Cardinality(CurrentBorrowers') = B - 1
      BY <1>0, <2>1, <2>4, FS_RemoveElement
    <3> QED
      BY <1>0, <2>3, <3>2, <3>3 DEF CountCovers
  <2>5. CASE loanVersion[u] # version
    <3>1. free' = free /\ CurrentBorrowers' = CurrentBorrowers
      BY <1>4, <2>1, <2>5 DEF Return
    <3> QED
      BY <1>0, <2>3, <3>1 DEF CountCovers
  <2> QED
    BY <2>4, <2>5
<1>5. ASSUME NEW m \in Models, UpdateFactory(m) PROVE CountCovers'
  <2>1. CurrentBorrowers' = {} /\ Cardinality({}) = 0
    BY <1>5, UpdateCurrent, FS_EmptySet
  <2>2. free' = made + 1..made + count /\ UNCHANGED <<count, failures>> /\ made \in Nat
    BY <1>5 DEF UpdateFactory, TypeOK
  <2>3. made + 1 \in Int /\ made + count \in Int
    BY <1>0, <2>2
  <2>4. Cardinality(made + 1..made + count) = count
    BY <1>0, <2>2, <2>3, FS_Interval
  <2> QED
    BY <1>0, <2>1, <2>2, <2>4 DEF CountCovers
<1>6. ASSUME NEW m \in Models, NEW n \in 0..count, UpdateFails(m, n) PROVE CountCovers'
  <2>1. /\ failures' = failures + 1
        /\ UNCHANGED <<version, count, free, loan, loanVersion>>
    BY <1>6 DEF UpdateFails, Fail
  <2>2. CurrentBorrowers' = CurrentBorrowers
    BY <2>1 DEF CurrentBorrowers, Borrowers
  <2> QED
    BY <1>0, <2>1, <2>2 DEF CountCovers
<1>7. CASE UNCHANGED poolVars
  BY <1>7 DEF poolVars, CountCovers, CurrentBorrowers, Borrowers
<1> QED
  BY <1>1, <1>2, <1>3, <1>4, <1>5, <1>6, <1>7 DEF Next

\* The count that fills the next pool covers the objects in existence, and
\* exceeds them by the failed creations only.
THEOREM PoolCount == Spec => []CountCovers
<1>1. Init => CountCovers
  <2> SUFFICES ASSUME Init PROVE CountCovers
    OBVIOUS
  <2>1. free = 1..InitSize /\ CurrentBorrowers = {} /\ count = InitSize /\ failures = 0
    BY DEF Init, CurrentBorrowers, Borrowers
  <2>2. Cardinality(1..InitSize) = InitSize
    BY PoolAssumption, FS_Interval
  <2> QED
    BY <2>1, <2>2, PoolAssumption, FS_EmptySet DEF CountCovers
<1>2. TypeOK /\ ObjectsAccounted /\ CountCovers /\ [Next]_poolVars => CountCovers'
  BY CoversStep
<1> QED
  BY <1>1, <1>2, PoolTypeCorrect, PoolAccounted, PTL DEF Spec

\* The size stays bounded in every step: a thread that creates an object finds
\* the pool empty and holds none, so that the count is that of the objects of
\* some other users, and of failures.
LEMMA BoundedStep ==
  ASSUME TypeOK, CountCovers, SizeBounded, [Next]_poolVars
  PROVE  SizeBounded'
<1>1. ASSUME NEW u \in Users, Create(u) \/ CreateFails(u)
      PROVE  count' <= Cardinality(Users) + failures'
  <2>1. free = {} /\ loan[u] = 0 /\ count' = count + 1 /\ failures' \in {failures, failures + 1}
    BY <1>1 DEF Create, CreateFails, Fail
  <2>2. CurrentBorrowers \in SUBSET Users /\ u \notin CurrentBorrowers
    BY <2>1 DEF CurrentBorrowers, Borrowers
  <2>3. Cardinality(CurrentBorrowers) < Cardinality(Users)
    BY <2>2, PoolAssumption, PoolFinite, FS_Subset, FS_CardinalityType
  <2>4. count <= Cardinality(CurrentBorrowers) + failures
    <3>1. Cardinality(free) = 0
      BY <2>1, FS_EmptySet
    <3> QED
      BY <3>1, PoolFinite DEF CountCovers, TypeOK
  <2> QED
    BY <2>1, <2>3, <2>4, PoolFinite DEF TypeOK
<1>2. ASSUME ~\E u \in Users : Create(u) \/ CreateFails(u)
      PROVE  count' = count /\ failures' \in {failures, failures + 1}
  BY <1>2 DEF Next, Get, Return, UpdateFactory, UpdateFails, Fail, poolVars
<1>3. /\ count \in Nat /\ failures \in Nat /\ InitSize \in Nat
      /\ Cardinality(Users) \in Nat
  BY PoolFinite, PoolAssumption DEF TypeOK
<1> QED
  BY <1>1, <1>2, <1>3 DEF SizeBounded

\* The pool never grows beyond its initial size or the number of threads, but
\* for one object with each failure.
THEOREM PoolSize == Spec => []SizeBounded
<1>1. Init => SizeBounded
  BY PoolAssumption DEF Init, SizeBounded
<1>2. TypeOK /\ CountCovers /\ SizeBounded /\ [Next]_poolVars => SizeBounded'
  BY BoundedStep
<1> QED
  BY <1>1, <1>2, PoolTypeCorrect, PoolCount, PTL DEF Spec

-----------------------------------------------------------------------------

\* Every step of the pool takes, releases or replaces in the register, or
\* leaves it alone.
LEMMA RegisterStep ==
  ASSUME TypeOK, FreeIsCurrent, [Next]_poolVars
  PROVE  [Register!Next]_(Register!register)
<1> DEFINE using == [u \in Users |-> IF loan[u] = 0 THEN {} ELSE {builtFrom[loan[u]]}]
<1>1. ASSUME NEW u \in Users, NEW o \in Nat \ {0}, loan[u] = 0, Lend(u, o),
             builtFrom'[o] = model, model' = model,
             \A x \in Objects : builtFrom'[x] = builtFrom[x]
      PROVE  Register!Take(u)
  <2>1. using[u] = {}
    BY <1>1
  <2>2. loan' = [loan EXCEPT ![u] = o]
    BY <1>1 DEF Lend
  <2>3. \A w \in Users : loan[w] # 0 => loan[w] \in Objects
    BY DEF TypeOK, Objects
  <2>4. using' = [using EXCEPT ![u] = {model}]
    BY <1>1, <2>2, <2>3 DEF TypeOK
  <2> QED
    BY <1>1, <2>1, <2>4 DEF Register!Take
<1>2. ASSUME NEW u \in Users, NEW o \in free, Get(u, o) PROVE Register!Take(u)
  BY <1>1, <1>2 DEF Get, TypeOK, Objects, FreeIsCurrent
<1>3. ASSUME NEW u \in Users, Create(u) PROVE Register!Take(u)
  <2>1. /\ made + 1 \in Nat \ {0} /\ loan[u] = 0 /\ Lend(u, made + 1) /\ Make(1, model)
        /\ model' = model /\ model \in Models
    BY <1>3 DEF Create, TypeOK
  <2>2. /\ \A o \in Objects : builtFrom'[o] = builtFrom[o]
        /\ builtFrom'[made + 1] = model
    BY <2>1, MakeType DEF TypeOK
  <2> QED
    BY <1>1, <2>1, <2>2
<1>4. ASSUME NEW u \in Users, Return(u) PROVE Register!Release(u)
  <2>1. loan[u] # 0 /\ loan' = [loan EXCEPT ![u] = 0] /\ UNCHANGED <<model, builtFrom>>
    BY <1>4 DEF Return
  <2>2. using[u] # {}
    BY <2>1
  <2>3. using' = [using EXCEPT ![u] = {}]
    BY <2>1 DEF TypeOK
  <2> QED
    BY <2>1, <2>2, <2>3 DEF Register!Release
<1>5. ASSUME \A x \in Objects : builtFrom'[x] = builtFrom[x], UNCHANGED loan
      PROVE  using' = using
  <2>1. \A u \in Users : loan[u] # 0 => builtFrom'[loan'[u]] = builtFrom[loan[u]]
    BY <1>5 DEF TypeOK, Objects
  <2>2. \A u \in Users : loan'[u] = loan[u]
    BY <1>5
  <2>3. \A u \in Users :
          (IF loan[u] = 0 THEN {} ELSE {builtFrom[loan[u]]})
            = (IF loan'[u] = 0 THEN {} ELSE {builtFrom'[loan'[u]]})
    BY <2>1, <2>2
  <2> QED
    BY <2>3
<1>6. ASSUME NEW m \in Models, UpdateFactory(m) PROVE Register!Replace(m)
  <2>1. Make(count, m) /\ count \in Nat /\ model' = m /\ UNCHANGED loan
    BY <1>6 DEF UpdateFactory, TypeOK
  <2>2. using' = using
    BY <1>5, <2>1, MakeType
  <2> QED
    BY <2>1, <2>2 DEF Register!Replace
<1>7. ASSUME NEW m \in Models, NEW n \in 0..count, UpdateFails(m, n)
      PROVE  UNCHANGED Register!register
  <2>1. Make(n, m) /\ n \in Nat /\ UNCHANGED <<model, loan>>
    BY <1>7 DEF UpdateFails, TypeOK
  <2>2. using' = using
    BY <1>5, <2>1, MakeType
  <2> QED
    BY <2>1, <2>2 DEF Register!register
<1>8. ASSUME NEW u \in Users, CreateFails(u) PROVE UNCHANGED Register!register
  BY <1>8 DEF CreateFails, Register!register
<1>9. CASE UNCHANGED poolVars
  BY <1>9 DEF poolVars, Register!register
<1> QED
  BY <1>2, <1>3, <1>4, <1>6, <1>7, <1>8, <1>9 DEF Next, Register!Next

\* The pool implements the register: who takes an object gets one of the model
\* in force, and keeps that model until it returns it.
THEOREM PoolRefinement == Spec => ImplementsRegister
<1>1. Init => Register!Init
  BY DEF Init, Register!Init
<1>2. TypeOK /\ FreeIsCurrent /\ [Next]_poolVars => [Register!Next]_(Register!register)
  BY RegisterStep
<1> QED
  BY <1>1, <1>2, PoolTypeCorrect, PoolIsCurrent, PTL DEF Spec, ImplementsRegister, Register!Spec
=============================================================================
