----------------------------- MODULE DedupProofs -----------------------------
(***************************************************************************)
(* Proofs about Dedup: the references of the dictionary balance, no key is *)
(* ever missing, the receiver rebuilds what was sent, and the cache holds  *)
(* the last dictionary.                                                    *)
(*                                                                         *)
(* The loops over the actions of an event and over the ids of a dictionary *)
(* are folds.  What they compute is proved by induction on the number of   *)
(* steps, which is obtained from a minimal element: of a family of subsets *)
(* of a finite set one is minimal (SmallestSubset), so a set of indices    *)
(* that is not all of 0 .. n lacks a least one (BoundedInduction).         *)
(***************************************************************************)
EXTENDS Dedup, FiniteSetTheorems, SequenceTheorems, TLAPS

-----------------------------------------------------------------------------
(* Folds and induction                                                     *)

\* Of a family of subsets of a finite set, one is minimal: none of the family
\* is it without one of its elements.
LEMMA SmallestSubset ==
  ASSUME NEW S, IsFiniteSet(S), NEW B \in SUBSET SUBSET S, B # {}
  PROVE  \E u \in B : \A x \in u : u \ {x} \notin B
<1>1. B \subseteq FiniteSubsetsOf(S)
  BY FS_Subset DEF FiniteSubsetsOf
<1>2. PICK u \in B : \A y \in B : ~(<<y, u>> \in StrictSubsetOrdering(S))
  BY <1>1, FS_StrictSubsetOrderingWellFounded, WFMin
<1>3. ASSUME NEW x \in u, u \ {x} \in B PROVE FALSE
  <2>1. <<u \ {x}, u>> \in StrictSubsetOrdering(S)
    BY <1>1, <1>3 DEF StrictSubsetOrdering
  <2>. QED
    BY <1>2, <1>3, <2>1
<1>. QED
  BY <1>2, <1>3

\* Induction on a bounded index, over the set of the indices reached.
LEMMA BoundedInduction ==
  ASSUME NEW n \in Nat, NEW R, 0 \in R, \A k \in 1 .. n : k - 1 \in R => k \in R
  PROVE  \A k \in 0 .. n : k \in R
<1>. SUFFICES ASSUME NEW j \in 0 .. n, j \notin R PROVE FALSE
  OBVIOUS
<1>. DEFINE B == {s \in SUBSET (1 .. n) : \E k \in 1 .. n : k \notin R /\ s = 1 .. k}
<1>1. B # {}
  <2>1. j \in 1 .. n /\ 1 .. j \in SUBSET (1 .. n)
    OBVIOUS
  <2>. QED
    BY <2>1
<1>2. PICK u \in B : \A x \in u : u \ {x} \notin B
  <2>1. B \in SUBSET SUBSET (1 .. n) /\ IsFiniteSet(1 .. n)
    BY FS_Interval
  <2>. HIDE DEF B
  <2>. QED
    BY <1>1, <2>1, SmallestSubset
<1>3. PICK k \in 1 .. n : k \notin R /\ u = 1 .. k
  BY <1>2
<1>4. k - 1 \notin R /\ k - 1 \in 1 .. n
  BY <1>3
<1>5. (1 .. k) \ {k} = 1 .. (k - 1) /\ 1 .. (k - 1) \in SUBSET (1 .. n)
  OBVIOUS
<1>6. u \ {k} \in B
  BY <1>3, <1>4, <1>5
<1>7. k \in u
  BY <1>3
<1>. HIDE DEF B
<1>. QED
  BY <1>2, <1>6, <1>7

\* A set of indices has a greatest one.
LEMMA MaxIndex ==
  ASSUME NEW n \in Nat, NEW s \in SUBSET (1 .. n), s # {}
  PROVE  Max(s) \in s /\ \A y \in s : y <= Max(s)
<1>. DEFINE HasMax(t) == \E x \in t : \A y \in t : x >= y
            B == {t \in SUBSET (1 .. n) : t # {} /\ ~HasMax(t)}
<1>1. B = {}
  <2>0. SUFFICES ASSUME B # {} PROVE FALSE
    OBVIOUS
  <2>1. PICK u \in B : \A x \in u : u \ {x} \notin B
    <3>1. IsFiniteSet(1 .. n) /\ B \in SUBSET SUBSET (1 .. n)
      <4>1. IsFiniteSet(1 .. n)
        BY FS_Interval
      <4>. QED
        BY <4>1
    <3>. HIDE DEF B
    <3>. QED
      BY <2>0, <3>1, SmallestSubset
  <2>2. PICK x \in u : TRUE
    BY <2>1
  <2>3. u \ {x} # {}
    BY <2>1, <2>2
  <2>4. HasMax(u \ {x})
    BY <2>1, <2>2, <2>3
  <2>5. HasMax(u)
    BY <2>1, <2>2, <2>4
  <2>. QED
    BY <2>1, <2>5
<1>2. HasMax(s)
  BY <1>1
<1>. QED
  BY <1>2 DEF Max

\* The recursive function that a fold from the left is defined with, when F is
\* the step of its loop.
IsFold(h, V, n, base, F) ==
  /\ h \in [SUBSET (1 .. n) -> V]
  /\ \A s \in SUBSET (1 .. n) :
       h[s] = IF s = {} THEN base ELSE F[<<h[s \ {Max(s)}], Max(s)>>]

\* That function exists.
LEMMA FoldExists ==
  ASSUME NEW n \in Nat, NEW V, NEW base \in V, NEW F \in [V \X (1 .. n) -> V]
  PROVE  \E h : IsFold(h, V, n, base, F)
<1>. DEFINE Is(h, u) == /\ h \in [SUBSET u -> V]
                        /\ \A s \in SUBSET u :
                             h[s] = IF s = {} THEN base ELSE F[<<h[s \ {Max(s)}], Max(s)>>]
            B == {u \in SUBSET (1 .. n) : ~\E h : Is(h, u)}
<1>1. B = {}
  <2>0. SUFFICES ASSUME B # {} PROVE FALSE
    OBVIOUS
  <2>1. PICK u \in B : \A x \in u : u \ {x} \notin B
    <3>1. IsFiniteSet(1 .. n) /\ B \in SUBSET SUBSET (1 .. n)
      <4>1. IsFiniteSet(1 .. n)
        BY FS_Interval
      <4>. QED
        BY <4>1
    <3>. HIDE DEF B
    <3>. QED
      BY <2>0, <3>1, SmallestSubset
  <2>2. u # {}
    <3>1. Is([s \in SUBSET {} |-> base], {})
      OBVIOUS
    <3>. QED
      BY <2>1, <3>1
  <2>. DEFINE m == Max(u)
  <2>3. m \in u /\ \A y \in u : y <= m
    BY <2>1, <2>2, MaxIndex
  <2>4. PICK g : Is(g, u \ {m})
    BY <2>1, <2>3
  <2>. HIDE DEF m
  <2>. DEFINE h == [s \in SUBSET u |-> IF m \in s THEN F[<<g[s \ {m}], m>>] ELSE g[s]]
  <2>5. h \in [SUBSET u -> V]
    <3>1. ASSUME NEW s \in SUBSET u PROVE h[s] \in V
      BY <2>1, <2>3, <2>4
    <3>. QED
      BY <3>1
  <2>6. ASSUME NEW s \in SUBSET u
        PROVE  h[s] = IF s = {} THEN base ELSE F[<<h[s \ {Max(s)}], Max(s)>>]
    <3>1. CASE m \in s
      <4>1. Max(s) = m
        <5>1. Max(s) \in s /\ \A y \in s : y <= Max(s)
          BY <2>1, <3>1, MaxIndex
        <5>2. Max(s) \in 1 .. n /\ Max(s) \in u /\ m \in 1 .. n
          BY <2>1, <2>3, <5>1
        <5>. QED
          BY <2>3, <3>1, <5>1, <5>2
      <4>2. h[s \ {m}] = g[s \ {m}]
        OBVIOUS
      <4>. QED
        BY <3>1, <4>1, <4>2
    <3>2. CASE m \notin s
      <4>1. s \in SUBSET (u \ {m}) /\ s \ {Max(s)} \in SUBSET (u \ {m})
        BY <3>2
      <4>2. h[s] = g[s] /\ h[s \ {Max(s)}] = g[s \ {Max(s)}]
        BY <3>2, <4>1
      <4>. HIDE DEF h
      <4>. QED
        BY <2>4, <4>1, <4>2
    <3>. QED
      BY <3>1, <3>2
  <2>7. Is(h, u)
    BY <2>5, <2>6
  <2>8. u \in SUBSET (1 .. n) /\ ~\E g1 : Is(g1, u)
    BY <2>1
  <2>. HIDE DEF Is, h
  <2>. QED
    BY <2>7, <2>8
<1>2. PICK h : Is(h, 1 .. n)
  BY <1>1
<1>. QED
  BY <1>2 DEF IsFold

\* A prefix of the indices ends with its greatest.
LEMMA MaxOfPrefix ==
  ASSUME NEW n \in Nat, NEW k \in 1 .. n
  PROVE  /\ 1 .. k \in SUBSET (1 .. n) /\ 1 .. k # {}
         /\ Max(1 .. k) = k
         /\ (1 .. k) \ {Max(1 .. k)} = 1 .. (k - 1)
<1>1. 1 .. k \in SUBSET (1 .. n) /\ 1 .. k # {} /\ (1 .. k) \ {k} = 1 .. (k - 1)
  OBVIOUS
<1>2. Max(1 .. k) = k
  <2>1. Max(1 .. k) \in 1 .. k /\ \A y \in 1 .. k : y <= Max(1 .. k)
    BY <1>1, MaxIndex
  <2>. QED
    BY <2>1
<1>. QED
  BY <1>1, <1>2

-----------------------------------------------------------------------------
(* The dictionary                                                          *)

\* dedup_dict::dict_entry_t, and the dictionaries with such entries.
Entry == [count : Nat \ {0}, content : Objects]
Dicts == UNION {[D -> Entry] : D \in SUBSET Ids}

\* An entry stands under the id of its content.
Keyed(d) == \A i \in DOMAIN d : Hash[d[i].content] = i

\* The references of an id.
CountOf(d, i) == IF i \in DOMAIN d THEN d[i].count ELSE 0

\* An object's id is one of Ids.
LEMMA HashType == \A o \in Objects : Hash[o] \in Ids
BY DedupAssumption DEF DedupAssumption

\* What an entry of a dictionary is.
LEMMA DictType ==
  ASSUME NEW d \in Dicts
  PROVE  /\ DOMAIN d \in SUBSET Ids
         /\ d \in [DOMAIN d -> Entry]
         /\ \A i \in DOMAIN d : d[i].count \in Nat \ {0} /\ d[i].content \in Objects
         /\ \A i : CountOf(d, i) \in Nat
<1>1. d \in [DOMAIN d -> Entry] /\ DOMAIN d \in SUBSET Ids
  BY DEF Dicts
<1>2. \A i \in DOMAIN d : d[i].count \in Nat \ {0} /\ d[i].content \in Objects
  BY <1>1 DEF Entry
<1>. QED
  BY <1>1, <1>2 DEF CountOf

\* add_object counts one reference more for the object's id, and keeps the
\* content an id has.
LEMMA AddObjectType ==
  ASSUME NEW d \in Dicts, NEW o \in Objects
  PROVE  /\ AddObject(d, o) \in Dicts
         /\ Keyed(d) => Keyed(AddObject(d, o))
         /\ \A i : CountOf(AddObject(d, o), i) = CountOf(d, i) + (IF i = Hash[o] THEN 1 ELSE 0)
<1>. DEFINE h == Hash[o]
<1>1. h \in Ids
  BY HashType
<1>. HIDE DEF h
<1>2. CASE h \in DOMAIN d
  <2>. DEFINE e == [d EXCEPT ![h].count = @ + 1]
  <2>1. AddObject(d, o) = e
    BY <1>2 DEF AddObject, h
  <2>2. DOMAIN e = DOMAIN d /\ \A i \in DOMAIN d \ {h} : e[i] = d[i]
    BY DictType
  <2>3. e[h] = [d[h] EXCEPT !.count = @ + 1]
    BY <1>2, DictType
  <2>4. d[h] \in Entry
    BY <1>2, DictType
  <2>5. e[h] \in Entry /\ e[h].count = d[h].count + 1 /\ e[h].content = d[h].content
    BY <2>3, <2>4 DEF Entry
  <2>6. e \in [DOMAIN d -> Entry]
    <3>1. \A i \in DOMAIN d : e[i] \in Entry
      BY <2>2, <2>5, DictType
    <3>. QED
      BY <2>2, <3>1, DictType
  <2>7. e \in Dicts
    BY <2>6, DictType DEF Dicts
  <2>. HIDE DEF e
  <2>8. \A i : CountOf(e, i) = CountOf(d, i) + (IF i = h THEN 1 ELSE 0)
    <3>1. ASSUME NEW i PROVE CountOf(e, i) = CountOf(d, i) + (IF i = h THEN 1 ELSE 0)
      <4>1. CASE i = h
        BY <1>2, <2>2, <2>5, <4>1 DEF CountOf
      <4>2. CASE i # h
        <5>1. CountOf(e, i) = CountOf(d, i) /\ CountOf(d, i) \in Nat
          BY <2>2, <4>2, DictType DEF CountOf
        <5>. QED
          BY <4>2, <5>1
      <4>. QED
        BY <4>1, <4>2
    <3>. QED
      BY <3>1
  <2>9. Keyed(d) => Keyed(e)
    BY <2>2, <2>5 DEF Keyed
  <2>. QED
    BY <2>1, <2>7, <2>8, <2>9 DEF h
<1>3. CASE h \notin DOMAIN d
  <2>. DEFINE D == DOMAIN d \cup {h}
              e == [i \in D |-> IF i = h THEN [count |-> 1, content |-> o] ELSE d[i]]
  <2>1. AddObject(d, o) = e
    BY <1>3 DEF AddObject, h
  <2>2. DOMAIN e = D /\ \A i \in DOMAIN d : e[i] = d[i]
    BY <1>3
  <2>3. e[h] = [count |-> 1, content |-> o] /\ e[h] \in Entry
    BY DEF Entry
  <2>4. e \in [D -> Entry] /\ D \in SUBSET Ids
    <3>1. \A i \in D : e[i] \in Entry
      BY <2>2, <2>3, DictType
    <3>. QED
      BY <1>1, <3>1, DictType
  <2>5. e \in Dicts
    BY <2>4 DEF Dicts
  <2>6. h \in D /\ DOMAIN d \subseteq D /\ D \subseteq DOMAIN d \cup {h}
    OBVIOUS
  <2>. HIDE DEF e, D
  <2>7. \A i : CountOf(e, i) = CountOf(d, i) + (IF i = h THEN 1 ELSE 0)
    <3>1. ASSUME NEW i PROVE CountOf(e, i) = CountOf(d, i) + (IF i = h THEN 1 ELSE 0)
      <4>1. CASE i = h
        BY <1>3, <2>2, <2>3, <2>6, <4>1 DEF CountOf
      <4>2. CASE i # h
        <5>1. CountOf(e, i) = CountOf(d, i) /\ CountOf(d, i) \in Nat
          BY <2>2, <2>6, <4>2, DictType DEF CountOf
        <5>. QED
          BY <4>2, <5>1
      <4>. QED
        BY <4>1, <4>2
    <3>. QED
      BY <3>1
  <2>8. Keyed(d) => Keyed(e)
    BY <2>2, <2>3, <2>6 DEF Keyed, h
  <2>. QED
    BY <2>1, <2>5, <2>7, <2>8 DEF h
<1>. QED
  BY <1>2, <1>3

\* The loop of transform_payload_and_add_objects, one action after the other.
LEMMA AddObjectsSteps ==
  ASSUME NEW d \in Dicts, NEW objs \in Seq(Objects)
  PROVE  \E a \in [0 .. Len(objs) -> Dicts] :
           /\ a[0] = d
           /\ \A k \in 1 .. Len(objs) : a[k] = AddObject(a[k - 1], objs[k])
           /\ AddObjects(d, objs) = a[Len(objs)]
<1>. DEFINE n == Len(objs)
            F == [p \in Dicts \X (1 .. n) |-> AddObject(p[1], objs[p[2]])]
            Eq(h) == h = [s \in SUBSET DOMAIN objs |->
                            IF s = {} THEN d
                            ELSE AddObject(h[s \ {Max(s)}], objs[Max(s)])]
            f == CHOOSE h : Eq(h)
<1>1. n \in Nat /\ DOMAIN objs = 1 .. n
  OBVIOUS
<1>2. F \in [Dicts \X (1 .. n) -> Dicts]
  <2>1. ASSUME NEW x \in Dicts, NEW k \in 1 .. n PROVE AddObject(x, objs[k]) \in Dicts
    BY <1>1, AddObjectType
  <2>. QED
    BY <2>1
<1>3. \A x \in Dicts, k \in 1 .. n : F[<<x, k>>] = AddObject(x, objs[k])
  OBVIOUS
<1>. HIDE DEF F
<1>4. PICK g : IsFold(g, Dicts, n, d, F)
  <2>. HIDE DEF n
  <2>. QED
    BY <1>1, <1>2, FoldExists
<1>5. Eq(g)
  <2>0. /\ g \in [SUBSET (1 .. n) -> Dicts]
        /\ \A s \in SUBSET (1 .. n) :
             g[s] = IF s = {} THEN d ELSE F[<<g[s \ {Max(s)}], Max(s)>>]
    BY <1>4 DEF IsFold
  <2>1. ASSUME NEW s \in SUBSET (1 .. n), s # {}
        PROVE  g[s] = AddObject(g[s \ {Max(s)}], objs[Max(s)])
    <3>1. Max(s) \in 1 .. n
      BY <1>1, <2>1, MaxIndex
    <3>2. g[s \ {Max(s)}] \in Dicts
      BY <2>0
    <3>. HIDE DEF n
    <3>. QED
      BY <1>3, <2>0, <2>1, <3>1, <3>2
  <2>2. g[{}] = d
    BY <2>0
  <2>3. \A s \in SUBSET DOMAIN objs : g[s] = IF s = {} THEN d
                            ELSE AddObject(g[s \ {Max(s)}], objs[Max(s)])
    BY <1>1, <2>1, <2>2
  <2>. QED
    BY <1>1, <2>0, <2>3
<1>6. Eq(f)
  <2>. HIDE DEF Eq
  <2>. QED
    BY <1>5
<1>7. AddObjects(d, objs) = f[DOMAIN objs]
  BY DEF AddObjects, FoldLeft, MapThenFoldSet
<1>8. /\ f[1 .. 0] = d
      /\ \A k \in 1 .. n : f[1 .. k] = AddObject(f[1 .. (k - 1)], objs[k])
  <2>. HIDE DEF f
  <2>1. \A s \in SUBSET (1 .. n) : f[s] = IF s = {} THEN d
                            ELSE AddObject(f[s \ {Max(s)}], objs[Max(s)])
    BY <1>1, <1>6
  <2>2. 1 .. 0 = {} /\ {} \in SUBSET (1 .. n)
    OBVIOUS
  <2>3. f[1 .. 0] = d
    BY <2>1, <2>2
  <2>4. ASSUME NEW k \in 1 .. n PROVE f[1 .. k] = AddObject(f[1 .. (k - 1)], objs[k])
    BY <1>1, <2>1, MaxOfPrefix
  <2>. QED
    BY <2>3, <2>4
<1>. DEFINE a == [k \in 0 .. n |-> f[1 .. k]]
<1>. HIDE DEF f
<1>9. \A k \in 0 .. n : f[1 .. k] \in Dicts
  <2>. DEFINE R == {k \in Nat : f[1 .. k] \in Dicts}
  <2>1. 0 \in R
    BY <1>8
  <2>2. \A k \in 1 .. n : k - 1 \in R => k \in R
    BY <1>1, <1>8, AddObjectType
  <2>3. \A k \in 0 .. n : k \in R
    <3>. HIDE DEF R, n
    <3>. QED
      BY <1>1, <2>1, <2>2, BoundedInduction
  <2>. QED
    BY <2>3
<1>10. a \in [0 .. n -> Dicts] /\ a[0] = d /\ AddObjects(d, objs) = a[n]
  BY <1>1, <1>7, <1>8, <1>9
<1>11. \A k \in 1 .. n : a[k] = AddObject(a[k - 1], objs[k])
  BY <1>1, <1>8
<1>. QED
  BY <1>10, <1>11

\* How often an id occurs among the first k.
Occurrences(ids, k, i) == Cardinality({m \in 1 .. k : ids[m] = i})

\* One more place counts one more occurrence, or none.
LEMMA CountGrows ==
  ASSUME NEW ids, NEW i, NEW k \in Nat \ {0}
  PROVE  /\ Occurrences(ids, k - 1, i) \in Nat
         /\ Occurrences(ids, k, i)
              = Occurrences(ids, k - 1, i) + (IF ids[k] = i THEN 1 ELSE 0)
<1>. DEFINE S == {m \in 1 .. (k - 1) : ids[m] = i}
<1>1. IsFiniteSet(S) /\ Cardinality(S) \in Nat
  <2>1. IsFiniteSet(1 .. (k - 1))
    <3>1. PICK j \in Int : j = k - 1
      OBVIOUS
    <3>. QED
      BY <3>1, FS_Interval
  <2>2. IsFiniteSet(S)
    BY <2>1, FS_Subset
  <2>. HIDE DEF S
  <2>. QED
    BY <2>2, FS_CardinalityType
<1>2. Occurrences(ids, k - 1, i) = Cardinality(S)
  BY DEF Occurrences
<1>3. CASE ids[k] = i
  <2>1. {m \in 1 .. k : ids[m] = i} = S \cup {k} /\ k \notin S
    BY <1>3
  <2>2. Occurrences(ids, k, i) = Cardinality(S \cup {k})
    BY <2>1 DEF Occurrences
  <2>. HIDE DEF S
  <2>3. Cardinality(S \cup {k}) = Cardinality(S) + 1
    BY <1>1, <2>1, FS_AddElement
  <2>. QED
    BY <1>1, <1>2, <1>3, <2>2, <2>3
<1>4. CASE ids[k] # i
  <2>1. {m \in 1 .. k : ids[m] = i} = S
    BY <1>4
  <2>2. Occurrences(ids, k, i) = Cardinality(S)
    BY <2>1 DEF Occurrences
  <2>. HIDE DEF S
  <2>. QED
    BY <1>1, <1>2, <1>4, <2>2
<1>. QED
  BY <1>3, <1>4

\* An event adds one reference for each of its actions, and its objects
\* can be found under their ids.
LEMMA AddObjectsType ==
  ASSUME NEW d \in Dicts, Keyed(d), NEW objs \in Seq(Objects),
         NEW ids, ids = [k \in DOMAIN objs |-> Hash[objs[k]]]
  PROVE  /\ AddObjects(d, objs) \in Dicts
         /\ Keyed(AddObjects(d, objs))
         /\ \A i : CountOf(AddObjects(d, objs), i)
                     = CountOf(d, i) + Occurrences(ids, Len(objs), i)
<1>. DEFINE n == Len(objs)
            Inv(x, k) == /\ Keyed(x)
                         /\ \A i : CountOf(x, i) = CountOf(d, i) + Occurrences(ids, k, i)
<1>1. n \in Nat /\ DOMAIN objs = 1 .. n /\ DOMAIN ids = 1 .. n
  OBVIOUS
<1>2. PICK a \in [0 .. n -> Dicts] :
         /\ a[0] = d
         /\ \A k \in 1 .. n : a[k] = AddObject(a[k - 1], objs[k])
         /\ AddObjects(d, objs) = a[n]
  BY AddObjectsSteps
<1>3. Inv(a[0], 0)
  <2>1. ASSUME NEW i PROVE CountOf(d, i) = CountOf(d, i) + Occurrences(ids, 0, i)
    <3>1. {m \in 1 .. 0 : ids[m] = i} = {} /\ Cardinality({}) = 0
      BY FS_EmptySet
    <3>2. CountOf(d, i) \in Nat
      BY DictType
    <3>. QED
      BY <3>1, <3>2 DEF Occurrences
  <2>. QED
    BY <1>2, <2>1
<1>4. ASSUME NEW k \in 1 .. n, Inv(a[k - 1], k - 1) PROVE Inv(a[k], k)
  <2>1. a[k - 1] \in Dicts /\ objs[k] \in Objects /\ k \in Nat \ {0} /\ ids[k] = Hash[objs[k]]
    BY <1>1
  <2>2. /\ Keyed(a[k])
        /\ \A i : CountOf(a[k], i) = CountOf(a[k - 1], i) + (IF i = ids[k] THEN 1 ELSE 0)
    BY <1>2, <1>4, <2>1, AddObjectType
  <2>3. ASSUME NEW i PROVE CountOf(a[k], i) = CountOf(d, i) + Occurrences(ids, k, i)
    <3>1. CountOf(a[k - 1], i) = CountOf(d, i) + Occurrences(ids, k - 1, i)
      BY <1>4
    <3>2. /\ Occurrences(ids, k - 1, i) \in Nat
          /\ Occurrences(ids, k, i)
              = Occurrences(ids, k - 1, i) + (IF ids[k] = i THEN 1 ELSE 0)
      BY <2>1, CountGrows
    <3>3. CountOf(a[k], i) = CountOf(a[k - 1], i) + (IF i = ids[k] THEN 1 ELSE 0)
      BY <2>2
    <3>4. CountOf(d, i) \in Nat
      BY DictType
    <3>. QED
      BY <3>1, <3>2, <3>3, <3>4
  <2>. QED
    BY <2>2, <2>3
<1>. DEFINE R == {k \in 0 .. n : Inv(a[k], k)}
<1>5. \A k \in 0 .. n : k \in R
  <2>1. 0 \in R
    BY <1>1, <1>3
  <2>2. \A k \in 1 .. n : k - 1 \in R => k \in R
    <3>. HIDE DEF Inv
    <3>. QED
      BY <1>4
  <2>. HIDE DEF R, n
  <2>. QED
    BY <1>1, <2>1, <2>2, BoundedInduction
<1>6. n \in 0 .. n /\ Inv(a[n], n)
  <2>. HIDE DEF Inv
  <2>. QED
    BY <1>1, <1>5
<1>. QED
  BY <1>1, <1>2, <1>6

-----------------------------------------------------------------------------
(* The receiver's cache                                                    *)

\* An id that is in the list has its place there.
LEMMA PlaceType ==
  ASSUME NEW order \in Seq(Ids), NEW id \in ToSet(order)
  PROVE  Place(order, id) \in 1 .. Len(order) /\ order[Place(order, id)] = id
BY DEF Place, ToSet

\* A touched id goes to the front, everything else keeps its order, and what
\* stood before the id's old place moves back by one.
LEMMA TouchType ==
  ASSUME NEW order \in Seq(Ids), IsInjective(order), NEW id \in Ids
  PROVE  /\ Touch(order, id) \in Seq(Ids)
         /\ IsInjective(Touch(order, id))
         /\ ToSet(Touch(order, id)) = ToSet(order) \cup {id}
         /\ Touch(order, id)[1] = id
         /\ \A m \in 0 .. Len(order) : (\A j \in 1 .. m : order[j] # id) =>
               /\ m + 1 <= Len(Touch(order, id))
               /\ \A j \in 1 .. m : Touch(order, id)[j + 1] = order[j]
<1>. DEFINE L == Len(order)
<1>0. L \in Nat /\ DOMAIN order = 1 .. L /\ order \in [1 .. L -> Ids]
  OBVIOUS
<1>1. CASE id \notin ToSet(order)
  <2>. DEFINE r == <<id>> \o order
  <2>1. Touch(order, id) = r
    BY <1>1 DEF Touch
  <2>2. r \in Seq(Ids) /\ Len(r) = L + 1 /\ r[1] = id /\ \A j \in 1 .. L : r[j + 1] = order[j]
    OBVIOUS
  <2>3. \A j \in 1 .. L : order[j] # id
    BY <1>1 DEF ToSet
  <2>. HIDE DEF r
  <2>4. DOMAIN r = 1 .. L + 1 /\ \A j \in 2 .. L + 1 : r[j] = order[j - 1] /\ j - 1 \in 1 .. L
    <3>1. ASSUME NEW j \in 2 .. L + 1 PROVE r[j] = order[j - 1] /\ j - 1 \in 1 .. L
      <4>1. j - 1 \in 1 .. L /\ (j - 1) + 1 = j
        BY <1>0
      <4>. QED
        BY <2>2, <4>1
    <3>. QED
      BY <2>2, <3>1
  <2>5. IsInjective(r)
    <3>. SUFFICES ASSUME NEW x \in 1 .. L + 1, NEW y \in 1 .. L + 1, r[x] = r[y] PROVE x = y
      BY <2>4 DEF IsInjective
    <3>1. x = 1 \/ x \in 2 .. L + 1
      BY <1>0
    <3>2. y = 1 \/ y \in 2 .. L + 1
      BY <1>0
    <3>3. \A u, v \in 1 .. L : order[u] = order[v] => u = v
      BY <1>0 DEF IsInjective
    <3>4. CASE x = 1
      BY <2>2, <2>3, <2>4, <3>2, <3>4
    <3>5. CASE y = 1
      BY <2>2, <2>3, <2>4, <3>1, <3>5
    <3>6. CASE x \in 2 .. L + 1 /\ y \in 2 .. L + 1
      <4>1. x - 1 = y - 1
        BY <2>4, <3>3, <3>6
      <4>. QED
        BY <4>1
    <3>. QED
      BY <3>1, <3>2, <3>4, <3>5, <3>6
  <2>6. ToSet(r) = ToSet(order) \cup {id}
    <3>1. ASSUME NEW x \in ToSet(r) PROVE x \in ToSet(order) \cup {id}
      <4>1. PICK j \in 1 .. L + 1 : x = r[j]
        BY <2>4 DEF ToSet
      <4>2. j = 1 \/ j \in 2 .. L + 1
        BY <1>0
      <4>. QED
        BY <1>0, <2>2, <2>4, <4>1, <4>2 DEF ToSet
    <3>2. ASSUME NEW j \in 1 .. L PROVE order[j] \in ToSet(r)
      <4>1. j + 1 \in 1 .. L + 1
        BY <1>0
      <4>. QED
        BY <2>2, <2>4, <4>1 DEF ToSet
    <3>3. id \in ToSet(r)
      BY <1>0, <2>2, <2>4 DEF ToSet
    <3>. QED
      BY <1>0, <3>1, <3>2, <3>3 DEF ToSet
  <2>. QED
    BY <1>0, <2>1, <2>2, <2>5, <2>6
<1>2. CASE id \in ToSet(order)
  <2>. DEFINE n == Place(order, id)
              r == <<id>> \o RemoveAt(order, n)
              q == [m \in 1 .. L |-> IF m = 1 THEN id ELSE IF m <= n THEN order[m - 1] ELSE order[m]]
  <2>1. Touch(order, id) = r /\ n \in 1 .. L /\ order[n] = id
    BY <1>2, PlaceType DEF Touch
  <2>. HIDE DEF n
  <2>2. r = q
    <3>1. SubSeq(order, 1, n - 1) \in Seq(Ids) /\ Len(SubSeq(order, 1, n - 1)) = n - 1
          /\ \A j \in 1 .. n - 1 : SubSeq(order, 1, n - 1)[j] = order[j]
      BY <1>0, <2>1, SubSeqProperties
    <3>2. SubSeq(order, n + 1, L) \in Seq(Ids) /\ Len(SubSeq(order, n + 1, L)) = L - n
          /\ \A j \in 1 .. L - n : SubSeq(order, n + 1, L)[j] = order[n + j]
      <4>1. PICK k \in Int : k = n + 1
        BY <1>0, <2>1
      <4>2. /\ SubSeq(order, k, L) \in Seq(Ids)
            /\ Len(SubSeq(order, k, L)) = IF k <= L THEN L - k + 1 ELSE 0
            /\ \A j \in 1 .. L - k + 1 : SubSeq(order, k, L)[j] = order[k + j - 1]
        <5>1. \A x \in k .. L : order[x] \in Ids
          BY <1>0, <2>1, <4>1
        <5>. QED
          BY <1>0, <5>1, SubSeqProperties
      <4>3. L - k + 1 = L - n /\ (k <= L \/ L - n = 0)
        <5>1. L \in Nat /\ n \in Nat /\ n <= L
          BY <1>0, <2>1
        <5>. HIDE DEF L
        <5>. QED
          BY <4>1, <5>1
      <4>4. \A j \in 1 .. L - n : k + j - 1 = n + j
        BY <1>0, <2>1, <4>1
      <4>. QED
        BY <4>1, <4>2, <4>3, <4>4
    <3>. DEFINE s == RemoveAt(order, n)
    <3>3. s \in Seq(Ids) /\ Len(s) = L - 1
          /\ \A j \in 1 .. L - 1 : s[j] = IF j <= n - 1 THEN order[j] ELSE order[j + 1]
      <4>. DEFINE x == SubSeq(order, 1, n - 1)
                  y == SubSeq(order, n + 1, L)
      <4>1. s = x \o y
        BY DEF RemoveAt
      <4>. HIDE DEF x, y, s
      <4>2. /\ x \o y \in Seq(Ids)
            /\ Len(x \o y) = (n - 1) + (L - n)
            /\ \A j \in 1 .. (n - 1) + (L - n) :
                 (x \o y)[j] = IF j <= n - 1 THEN x[j] ELSE y[j - (n - 1)]
        <5>1. x \in Seq(Ids) /\ y \in Seq(Ids) /\ Len(x) = n - 1 /\ Len(y) = L - n
          BY <3>1, <3>2 DEF x, y
        <5>2. /\ x \o y \in Seq(Ids)
              /\ Len(x \o y) = Len(x) + Len(y)
              /\ \A j \in 1 .. Len(x) + Len(y) :
                   (x \o y)[j] = IF j <= Len(x) THEN x[j] ELSE y[j - Len(x)]
          BY <5>1, ConcatProperties
        <5>. QED
          BY <5>1, <5>2
      <4>3. (n - 1) + (L - n) = L - 1
        BY <1>0, <2>1
      <4>4. ASSUME NEW j \in 1 .. L - 1
            PROVE  s[j] = IF j <= n - 1 THEN order[j] ELSE order[j + 1]
        <5>1. CASE j <= n - 1
          <6>1. j \in 1 .. n - 1
            BY <1>0, <2>1, <5>1
          <6>. QED
            BY <3>1, <4>1, <4>2, <4>3, <5>1, <6>1 DEF x
        <5>2. CASE ~(j <= n - 1)
          <6>1. j - (n - 1) \in 1 .. L - n /\ n + (j - (n - 1)) = j + 1
            BY <1>0, <2>1, <5>2
          <6>2. y[j - (n - 1)] = order[j + 1]
            BY <3>2, <6>1 DEF y
          <6>. QED
            BY <4>1, <4>2, <4>3, <5>2, <6>2
        <5>. QED
          BY <5>1, <5>2
      <4>. QED
        BY <4>1, <4>2, <4>3, <4>4
    <3>. HIDE DEF s
    <3>4. <<id>> \o s \in Seq(Ids) /\ Len(<<id>> \o s) = L /\ \A j \in 1 .. L :
             (<<id>> \o s)[j] = IF j = 1 THEN id ELSE s[j - 1]
      <4>. DEFINE o == <<id>>
      <4>1. o \in Seq(Ids) /\ Len(o) = 1 /\ o[1] = id
        OBVIOUS
      <4>. HIDE DEF o
      <4>2. /\ o \o s \in Seq(Ids) /\ Len(o \o s) = 1 + (L - 1)
            /\ \A j \in 1 .. 1 + (L - 1) : (o \o s)[j] = IF j <= 1 THEN o[j] ELSE s[j - 1]
        <5>1. /\ o \o s \in Seq(Ids)
              /\ Len(o \o s) = Len(o) + Len(s)
              /\ \A j \in 1 .. Len(o) + Len(s) :
                   (o \o s)[j] = IF j <= Len(o) THEN o[j] ELSE s[j - Len(o)]
          BY <3>3, <4>1, ConcatProperties
        <5>. QED
          BY <3>3, <4>1, <5>1
      <4>3. 1 + (L - 1) = L /\ \A j \in 1 .. L : j <= 1 => j = 1
        BY <1>0
      <4>. QED
        BY <4>1, <4>2, <4>3 DEF o
    <3>5. \A j \in 1 .. L : (<<id>> \o s)[j] = q[j]
      BY <1>0, <2>1, <3>3, <3>4
    <3>. QED
      BY <3>4, <3>5 DEF s
  <2>3. /\ q \in [1 .. L -> Ids] /\ q \in Seq(Ids) /\ Len(q) = L /\ DOMAIN q = 1 .. L
        /\ q[1] = id
        /\ \A m \in 2 .. n : q[m] = order[m - 1]
        /\ \A m \in n + 1 .. L : q[m] = order[m]
    BY <1>0, <2>1
  <2>. HIDE DEF r, q
  <2>4. \A u, v \in 1 .. L : order[u] = order[v] => u = v
    BY <1>0 DEF IsInjective
  \* Where an entry comes from.
  <2>. DEFINE from(m) == IF m = 1 THEN n ELSE IF m <= n THEN m - 1 ELSE m
  <2>5. \A m \in 1 .. L : from(m) \in 1 .. L /\ q[m] = order[from(m)]
    <3>1. ASSUME NEW m \in 1 .. L PROVE from(m) \in 1 .. L /\ q[m] = order[from(m)]
      <4>1. m = 1 \/ m \in 2 .. n \/ m \in n + 1 .. L
        BY <1>0, <2>1
      <4>. QED
        BY <1>0, <2>1, <2>3, <4>1
    <3>. QED
      BY <3>1
  <2>6. \A x, y \in 1 .. L : from(x) = from(y) => x = y
    BY <1>0, <2>1
  <2>7. IsInjective(q)
    <3>. HIDE DEF from
    <3>. QED
      BY <2>3, <2>4, <2>5, <2>6 DEF IsInjective
  <2>8. ToSet(q) = ToSet(order) \cup {id}
    <3>1. \A m \in 1 .. L : q[m] \in ToSet(order)
      <4>. HIDE DEF from
      <4>. QED
        BY <1>0, <2>5 DEF ToSet
    <3>2. ASSUME NEW m \in 1 .. L PROVE order[m] \in ToSet(q)
      <4>1. CASE m = n
        BY <1>0, <2>1, <2>3, <4>1 DEF ToSet
      <4>2. CASE m < n
        <5>1. m + 1 \in 2 .. n /\ m + 1 \in 1 .. L /\ (m + 1) - 1 = m
          BY <1>0, <2>1, <4>2
        <5>2. q[m + 1] = order[m]
          BY <2>3, <5>1
        <5>. QED
          BY <2>3, <5>1, <5>2 DEF ToSet
      <4>3. CASE m > n
        <5>1. m \in n + 1 .. L
          BY <1>0, <2>1, <4>3
        <5>. QED
          BY <2>3, <5>1 DEF ToSet
      <4>. QED
        BY <2>1, <4>1, <4>2, <4>3
    <3>3. id \in ToSet(order)
      BY <1>2
    <3>4. ToSet(q) \subseteq ToSet(order)
      BY <2>3, <3>1 DEF ToSet
    <3>5. ToSet(order) \subseteq ToSet(q)
      BY <1>0, <3>2 DEF ToSet
    <3>. QED
      BY <3>3, <3>4, <3>5
  <2>9. ASSUME NEW m \in 0 .. L, \A j \in 1 .. m : order[j] # id
        PROVE  m + 1 <= L /\ \A j \in 1 .. m : q[j + 1] = order[j]
    <3>1. m < n
      BY <1>0, <2>1, <2>9
    <3>2. \A j \in 1 .. m : j + 1 \in 2 .. n /\ (j + 1) - 1 = j
      BY <1>0, <2>1, <3>1
    <3>. QED
      BY <1>0, <2>1, <2>3, <3>1, <3>2
  <2>. QED
    BY <2>1, <2>2, <2>3, <2>7, <2>8, <2>9
<1>. QED
  BY <1>1, <1>2

\* A list of cached ids, each once.
Orderings == {o \in Seq(Ids) : IsInjective(o)}

\* A touched list has each id once.
LEMMA TouchKeeps ==
  ASSUME NEW o \in Orderings, NEW id \in Ids
  PROVE  Touch(o, id) \in Orderings
BY TouchType DEF Orderings

\* The loop of process_dedup over the ids of a dictionary.
LEMMA TouchAllSteps ==
  ASSUME NEW o \in Orderings, NEW ids \in Seq(Ids)
  PROVE  \E a \in [0 .. Len(ids) -> Orderings] :
           /\ a[0] = o
           /\ \A k \in 1 .. Len(ids) : a[k] = Touch(a[k - 1], ids[k])
           /\ TouchAll(o, ids) = a[Len(ids)]
<1>. DEFINE n == Len(ids)
            F == [p \in Orderings \X (1 .. n) |-> Touch(p[1], ids[p[2]])]
            Eq(h) == h = [s \in SUBSET DOMAIN ids |->
                            IF s = {} THEN o
                            ELSE Touch(h[s \ {Max(s)}], ids[Max(s)])]
            f == CHOOSE h : Eq(h)
<1>1. n \in Nat /\ DOMAIN ids = 1 .. n /\ \A k \in 1 .. n : ids[k] \in Ids
  OBVIOUS
<1>2. F \in [Orderings \X (1 .. n) -> Orderings]
  <2>1. ASSUME NEW x \in Orderings, NEW k \in 1 .. n PROVE Touch(x, ids[k]) \in Orderings
    BY <1>1, TouchKeeps
  <2>. QED
    BY <2>1
<1>3. \A x \in Orderings, k \in 1 .. n : F[<<x, k>>] = Touch(x, ids[k])
  OBVIOUS
<1>. HIDE DEF F
<1>4. PICK g : IsFold(g, Orderings, n, o, F)
  <2>. HIDE DEF n
  <2>. QED
    BY <1>1, <1>2, FoldExists
<1>5. Eq(g)
  <2>0. /\ g \in [SUBSET (1 .. n) -> Orderings]
        /\ \A s \in SUBSET (1 .. n) :
             g[s] = IF s = {} THEN o ELSE F[<<g[s \ {Max(s)}], Max(s)>>]
    BY <1>4 DEF IsFold
  <2>1. ASSUME NEW s \in SUBSET (1 .. n), s # {}
        PROVE  g[s] = Touch(g[s \ {Max(s)}], ids[Max(s)])
    <3>1. Max(s) \in 1 .. n
      BY <1>1, <2>1, MaxIndex
    <3>2. g[s \ {Max(s)}] \in Orderings
      BY <2>0
    <3>. HIDE DEF n
    <3>. QED
      BY <1>3, <2>0, <2>1, <3>1, <3>2
  <2>2. g[{}] = o
    BY <2>0
  <2>3. \A s \in SUBSET DOMAIN ids : g[s] = IF s = {} THEN o
                            ELSE Touch(g[s \ {Max(s)}], ids[Max(s)])
    BY <1>1, <2>1, <2>2
  <2>. QED
    BY <1>1, <2>0, <2>3
<1>6. Eq(f)
  <2>. HIDE DEF Eq
  <2>. QED
    BY <1>5
<1>7. TouchAll(o, ids) = f[DOMAIN ids]
  BY DEF TouchAll, FoldLeft, MapThenFoldSet
<1>8. /\ f[1 .. 0] = o
      /\ \A k \in 1 .. n : f[1 .. k] = Touch(f[1 .. (k - 1)], ids[k])
  <2>. HIDE DEF f
  <2>1. \A s \in SUBSET (1 .. n) : f[s] = IF s = {} THEN o
                            ELSE Touch(f[s \ {Max(s)}], ids[Max(s)])
    BY <1>1, <1>6
  <2>2. 1 .. 0 = {} /\ {} \in SUBSET (1 .. n)
    OBVIOUS
  <2>3. f[1 .. 0] = o
    BY <2>1, <2>2
  <2>4. ASSUME NEW k \in 1 .. n PROVE f[1 .. k] = Touch(f[1 .. (k - 1)], ids[k])
    BY <1>1, <2>1, MaxOfPrefix
  <2>. QED
    BY <2>3, <2>4
<1>. DEFINE a == [k \in 0 .. n |-> f[1 .. k]]
<1>. HIDE DEF f
<1>9. \A k \in 0 .. n : f[1 .. k] \in Orderings
  <2>. DEFINE R == {k \in Nat : f[1 .. k] \in Orderings}
  <2>1. 0 \in R
    BY <1>8
  <2>2. \A k \in 1 .. n : k - 1 \in R => k \in R
    <3>1. ASSUME NEW k \in 1 .. n, f[1 .. (k - 1)] \in Orderings PROVE f[1 .. k] \in Orderings
      BY <1>1, <1>8, <3>1, TouchKeeps
    <3>. QED
      BY <1>1, <3>1
  <2>3. \A k \in 0 .. n : k \in R
    <3>. HIDE DEF R, n
    <3>. QED
      BY <1>1, <2>1, <2>2, BoundedInduction
  <2>. QED
    BY <2>3
<1>10. a \in [0 .. n -> Orderings] /\ a[0] = o /\ TouchAll(o, ids) = a[n]
  BY <1>1, <1>7, <1>8, <1>9
<1>11. \A k \in 1 .. n : a[k] = Touch(a[k - 1], ids[k])
  BY <1>1, <1>8
<1>. QED
  BY <1>10, <1>11

\* The loop leaves the ids of the dictionary in front, the first of them last.
LEMMA TouchAllType ==
  ASSUME NEW o \in Orderings, NEW ids \in Orderings
  PROVE  /\ TouchAll(o, ids) \in Orderings
         /\ ToSet(TouchAll(o, ids)) = ToSet(o) \cup ToSet(ids)
         /\ Len(ids) <= Len(TouchAll(o, ids))
         /\ \A j \in 1 .. Len(ids) : TouchAll(o, ids)[Len(ids) - j + 1] = ids[j]
<1>. DEFINE n == Len(ids)
            Reached(k) == {ids[j] : j \in 1 .. k}
            Inv(x, k) == /\ ToSet(x) = ToSet(o) \cup Reached(k)
                         /\ k <= Len(x)
                         /\ \A j \in 1 .. k : x[k - j + 1] = ids[j]
<1>1. /\ ids \in Seq(Ids) /\ n \in Nat /\ DOMAIN ids = 1 .. n
      /\ \A k \in 1 .. n : ids[k] \in Ids
      /\ \A j, k \in 1 .. n : ids[j] = ids[k] => j = k
  BY DEF Orderings, IsInjective
<1>2. PICK a \in [0 .. n -> Orderings] :
         /\ a[0] = o
         /\ \A k \in 1 .. n : a[k] = Touch(a[k - 1], ids[k])
         /\ TouchAll(o, ids) = a[n]
  BY <1>1, TouchAllSteps
<1>3. Inv(a[0], 0)
  <2>1. o \in Seq(Ids)
    BY DEF Orderings
  <2>. QED
    BY <1>2, <2>1
<1>4. ASSUME NEW k \in 1 .. n, Inv(a[k - 1], k - 1) PROVE Inv(a[k], k)
  <2>. DEFINE p == a[k - 1]
              q == a[k]
  <2>1. /\ p \in Seq(Ids) /\ IsInjective(p) /\ ids[k] \in Ids /\ q = Touch(p, ids[k])
        /\ k - 1 \in 0 .. Len(p) /\ q \in Seq(Ids)
    BY <1>1, <1>2, <1>4 DEF Orderings
  <2>2. ToSet(p) = ToSet(o) \cup Reached(k - 1)
        /\ \A j \in 1 .. k - 1 : p[(k - 1) - j + 1] = ids[j]
    BY <1>4
  <2>. HIDE DEF p, q
  <2>3. \A j \in 1 .. k - 1 : p[j] # ids[k]
    <3>1. ASSUME NEW j \in 1 .. k - 1 PROVE p[j] # ids[k]
      <4>1. PICK i \in 1 .. k - 1 : i = k - j /\ (k - 1) - i + 1 = j
        BY <1>1
      <4>2. p[j] = ids[i]
        BY <2>2, <4>1
      <4>3. i \in 1 .. n /\ i # k
        BY <1>1, <4>1
      <4>. QED
        BY <1>1, <4>2, <4>3
    <3>. QED
      BY <3>1
  <2>4. /\ ToSet(q) = ToSet(p) \cup {ids[k]}
        /\ q[1] = ids[k]
        /\ (k - 1) + 1 <= Len(q)
        /\ \A j \in 1 .. k - 1 : q[j + 1] = p[j]
    BY <2>1, <2>3, TouchType
  <2>5. ToSet(q) = ToSet(o) \cup Reached(k)
    <3>1. Reached(k) = Reached(k - 1) \cup {ids[k]}
      BY <1>1
    <3>. QED
      BY <2>2, <2>4, <3>1
  <2>6. k <= Len(q)
    BY <1>1, <2>4
  <2>7. ASSUME NEW j \in 1 .. k PROVE q[k - j + 1] = ids[j]
    <3>1. CASE j = k
      BY <1>1, <2>4, <3>1
    <3>2. CASE j # k
      <4>1. j \in 1 .. k - 1 /\ k - j \in 1 .. k - 1 /\ (k - 1) - j + 1 = k - j
        BY <1>1, <3>2
      <4>2. p[k - j] = ids[j]
        BY <2>2, <4>1
      <4>. QED
        BY <2>4, <4>1, <4>2
    <3>. QED
      BY <3>1, <3>2
  <2>. QED
    BY <2>5, <2>6, <2>7 DEF q
<1>. DEFINE R == {k \in 0 .. n : Inv(a[k], k)}
<1>5. \A k \in 0 .. n : k \in R
  <2>1. 0 \in R
    BY <1>1, <1>3
  <2>2. \A k \in 1 .. n : k - 1 \in R => k \in R
    <3>. HIDE DEF Inv
    <3>. QED
      BY <1>4
  <2>. HIDE DEF R, n
  <2>. QED
    BY <1>1, <2>1, <2>2, BoundedInduction
<1>6. n \in 0 .. n /\ Inv(a[n], n)
  <2>. HIDE DEF Inv
  <2>. QED
    BY <1>1, <1>5
<1>7. Reached(n) = ToSet(ids)
  BY <1>1 DEF ToSet
<1>. QED
  BY <1>2, <1>6, <1>7

\* clear_after with the first id of a dictionary keeps its ids and no other.
LEMMA ClearedType ==
  ASSUME NEW o \in Orderings, NEW ids \in Orderings, ids # <<>>
  PROVE  /\ ClearAfter(TouchAll(o, ids), ids[1]) \in Orderings
         /\ ToSet(ClearAfter(TouchAll(o, ids), ids[1])) = ToSet(ids)
<1>. DEFINE n == Len(ids)
            t == TouchAll(o, ids)
<1>1. ids \in Seq(Ids) /\ n \in Nat /\ 1 \in 1 .. n /\ DOMAIN ids = 1 .. n
  BY DEF Orderings
<1>2. /\ t \in Seq(Ids) /\ IsInjective(t) /\ n <= Len(t) /\ Len(t) \in Nat
      /\ DOMAIN t = 1 .. Len(t)
      /\ \A j \in 1 .. n : t[n - j + 1] = ids[j]
  BY TouchAllType DEF Orderings
<1>. HIDE DEF t
<1>3. n \in 1 .. Len(t) /\ t[n] = ids[1]
  <2>1. t[n - 1 + 1] = ids[1] /\ n - 1 + 1 = n
    BY <1>1, <1>2
  <2>. QED
    BY <1>1, <1>2, <2>1
<1>4. Place(t, ids[1]) = n
  <2>1. ids[1] \in ToSet(t)
    BY <1>2, <1>3 DEF ToSet
  <2>2. Place(t, ids[1]) \in 1 .. Len(t) /\ t[Place(t, ids[1])] = ids[1]
    BY <1>2, <2>1, PlaceType
  <2>. QED
    BY <1>2, <1>3, <2>2 DEF IsInjective
<1>. DEFINE c == SubSeq(t, 1, n)
<1>5. ClearAfter(t, ids[1]) = c
  BY <1>4 DEF ClearAfter
<1>6. c \in Seq(Ids) /\ Len(c) = n /\ DOMAIN c = 1 .. n /\ \A j \in 1 .. n : c[j] = t[j]
  BY <1>1, <1>2
<1>. HIDE DEF c
<1>7. IsInjective(c)
  BY <1>2, <1>6 DEF IsInjective
<1>8. \A j \in 1 .. n : n - j + 1 \in 1 .. n /\ n - (n - j + 1) + 1 = j
  BY <1>1
<1>9. ToSet(c) \subseteq ToSet(ids)
  <2>1. ASSUME NEW j \in 1 .. n PROVE c[j] = ids[n - j + 1]
    BY <1>2, <1>6, <1>8
  <2>. QED
    BY <1>1, <1>6, <1>8, <2>1 DEF ToSet
<1>10. ToSet(ids) \subseteq ToSet(c)
  <2>1. ASSUME NEW j \in 1 .. n PROVE ids[j] = c[n - j + 1]
    BY <1>2, <1>6, <1>8
  <2>. QED
    BY <1>1, <1>6, <1>8, <2>1 DEF ToSet
<1>. QED
  BY <1>5, <1>6, <1>7, <1>9, <1>10 DEF t, Orderings

-----------------------------------------------------------------------------
(* The inductive invariant                                                 *)

\* An event with the ids of its actions.
Submitted == {e \in [objs : Seq(Objects), ids : Seq(Ids)] :
                e.ids = [k \in DOMAIN e.objs |-> Hash[e.objs[k]]]}

\* A batch whose dictionary has the objects of its events under their ids.
Closed == {b \in [ids : Orderings, values : Seq(Objects), events : Seq(Submitted)] :
             /\ DOMAIN b.values = DOMAIN b.ids
             /\ \A k \in DOMAIN b.ids : Hash[b.values[k]] = b.ids[k]
             /\ \A k \in DOMAIN b.events : ToSet(b.events[k].ids) \subseteq ToSet(b.ids)}

\* An event that was rebuilt as well as object ids can tell.
Rebuilt == {d \in [saw : Seq(Objects), meant : Seq(Objects)] :
              /\ DOMAIN d.saw = DOMAIN d.meant
              /\ \A k \in DOMAIN d.saw : Hash[d.saw[k]] = Hash[d.meant[k]]}

\* The bounds of the model.
Counters == submitted \in 0 .. MaxEvents /\ faults \in 0 .. MaxFaults

\* Nothing of the open batch goes without a reference.
SenderInv ==
  /\ dict \in Dicts /\ Keyed(dict)
  /\ evt = None \/ evt \in Submitted
  /\ used \in [Ids -> Nat] /\ leaked \in [Ids -> Nat]
  /\ batch \in Seq(Submitted)
  /\ \A k \in DOMAIN batch : \A i \in ToSet(batch[k].ids) : used[i] > 0

\* References are those of the batch and the event, and the leaked ones.
Balanced == \A i \in Ids : CountOf(dict, i) = Held[i] + leaked[i]

\* The cache holds an object for every id of its list, under its own id.
CacheInv ==
  /\ lru \in Orderings
  /\ examples \in [ToSet(lru) -> Objects]
  /\ \A i \in DOMAIN examples : Hash[examples[i]] = i

DedupInv ==
  /\ Counters /\ SenderInv /\ Balanced /\ CacheInv
  /\ net \subseteq Closed
  /\ decoded \subseteq Rebuilt

\* The invariant holds at the start.
LEMMA InitInv == Init => DedupInv
<1>. SUFFICES ASSUME Init PROVE DedupInv
  OBVIOUS
<1>1. dict \in Dicts /\ Keyed(dict) /\ DOMAIN dict = {}
  <2>1. dict \in [{} -> Entry] /\ {} \in SUBSET Ids
    BY DEF Init
  <2>. QED
    BY <2>1 DEF Dicts, Keyed
<1>2. Counters
  BY DedupAssumption DEF DedupAssumption, Init, Counters
<1>3. SenderInv
  BY <1>1 DEF Init, SenderInv, Zero
<1>4. Balanced
  BY <1>1 DEF Init, Balanced, CountOf, Held, Zero
<1>5. CacheInv
  <2>1. lru \in Orderings /\ ToSet(lru) = {}
    BY DEF Init, Orderings, IsInjective, ToSet
  <2>2. examples \in [{} -> Objects] /\ DOMAIN examples = {}
    BY DEF Init
  <2>. QED
    BY <2>1, <2>2 DEF CacheInv
<1>. QED
  BY <1>2, <1>3, <1>4, <1>5 DEF DedupInv, Init

\* The event that waits is not None, and its ids are as many as its actions.
LEMMA SubmittedType ==
  ASSUME NEW e \in Submitted
  PROVE  /\ e # None
         /\ e.objs \in Seq(Objects) /\ e.ids \in Seq(Ids)
         /\ DOMAIN e.ids = DOMAIN e.objs /\ Len(e.ids) = Len(e.objs)
         /\ \A k \in DOMAIN e.objs : e.ids[k] = Hash[e.objs[k]]
BY DEF Submitted, None

\* transform makes an event whose ids are those of its actions.
LEMMA SubmittedNew ==
  ASSUME NEW objs \in Seq(Objects)
  PROVE  [objs |-> objs, ids |-> [i \in DOMAIN objs |-> Hash[objs[i]]]] \in Submitted
<1>1. [i \in DOMAIN objs |-> Hash[objs[i]]] \in Seq(Ids)
  BY HashType
<1>. QED
  BY <1>1 DEF Submitted

\* The builder counts each id of the event once for each action.
LEMMA CountIdsType ==
  ASSUME NEW counts \in [Ids -> Nat], NEW ids \in Seq(Ids)
  PROVE  /\ CountIds(counts, ids) \in [Ids -> Nat]
         /\ \A i \in Ids : /\ CountIds(counts, ids)[i] = counts[i] + Occurrences(ids, Len(ids), i)
                           /\ Occurrences(ids, Len(ids), i) \in Nat
         /\ \A i \in ToSet(ids) : CountIds(counts, ids)[i] > 0
<1>. DEFINE n == Len(ids)
<1>1. n \in Nat /\ DOMAIN ids = 1 .. n /\ IsFiniteSet(1 .. n)
  BY FS_Interval
<1>2. ASSUME NEW i \in Ids
      PROVE  /\ IsFiniteSet({k \in 1 .. n : ids[k] = i})
             /\ CountIds(counts, ids)[i] = counts[i] + Occurrences(ids, n, i)
             /\ Occurrences(ids, n, i) \in Nat
  <2>1. IsFiniteSet({k \in 1 .. n : ids[k] = i})
    BY <1>1, FS_Subset
  <2>2. Occurrences(ids, n, i) \in Nat
    BY <2>1, FS_CardinalityType DEF Occurrences
  <2>3. CountIds(counts, ids)[i] = counts[i] + Occurrences(ids, n, i)
    BY <1>1 DEF CountIds, Occurrences
  <2>. QED
    BY <2>1, <2>2, <2>3
<1>3. CountIds(counts, ids) \in [Ids -> Nat]
  <2>1. CountIds(counts, ids) = [i \in Ids |-> counts[i] + Occurrences(ids, n, i)]
    <3>1. \A i \in Ids : CountIds(counts, ids)[i] = counts[i] + Occurrences(ids, n, i)
      BY <1>2
    <3>2. CountIds(counts, ids) = [i \in Ids |-> CountIds(counts, ids)[i]]
      BY DEF CountIds
    <3>. QED
      BY <3>1, <3>2
  <2>2. ASSUME NEW i \in Ids PROVE counts[i] + Occurrences(ids, n, i) \in Nat
    <3>1. counts[i] \in Nat /\ Occurrences(ids, n, i) \in Nat
      BY <1>2
    <3>. QED
      BY <3>1
  <2>. QED
    BY <2>1, <2>2
<1>4. ASSUME NEW i \in ToSet(ids) PROVE CountIds(counts, ids)[i] > 0
  <2>1. PICK k \in 1 .. n : ids[k] = i
    BY <1>1 DEF ToSet
  <2>2. i \in Ids
    BY <1>1, <2>1
  <2>. DEFINE S == {m \in 1 .. n : ids[m] = i}
  <2>3. k \in S
    BY <2>1
  <2>4. Cardinality(S) # 0 /\ Cardinality(S) \in Nat
    BY <1>2, <2>2, <2>3, FS_EmptySet, FS_CardinalityType
  <2>5. Occurrences(ids, n, i) > 0
    BY <2>4 DEF Occurrences
  <2>6. /\ CountIds(counts, ids)[i] = counts[i] + Occurrences(ids, n, i)
        /\ Occurrences(ids, n, i) \in Nat /\ counts[i] \in Nat
    BY <1>2, <2>2
  <2>. QED
    BY <2>5, <2>6
<1>. QED
  BY <1>2, <1>3, <1>4

\* remove_object takes what is there, and drops an entry with its last reference.
LEMMA RemoveAllType ==
  ASSUME NEW d \in Dicts, Keyed(d), NEW counts \in [Ids -> Nat]
  PROVE  /\ RemoveAll(d, counts) \in Dicts
         /\ Keyed(RemoveAll(d, counts))
         /\ \A i \in Ids : counts[i] <= CountOf(d, i) =>
              CountOf(RemoveAll(d, counts), i) = CountOf(d, i) - counts[i]
<1>. DEFINE left(i) == d[i].count - Lesser(d[i].count, counts[i])
            D == {j \in DOMAIN d : left(j) > 0}
            e == [i \in D |-> [d[i] EXCEPT !.count = left(i)]]
<1>1. RemoveAll(d, counts) = e
  BY DEF RemoveAll
<1>2. ASSUME NEW i \in DOMAIN d
      PROVE  /\ i \in Ids /\ d[i] \in Entry /\ d[i].count \in Nat \ {0} /\ left(i) \in Nat
             /\ counts[i] <= d[i].count => left(i) = d[i].count - counts[i]
  <2>1. i \in Ids /\ d[i] \in Entry /\ d[i].count \in Nat \ {0} /\ counts[i] \in Nat
    BY DictType
  <2>. QED
    BY <2>1 DEF Lesser
<1>. HIDE DEF left
<1>3. ASSUME NEW i \in D
      PROVE  e[i] \in Entry /\ e[i].count = left(i) /\ e[i].content = d[i].content
  <2>1. e[i] = [d[i] EXCEPT !.count = left(i)] /\ left(i) \in Nat \ {0} /\ d[i] \in Entry
    BY <1>2, <1>3
  <2>. QED
    BY <2>1 DEF Entry
<1>4. e \in [D -> Entry] /\ D \in SUBSET Ids /\ DOMAIN e = D /\ D \subseteq DOMAIN d
  BY <1>2, <1>3
<1>5. \A i \in DOMAIN d : i \notin D => left(i) = 0
  BY <1>2
<1>. HIDE DEF e, D
<1>6. e \in Dicts
  BY <1>4 DEF Dicts
<1>7. Keyed(e)
  BY <1>3, <1>4 DEF Keyed
<1>8. ASSUME NEW i \in Ids, counts[i] <= CountOf(d, i)
      PROVE  CountOf(e, i) = CountOf(d, i) - counts[i]
  <2>1. CASE i \in D
    BY <1>2, <1>3, <1>4, <1>8, <2>1 DEF CountOf
  <2>2. CASE i \in DOMAIN d /\ i \notin D
    BY <1>2, <1>4, <1>5, <1>8, <2>2 DEF CountOf
  <2>3. CASE i \notin DOMAIN d
    BY <1>4, <1>8, <2>3 DEF CountOf
  <2>. QED
    BY <2>1, <2>2, <2>3
<1>. QED
  BY <1>1, <1>6, <1>7, <1>8

-----------------------------------------------------------------------------
(* The steps of the sender                                                 *)

\* An event goes into the dictionary and keeps the ids of its actions.
LEMMA TransformInv ==
  ASSUME DedupInv, NEW objs \in Contexts, Transform(objs)
  PROVE  Counters' /\ SenderInv' /\ Balanced'
<1>. DEFINE ids == [i \in DOMAIN objs |-> Hash[objs[i]]]
            e   == [objs |-> objs, ids |-> ids]
            d   == AddObjects(dict, objs)
<1>1. objs \in Seq(Objects)
  BY DedupAssumption DEF DedupAssumption
<1>2. e \in Submitted /\ e # None /\ ids \in Seq(Ids) /\ Len(ids) = Len(objs)
  <2>1. e \in Submitted /\ e.ids = ids /\ e.objs = objs
    BY <1>1, SubmittedNew
  <2>. QED
    BY <2>1, SubmittedType
<1>3. dict \in Dicts /\ Keyed(dict)
  BY DEF DedupInv, SenderInv
<1>4. /\ d \in Dicts /\ Keyed(d)
      /\ \A i : CountOf(d, i) = CountOf(dict, i) + Occurrences(ids, Len(objs), i)
  <2>1. ids = [k \in DOMAIN objs |-> Hash[objs[k]]]
    OBVIOUS
  <2>. HIDE DEF ids
  <2>. QED
    BY <1>1, <1>3, <2>1, AddObjectsType
<1>5. /\ dict' = d /\ evt' = e /\ evt = None /\ submitted' = submitted + 1
      /\ submitted < MaxEvents
      /\ UNCHANGED <<used, batch, leaked, faults>>
  BY DEF Transform
<1>. HIDE DEF d
<1>6. SenderInv'
  BY <1>2, <1>4, <1>5 DEF DedupInv, SenderInv
<1>7. Balanced'
  <2>1. Held = used /\ Held' = CountIds(used, ids)
    BY <1>2, <1>5 DEF Held
  <2>2. ASSUME NEW i \in Ids PROVE CountOf(d, i) = CountIds(used, ids)[i] + leaked[i]
    <3>. HIDE DEF ids
    <3>0. used \in [Ids -> Nat] /\ leaked \in [Ids -> Nat]
      BY DEF DedupInv, SenderInv
    <3>1. /\ CountIds(used, ids)[i] = used[i] + Occurrences(ids, Len(ids), i)
          /\ Occurrences(ids, Len(ids), i) \in Nat
      BY <1>2, <3>0, CountIdsType
    <3>2. CountOf(dict, i) = used[i] + leaked[i] /\ used[i] \in Nat /\ leaked[i] \in Nat
      BY <2>1, <3>0 DEF DedupInv, Balanced
    <3>. QED
      BY <1>2, <1>4, <3>1, <3>2
  <2>. HIDE DEF ids
  <2>. QED
    BY <1>5, <2>1, <2>2 DEF Balanced
<1>8. Counters'
  BY <1>5, DedupAssumption DEF DedupInv, Counters, DedupAssumption
<1>. QED
  BY <1>6, <1>7, <1>8

\* The event joins the batch, and its references those of the batch.
LEMMA AddToBatchInv ==
  ASSUME DedupInv, AddToBatch
  PROVE  Counters' /\ SenderInv' /\ Balanced'
<1>1. evt \in Submitted /\ evt.ids \in Seq(Ids)
  BY SubmittedType DEF DedupInv, SenderInv, AddToBatch
<1>2. /\ used' = CountIds(used, evt.ids) /\ batch' = Append(batch, evt) /\ evt' = None
      /\ UNCHANGED <<dict, submitted, faults, leaked>> /\ evt # None
  BY DEF AddToBatch
<1>3. /\ used' \in [Ids -> Nat]
      /\ \A i \in ToSet(evt.ids) : used'[i] > 0
      /\ \A i \in Ids : used'[i] >= used[i]
  <2>0. used \in [Ids -> Nat]
    BY DEF DedupInv, SenderInv
  <2>1. /\ used' \in [Ids -> Nat]
        /\ \A i \in ToSet(evt.ids) : used'[i] > 0
        /\ \A i \in Ids : /\ used'[i] = used[i] + Occurrences(evt.ids, Len(evt.ids), i)
                          /\ Occurrences(evt.ids, Len(evt.ids), i) \in Nat
    BY <1>1, <1>2, <2>0, CountIdsType
  <2>. QED
    BY <2>0, <2>1
<1>4. SenderInv'
  <2>1. batch' \in Seq(Submitted)
    BY <1>1, <1>2 DEF DedupInv, SenderInv
  <2>2. ASSUME NEW k \in DOMAIN batch', NEW i \in ToSet(batch'[k].ids) PROVE used'[i] > 0
    <3>1. CASE k \in DOMAIN batch
      <4>1. batch'[k] = batch[k] /\ batch[k] \in Submitted
        BY <1>1, <1>2, <3>1 DEF DedupInv, SenderInv
      <4>2. used[i] > 0 /\ i \in Ids
        BY <2>2, <3>1, <4>1, SubmittedType DEF DedupInv, SenderInv, ToSet
      <4>. QED
        BY <1>3, <4>2 DEF DedupInv, SenderInv
    <3>2. CASE k \notin DOMAIN batch
      <4>1. batch'[k] = evt
        BY <1>1, <1>2, <3>2 DEF DedupInv, SenderInv
      <4>. QED
        BY <1>3, <2>2, <4>1
    <3>. QED
      BY <3>1, <3>2
  <2>. QED
    BY <1>2, <1>3, <2>1, <2>2 DEF DedupInv, SenderInv
<1>5. Balanced'
  BY <1>2 DEF DedupInv, Balanced, Held
<1>. QED
  BY <1>2, <1>4, <1>5 DEF DedupInv, Counters

\* A failure moves the references of the event and of the batch to the leaked.
LEMMA FailInv ==
  ASSUME DedupInv, Fail
  PROVE  Counters' /\ SenderInv' /\ Balanced'
<1>1. evt \in Submitted /\ evt.ids \in Seq(Ids) /\ used \in [Ids -> Nat] /\ leaked \in [Ids -> Nat]
  BY SubmittedType DEF DedupInv, SenderInv, Fail
<1>2. /\ leaked' = [i \in Ids |-> leaked[i] + CountIds(used, evt.ids)[i]]
      /\ evt' = None /\ used' = Zero /\ batch' = <<>> /\ faults' = faults + 1
      /\ faults < MaxFaults
      /\ UNCHANGED <<dict, submitted>> /\ evt # None
  BY DEF Fail
<1>3. CountIds(used, evt.ids) \in [Ids -> Nat]
  BY <1>1, CountIdsType
<1>4. SenderInv'
  BY <1>1, <1>2, <1>3 DEF DedupInv, SenderInv, Zero
<1>5. Balanced'
  <2>1. ASSUME NEW i \in Ids PROVE CountOf(dict, i) = Zero[i] + leaked'[i]
    <3>1. CountOf(dict, i) = CountIds(used, evt.ids)[i] + leaked[i]
      BY <1>2 DEF DedupInv, Balanced, Held
    <3>2. leaked'[i] = leaked[i] + CountIds(used, evt.ids)[i] /\ Zero[i] = 0
      BY <1>2 DEF Zero
    <3>. QED
      BY <1>1, <1>3, <3>1, <3>2
  <2>. QED
    BY <1>2, <2>1 DEF Balanced, Held
<1>6. Counters'
  BY <1>2, DedupAssumption DEF DedupInv, Counters, DedupAssumption
<1>. QED
  BY <1>4, <1>5, <1>6

\* finalize takes every reference of the batch back.
LEMMA FinalizeInv ==
  ASSUME DedupInv, Finalize
  PROVE  Counters' /\ SenderInv' /\ Balanced'
<1>1. dict \in Dicts /\ Keyed(dict) /\ used \in [Ids -> Nat] /\ leaked \in [Ids -> Nat]
  BY DEF DedupInv, SenderInv
<1>2. /\ dict' = RemoveAll(dict, used) /\ used' = Zero /\ batch' = <<>>
      /\ UNCHANGED <<evt, submitted, leaked>> /\ evt = None
      /\ faults' = faults \/ (faults < MaxFaults /\ faults' = faults + 1)
  BY DEF Finalize
<1>3. ASSUME NEW i \in Ids
      PROVE  CountOf(dict, i) = used[i] + leaked[i] /\ used[i] <= CountOf(dict, i)
  BY <1>1, <1>2, <1>3 DEF DedupInv, Balanced, Held
<1>4. SenderInv'
  BY <1>1, <1>2, RemoveAllType DEF DedupInv, SenderInv, Zero
<1>5. Balanced'
  <2>1. ASSUME NEW i \in Ids PROVE CountOf(dict', i) = Zero[i] + leaked[i]
    <3>1. CountOf(dict', i) = CountOf(dict, i) - used[i]
      BY <1>1, <1>2, <1>3, RemoveAllType
    <3>. QED
      BY <1>1, <1>3, <3>1 DEF Zero
  <2>. QED
    BY <1>2, <2>1 DEF Balanced, Held
<1>6. Counters'
  BY <1>2, DedupAssumption DEF DedupInv, Counters, DedupAssumption
<1>. QED
  BY <1>4, <1>5, <1>6

\* A batch that leaves has a dictionary with the objects of its events: nothing
\* is taken out of the dictionary before the batch that needs it is closed.
LEMMA NetInv ==
  ASSUME DedupInv, Finalize
  PROVE  net' \subseteq Closed
<1>1. /\ dict \in Dicts /\ Keyed(dict) /\ used \in [Ids -> Nat]
      /\ batch \in Seq(Submitted) /\ net \subseteq Closed
  BY DEF DedupInv, SenderInv
<1>2. ASSUME NEW ids \in Orders(UsedIds)
      PROVE  [ids |-> ids, values |-> [i \in DOMAIN ids |-> dict[ids[i]].content],
              events |-> batch] \in Closed
  <2>. DEFINE values == [i \in DOMAIN ids |-> dict[ids[i]].content]
              n == Cardinality(UsedIds)
  <2>1. UsedIds \subseteq Ids /\ UsedIds \subseteq DOMAIN dict /\ IsFiniteSet(UsedIds) /\ n \in Nat
    <3>1. UsedIds \subseteq Ids /\ UsedIds \subseteq DOMAIN dict
      BY DEF UsedIds, Finalize
    <3>2. IsFiniteSet(UsedIds)
      BY <3>1, DedupAssumption, FS_Subset DEF DedupAssumption
    <3>. QED
      BY <3>1, <3>2, FS_CardinalityType
  <2>. HIDE DEF n
  <2>2. ids \in [1 .. n -> UsedIds] /\ IsInjective(ids) /\ DOMAIN ids = 1 .. n
    BY DEF Orders, n
  <2>3. ids \in Orderings
    BY <2>1, <2>2 DEF Orderings
  <2>4. ToSet(ids) = UsedIds
    <3>1. ids \in Injection(1 .. n, UsedIds)
      BY <2>2 DEF Injection
    <3>2. Cardinality(1 .. n) = n
      BY <2>1, FS_Interval
    <3>3. ids \in Surjection(1 .. n, UsedIds)
      BY <2>1, <3>1, <3>2, FS_Injection DEF n
    <3>. QED
      BY <2>2, <3>3 DEF Surjection, ToSet
  <2>5. ASSUME NEW k \in 1 .. n
        PROVE  values[k] \in Objects /\ Hash[values[k]] = ids[k]
    BY <1>1, <2>1, <2>2, DictType DEF Keyed
  <2>6. values \in Seq(Objects) /\ DOMAIN values = 1 .. n
    BY <2>1, <2>2, <2>5
  <2>7. ASSUME NEW k \in DOMAIN batch PROVE ToSet(batch[k].ids) \subseteq ToSet(ids)
    <3>1. batch[k] \in Submitted
      BY <1>1
    <3>2. ToSet(batch[k].ids) \subseteq Ids
      BY <3>1, SubmittedType DEF ToSet
    <3>3. \A i \in ToSet(batch[k].ids) : used[i] > 0
      BY DEF DedupInv, SenderInv
    <3>. QED
      BY <2>4, <3>2, <3>3 DEF UsedIds
  <2>. HIDE DEF values
  <2>. QED
    BY <1>1, <2>2, <2>3, <2>5, <2>6, <2>7 DEF Closed, values
<1>. QED
  BY <1>1, <1>2 DEF Finalize

-----------------------------------------------------------------------------
(* The steps of the receiver                                               *)

\* The cache after the first n objects of a dictionary were added to it.
LEMMA CachedType ==
  ASSUME CacheInv, NEW b \in Closed, NEW n \in 0 .. Len(b.ids)
  PROVE  LET c == Cached(b.ids, b.values, n)
         IN  /\ c \in [ToSet(lru) \cup {b.ids[k] : k \in 1 .. n} -> Objects]
             /\ \A i \in DOMAIN c : Hash[c[i]] = i
<1>. DEFINE c == Cached(b.ids, b.values, n)
            D == ToSet(lru) \cup {b.ids[k] : k \in 1 .. n}
<1>1. /\ b.ids \in Seq(Ids) /\ b.values \in Seq(Objects) /\ DOMAIN b.values = DOMAIN b.ids
      /\ \A k \in DOMAIN b.ids : Hash[b.values[k]] = b.ids[k]
  BY DEF Closed, Orderings
<1>2. 1 .. n \subseteq DOMAIN b.ids
  BY <1>1
<1>3. DOMAIN examples = ToSet(lru) /\ DOMAIN c = D
  BY DEF CacheInv, Cached
<1>4. ASSUME NEW i \in D PROVE c[i] \in Objects /\ Hash[c[i]] = i
  <2>1. CASE i \in DOMAIN examples
    <3>1. c[i] = examples[i]
      BY <1>3, <2>1 DEF Cached
    <3>. QED
      BY <2>1, <3>1 DEF CacheInv
  <2>2. CASE i \notin DOMAIN examples
    <3>. DEFINE j == CHOOSE k \in 1 .. n : b.ids[k] = i
    <3>1. c[i] = b.values[j]
      BY <1>3, <2>2 DEF Cached
    <3>2. j \in 1 .. n /\ b.ids[j] = i
      BY <1>3, <2>2
    <3>. HIDE DEF j, c
    <3>. QED
      BY <1>1, <1>2, <3>1, <3>2
  <2>. QED
    BY <2>1, <2>2
<1>5. c = [i \in D |-> c[i]]
  BY <1>3 DEF Cached
<1>. HIDE DEF c, D
<1>6. c \in [D -> Objects]
  BY <1>4, <1>5
<1>. QED
  BY <1>3, <1>4, <1>6 DEF c, D

\* What the cache holds after a payload.
LEMMA KeptType ==
  ASSUME NEW S, NEW c \in [S -> Objects], \A i \in S : Hash[c[i]] = i,
         NEW o \in Orderings, ToSet(o) \subseteq S
  PROVE  /\ Keep(c, o) \in [ToSet(o) -> Objects]
         /\ \A i \in ToSet(o) : Keep(c, o)[i] = c[i] /\ Hash[Keep(c, o)[i]] = i
BY DEF Keep

\* A payload leaves the cache with the ids of its dictionary, and its events
\* find all their objects there.
LEMMA ReceiveInv ==
  ASSUME DedupInv, NEW b \in net, Receive(b)
  PROVE  /\ CacheInv' /\ decoded' \subseteq Rebuilt
         /\ b.ids # <<>> => DOMAIN examples' = ToSet(b.ids)
<1>. DEFINE order == IF b.ids = <<>> THEN lru ELSE ClearAfter(TouchAll(lru, b.ids), b.ids[1])
            all == Cached(b.ids, b.values, Len(b.ids))
            cache == Keep(all, order)
<1>1. b \in Closed /\ CacheInv /\ lru \in Orderings /\ decoded \subseteq Rebuilt
  BY DEF DedupInv, CacheInv
<1>2. /\ lru' = order /\ examples' = cache
      /\ decoded' = decoded \cup {[saw |-> Resolve(cache, b.events[k]),
                                   meant |-> b.events[k].objs] : k \in DOMAIN b.events}
  BY DEF Receive
<1>3. /\ b.ids \in Orderings /\ b.ids \in Seq(Ids) /\ DOMAIN b.ids = 1 .. Len(b.ids)
      /\ Len(b.ids) \in 0 .. Len(b.ids) /\ b.events \in Seq(Submitted)
      /\ \A k \in DOMAIN b.events : ToSet(b.events[k].ids) \subseteq ToSet(b.ids)
  BY <1>1 DEF Closed, Orderings
<1>4. /\ all \in [ToSet(lru) \cup ToSet(b.ids) -> Objects]
      /\ \A i \in ToSet(lru) \cup ToSet(b.ids) : Hash[all[i]] = i
  <2>1. {b.ids[k] : k \in 1 .. Len(b.ids)} = ToSet(b.ids)
    BY <1>3 DEF ToSet
  <2>. HIDE DEF all
  <2>. QED
    BY <1>1, <1>3, <2>1, CachedType DEF all
<1>5. /\ order \in Orderings
      /\ ToSet(b.ids) \subseteq ToSet(order)
      /\ ToSet(order) \subseteq ToSet(lru) \cup ToSet(b.ids)
      /\ b.ids # <<>> => ToSet(order) = ToSet(b.ids)
  <2>1. CASE b.ids = <<>>
    <3>1. ToSet(b.ids) = {}
      BY <2>1 DEF ToSet
    <3>. QED
      BY <1>1, <2>1, <3>1
  <2>2. CASE b.ids # <<>>
    BY <1>1, <1>3, <2>2, ClearedType
  <2>. QED
    BY <2>1, <2>2
<1>. HIDE DEF order, all
<1>6. /\ cache \in [ToSet(order) -> Objects]
      /\ \A i \in ToSet(order) : Hash[cache[i]] = i
  BY <1>4, <1>5, KeptType
<1>. HIDE DEF cache
<1>7. CacheInv'
  BY <1>2, <1>5, <1>6 DEF CacheInv
<1>8. ASSUME NEW k \in DOMAIN b.events
      PROVE  [saw |-> Resolve(cache, b.events[k]), meant |-> b.events[k].objs] \in Rebuilt
  <2>. DEFINE e == b.events[k]
              s == Resolve(cache, e)
  <2>1. e \in Submitted
    BY <1>3
  <2>. HIDE DEF e
  <2>2. /\ e.objs \in Seq(Objects) /\ e.ids \in Seq(Ids) /\ DOMAIN e.ids = DOMAIN e.objs
        /\ \A m \in DOMAIN e.objs : e.ids[m] = Hash[e.objs[m]]
    BY <2>1, SubmittedType
  <2>3. \A m \in DOMAIN e.ids : e.ids[m] \in ToSet(order)
    BY <1>3, <1>5 DEF ToSet, e
  <2>4. s = [m \in DOMAIN e.ids |-> cache[e.ids[m]]]
    BY <1>6, <2>3 DEF Resolve
  <2>5. ASSUME NEW m \in DOMAIN e.ids
        PROVE  cache[e.ids[m]] \in Objects /\ Hash[cache[e.ids[m]]] = e.ids[m]
    BY <1>6, <2>3
  <2>. HIDE DEF s
  <2>6. s \in Seq(Objects) /\ DOMAIN s = DOMAIN e.objs
    BY <2>2, <2>4, <2>5
  <2>7. \A m \in DOMAIN s : Hash[s[m]] = Hash[e.objs[m]]
    BY <2>2, <2>4, <2>5, <2>6
  <2>. QED
    BY <2>2, <2>6, <2>7 DEF Rebuilt, s, e
<1>. QED
  BY <1>1, <1>2, <1>5, <1>6, <1>7, <1>8

\* A dictionary that fails half way leaves whole objects under their own ids.
LEMMA ReceiveFailsInv ==
  ASSUME DedupInv, NEW b \in net, NEW n \in DOMAIN b.ids, ReceiveFails(b, n)
  PROVE  CacheInv'
<1>. DEFINE part == SubSeq(b.ids, 1, n - 1)
<1>1. b \in Closed /\ CacheInv /\ lru \in Orderings
  BY DEF DedupInv, CacheInv
<1>2. lru' = TouchAll(lru, part) /\ examples' = Cached(b.ids, b.values, n - 1)
  BY DEF ReceiveFails
<1>3. /\ b.ids \in Seq(Ids) /\ IsInjective(b.ids) /\ DOMAIN b.ids = 1 .. Len(b.ids)
      /\ n \in 1 .. Len(b.ids) /\ n - 1 \in 0 .. Len(b.ids)
  BY <1>1 DEF Closed, Orderings
<1>4. /\ part \in Seq(Ids) /\ Len(part) = n - 1 /\ DOMAIN part = 1 .. (n - 1)
      /\ \A k \in 1 .. (n - 1) : part[k] = b.ids[k]
  BY <1>3
<1>. HIDE DEF part
<1>5. part \in Orderings
  <2>1. IsInjective(part)
    BY <1>3, <1>4 DEF IsInjective
  <2>. QED
    BY <1>4, <2>1 DEF Orderings
<1>6. ToSet(part) = {b.ids[k] : k \in 1 .. (n - 1)}
  BY <1>4 DEF ToSet
<1>7. lru' \in Orderings /\ ToSet(lru') = ToSet(lru) \cup ToSet(part)
  BY <1>1, <1>2, <1>5, TouchAllType
<1>8. /\ examples' \in [ToSet(lru') -> Objects]
      /\ \A i \in DOMAIN examples' : Hash[examples'[i]] = i
  BY <1>1, <1>2, <1>3, <1>6, <1>7, CachedType
<1>. QED
  BY <1>7, <1>8 DEF CacheInv

\* Every step preserves the invariant: one case for each action of Next.
LEMMA DedupStep ==
  ASSUME DedupInv, [Next]_vars
  PROVE  DedupInv'
<1>1. ASSUME NEW objs \in Contexts, Transform(objs) PROVE DedupInv'
  <2>1. UNCHANGED <<net, receiverVars>>
    BY <1>1 DEF Transform
  <2>2. CacheInv' /\ net' \subseteq Closed /\ decoded' \subseteq Rebuilt
    BY <2>1 DEF DedupInv, receiverVars, CacheInv
  <2>. QED
    BY <1>1, <2>2, TransformInv DEF DedupInv
<1>2. CASE AddToBatch \/ Fail
  <2>1. UNCHANGED <<net, receiverVars>>
    BY <1>2 DEF AddToBatch, Fail
  <2>2. CacheInv' /\ net' \subseteq Closed /\ decoded' \subseteq Rebuilt
    BY <2>1 DEF DedupInv, receiverVars, CacheInv
  <2>. QED
    BY <1>2, <2>2, AddToBatchInv, FailInv DEF DedupInv
<1>3. CASE Finalize
  <2>1. CacheInv' /\ decoded' \subseteq Rebuilt
    BY <1>3 DEF DedupInv, receiverVars, CacheInv, Finalize
  <2>. QED
    BY <1>3, <2>1, FinalizeInv, NetInv DEF DedupInv
<1>4. CASE UNCHANGED <<senderVars, net>> /\ CacheInv' /\ decoded' \subseteq Rebuilt
  BY <1>4 DEF DedupInv, senderVars, Counters, SenderInv, Balanced, Held
<1>5. ASSUME NEW b \in net, Receive(b) PROVE DedupInv'
  BY <1>4, <1>5, ReceiveInv DEF Receive
<1>6. ASSUME NEW b \in net, NEW n \in DOMAIN b.ids, ReceiveFails(b, n) PROVE DedupInv'
  BY <1>4, <1>6, ReceiveFailsInv DEF ReceiveFails, DedupInv
<1>7. CASE UNCHANGED vars
  BY <1>4, <1>7 DEF vars, DedupInv, receiverVars, CacheInv
<1>. QED
  BY <1>1, <1>2, <1>3, <1>5, <1>6, <1>7 DEF Next

\* The inductive invariant: counters within their bounds, whole entries under
\* their own ids on both sides, references that balance, closed batches with
\* all the objects of their events (dedup.cc, lru_dedup_cache.cc).
THEOREM Invariant == Spec => []DedupInv
BY InitInv, DedupStep, PTL DEF Spec

-----------------------------------------------------------------------------
(* The properties                                                          *)

\* The references of the dictionary are those of the open batch and of the
\* event on its way into it, plus those that failures have leaked (dedup.cc,
\* add_object, remove_object and fill_buffer's error path).
THEOREM References == Spec => []ReferencesBalance
<1>1. DedupInv => ReferencesBalance
  <2>. SUFFICES ASSUME DedupInv PROVE ReferencesBalance
    OBVIOUS
  <2>1. dict \in Dicts /\ Keyed(dict) /\ lru \in Orderings
    BY DEF DedupInv, SenderInv, CacheInv
  <2>2. TypeOK
    <3>1. /\ DOMAIN dict \subseteq Ids
          /\ \A i \in DOMAIN dict : dict[i].count \in Nat \ {0} /\ Hash[dict[i].content] = i
      BY <2>1, DictType DEF Keyed
    <3>2. DOMAIN examples = ToSet(lru) /\ IsInjective(lru)
      BY <2>1 DEF DedupInv, CacheInv, Orderings
    <3>. QED
      BY <3>1, <3>2 DEF TypeOK, DedupInv, SenderInv, Counters
  <2>3. \A i \in Ids : (IF i \in DOMAIN dict THEN dict[i].count ELSE 0) = Held[i] + leaked[i]
    BY DEF DedupInv, Balanced, CountOf
  <2>. QED
    BY <2>2, <2>3 DEF ReferencesBalance
<1>. QED
  BY <1>1, Invariant, PTL

\* The "Key not found" of action_dict_builder (dedup.cc) never comes up: every
\* id of the event that waits and of the open batch has its entry.
KeysAreThere ==
  /\ evt # None => ToSet(evt.ids) \subseteq DOMAIN dict
  /\ UsedIds \subseteq DOMAIN dict

\* No id that the sender still needs is ever missing from its dictionary, so
\* neither action_dict_builder::add nor finalize fails on a missing key
\* (dedup.cc): the guards of AddToBatch and Finalize on the keys always hold.
THEOREM NoMissingKey == Spec => []KeysAreThere
<1>1. DedupInv => KeysAreThere
  <2>. SUFFICES ASSUME DedupInv PROVE KeysAreThere
    OBVIOUS
  <2>1. used \in [Ids -> Nat] /\ leaked \in [Ids -> Nat] /\ (evt # None => evt \in Submitted)
    BY DEF DedupInv, SenderInv
  <2>2. ASSUME NEW i \in Ids, Held[i] > 0, Held[i] \in Nat PROVE i \in DOMAIN dict
    <3>1. CountOf(dict, i) = Held[i] + leaked[i] /\ leaked[i] \in Nat
      BY <2>1 DEF DedupInv, Balanced
    <3>2. CountOf(dict, i) # 0
      BY <2>2, <3>1
    <3>. QED
      BY <3>2 DEF CountOf
  <2>3. ASSUME evt # None, NEW i \in ToSet(evt.ids) PROVE i \in DOMAIN dict
    <3>1. evt.ids \in Seq(Ids)
      BY <2>1, <2>3, SubmittedType
    <3>2. i \in Ids
      BY <3>1 DEF ToSet
    <3>3. Held = CountIds(used, evt.ids)
      BY <2>3 DEF Held
    <3>4. Held[i] > 0 /\ Held[i] \in Nat
      BY <2>1, <2>3, <3>1, <3>2, <3>3, CountIdsType
    <3>. QED
      BY <2>2, <3>2, <3>4
  <2>4. ASSUME NEW i \in UsedIds PROVE i \in DOMAIN dict
    <3>1. i \in Ids /\ used[i] > 0 /\ used[i] \in Nat
      BY <2>1 DEF UsedIds
    <3>2. CASE evt = None
      BY <2>2, <3>1, <3>2 DEF Held
    <3>3. CASE evt # None
      <4>1. evt.ids \in Seq(Ids) /\ Held = CountIds(used, evt.ids)
        BY <2>1, <3>3, SubmittedType DEF Held
      <4>2. /\ Held[i] = used[i] + Occurrences(evt.ids, Len(evt.ids), i)
            /\ Occurrences(evt.ids, Len(evt.ids), i) \in Nat
        BY <2>1, <3>1, <4>1, CountIdsType
      <4>. QED
        BY <2>2, <3>1, <4>2
    <3>. QED
      BY <3>2, <3>3
  <2>. QED
    BY <2>3, <2>4 DEF KeysAreThere
<1>. QED
  BY <1>1, Invariant, PTL

\* Whatever was lost, repeated or reordered before, an event that is rebuilt
\* has an action wherever the caller's had one, with the id of the caller's:
\* process_dedup's cache never lacks an id and never holds an object under
\* another's (example_joiner.cc).
THEOREM RebuiltById == Spec => [](decoded \subseteq Rebuilt)
<1>1. DedupInv => decoded \subseteq Rebuilt
  BY DEF DedupInv
<1>. QED
  BY <1>1, Invariant, PTL

\* Where no two objects share an id, a rebuilt event has the very actions that
\* the caller passed.  With a collision it may not: add_object compares ids
\* and never contents (dedup.cc).
THEOREM Rebuild ==
  ASSUME \A a, b \in Objects : Hash[a] = Hash[b] => a = b
  PROVE  Spec => []DecodedIsMeant
<1>1. ASSUME DedupInv PROVE DecodedIsMeant
  <2>. SUFFICES ASSUME NEW d \in decoded PROVE d.saw = d.meant
    BY DEF DecodedIsMeant
  <2>1. /\ d.saw \in Seq(Objects) /\ d.meant \in Seq(Objects)
        /\ DOMAIN d.saw = DOMAIN d.meant
        /\ \A k \in DOMAIN d.saw : Hash[d.saw[k]] = Hash[d.meant[k]]
    BY <1>1 DEF DedupInv, Rebuilt
  <2>. DEFINE s == d.saw
              m == d.meant
  <2>. HIDE DEF s, m
  <2>2. s \in Seq(Objects) /\ m \in Seq(Objects) /\ DOMAIN s = DOMAIN m
        /\ \A k \in DOMAIN s : Hash[s[k]] = Hash[m[k]]
    BY <2>1 DEF s, m
  <2>3. \A k \in DOMAIN s : s[k] = m[k]
    BY <2>2
  <2>4. Len(s) = Len(m) /\ \A k \in 1 .. Len(s) : s[k] = m[k]
    BY <2>2, <2>3
  <2>5. s = m
    BY <2>2, <2>4, SeqEqual
  <2>. QED
    BY <2>5 DEF s, m
<1>. QED
  BY <1>1, Invariant, PTL

\* A dictionary that was processed leaves its ids in the cache and nothing
\* else: clear_after with its first id takes everything that was there before
\* (lru_dedup_cache.h).
THEOREM Cache == Spec => CacheIsPayload
<1>1. ASSUME DedupInv, [Next]_vars
      PROVE  \A b \in net : Receive(b) /\ b.ids # <<>> => DOMAIN examples' = ToSet(b.ids)
  BY <1>1, ReceiveInv
<1>. QED
  BY <1>1, Invariant, PTL DEF CacheIsPayload, Spec
=============================================================================
