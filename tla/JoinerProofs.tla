----------------------------- MODULE JoinerProofs -----------------------------
(***************************************************************************)
(* Proofs about the two joiners.                                           *)
(*                                                                         *)
(* Joiner: the queue of ids and the map of groups agree, an event is       *)
(* learned from once, an example is made of the first interaction of its   *)
(* group that fits, with nothing unreadable behind it, and its rewards are *)
(* what the reward functions are meant to compute of the outcomes behind   *)
(* that interaction.                                                       *)
(*                                                                         *)
(* Multistep: the history of an episode goes with its log, the walk of the *)
(* joiner ends and orders each interaction after the one it follows, and   *)
(* each interaction of a line is credited with its own step reward and     *)
(* those after it.                                                         *)
(*                                                                         *)
(* The loops of the code (process_joined over a group, calc_cost and the   *)
(* reward functions over outcomes, topo_sorter over layers, the sums from  *)
(* the back) are recursive functions on the number of turns: that such a   *)
(* function exists, and what it returns, is proved by induction over these *)
(* numbers, which is obtained from a minimal element (SmallestSubset,      *)
(* BoundedInduction).  Each loop has a lemma that gives its steps and one  *)
(* that says what it has computed.                                         *)
(***************************************************************************)
EXTENDS Joiner, Multistep, FiniteSetTheorems, SequenceTheorems, TLAPS

-----------------------------------------------------------------------------
(* Induction                                                               *)

\* Of a family of subsets of a finite set, one is minimal: none of the family
\* is it without one of its elements.
LEMMA SmallestSubset ==
  ASSUME NEW S, IsFiniteSet(S), NEW B \in SUBSET SUBSET S, B # {}
  PROVE  \E u \in B : \A x \in u : u \ {x} \notin B
<1>1. B \subseteq FiniteSubsetsOf(S)
  BY FS_Subset DEF FiniteSubsetsOf
<1>2. PICK u \in B : \A y \in B : ~(<<y, u>> \in StrictSubsetOrdering(S))
  BY <1>1, FS_StrictSubsetOrderingWellFounded, WFMin
<1>3. ASSUME NEW x \in u, u \ {x} \in B PROVE FALSE
  <2>1. <<u \ {x}, u>> \in StrictSubsetOrdering(S)
    BY <1>1, <1>3 DEF StrictSubsetOrdering
  <2>. QED
    BY <1>2, <1>3, <2>1
<1>. QED
  BY <1>2, <1>3

\* Induction on a bounded index, over the set of the indices reached.
LEMMA BoundedInduction ==
  ASSUME NEW n \in Nat, NEW R, 0 \in R, \A k \in 1 .. n : k - 1 \in R => k \in R
  PROVE  \A k \in 0 .. n : k \in R
<1>. SUFFICES ASSUME NEW j \in 0 .. n, j \notin R PROVE FALSE
  OBVIOUS
<1>. DEFINE B == {s \in SUBSET (1 .. n) : \E k \in 1 .. n : k \notin R /\ s = 1 .. k}
<1>1. B # {}
  <2>1. j \in 1 .. n /\ 1 .. j \in SUBSET (1 .. n)
    OBVIOUS
  <2>. QED
    BY <2>1
<1>2. PICK u \in B : \A x \in u : u \ {x} \notin B
  <2>1. B \in SUBSET SUBSET (1 .. n) /\ IsFiniteSet(1 .. n)
    BY FS_Interval
  <2>. HIDE DEF B
  <2>. QED
    BY <1>1, <2>1, SmallestSubset
<1>3. PICK k \in 1 .. n : k \notin R /\ u = 1 .. k
  BY <1>2
<1>4. k - 1 \notin R /\ k - 1 \in 1 .. n
  BY <1>3
<1>5. (1 .. k) \ {k} = 1 .. (k - 1) /\ 1 .. (k - 1) \in SUBSET (1 .. n)
  OBVIOUS
<1>6. u \ {k} \in B
  BY <1>3, <1>4, <1>5
<1>7. k \in u
  BY <1>3
<1>. HIDE DEF B
<1>. QED
  BY <1>2, <1>6, <1>7

-----------------------------------------------------------------------------
(* Loops over outcomes                                                     *)

\* h is the loop over n outcomes whose step is F, by the number of them read.
IsLoop(h, n, A, base, F) ==
  /\ h \in [0 .. n -> A] /\ h[0] = base
  /\ \A k \in 1 .. n : h[k] = F[<<h[k - 1], k>>]

\* Such a function exists.
LEMMA LoopExists ==
  ASSUME NEW n \in Nat, NEW A, NEW base \in A, NEW F \in [A \X (1 .. n) -> A]
  PROVE  \E h : IsLoop(h, n, A, base, F)
<1>. DEFINE Is(h, m) == /\ h \in [0 .. m -> A] /\ h[0] = base
                        /\ \A k \in 1 .. m : h[k] = F[<<h[k - 1], k>>]
            R == {m \in 0 .. n : \E h : Is(h, m)}
<1>1. 0 \in R
  <2>1. Is([k \in 0 .. 0 |-> base], 0)
    OBVIOUS
  <2>2. \E h : Is(h, 0)
    <3>. HIDE DEF Is
    <3>. QED
      BY <2>1
  <2>. QED
    BY <2>2
<1>2. ASSUME NEW m \in 1 .. n, m - 1 \in R PROVE m \in R
  <2>1. PICK g : Is(g, m - 1)
    BY <1>2
  <2>. DEFINE h == [k \in 0 .. m |-> IF k = m THEN F[<<g[m - 1], m>>] ELSE g[k]]
  <2>2. m - 1 \in 0 .. m - 1 /\ g[m - 1] \in A /\ F[<<g[m - 1], m>>] \in A
    BY <2>1
  <2>3. h \in [0 .. m -> A] /\ h[m] = F[<<g[m - 1], m>>] /\ \A k \in 0 .. m - 1 : h[k] = g[k]
    BY <2>1, <2>2
  <2>. HIDE DEF h
  <2>4. ASSUME NEW k \in 1 .. m PROVE h[k] = F[<<h[k - 1], k>>]
    <3>1. CASE k = m
      BY <2>2, <2>3, <3>1
    <3>2. CASE k # m
      <4>1. k \in 1 .. m - 1 /\ k \in 0 .. m - 1 /\ k - 1 \in 0 .. m - 1
        BY <3>2
      <4>. QED
        BY <2>1, <2>3, <4>1
    <3>. QED
      BY <3>1, <3>2
  <2>5. h[0] = base
    <3>1. 0 \in 0 .. m - 1
      OBVIOUS
    <3>. QED
      BY <2>1, <2>3, <3>1
  <2>6. Is(h, m)
    BY <2>3, <2>4, <2>5
  <2>. HIDE DEF Is
  <2>. QED
    BY <2>6
<1>3. n \in R
  <2>1. \A k \in 0 .. n : k \in R
    <3>. HIDE DEF R
    <3>. QED
      BY <1>1, <1>2, BoundedInduction
  <2>. QED
    BY <2>1
<1>4. PICK h : Is(h, n)
  BY <1>3
<1>5. IsLoop(h, n, A, base, F)
  BY <1>4 DEF IsLoop
<1>. QED
  BY <1>5

\* The observed ones of the first k.
Seen(s, k) == {j \in 1 .. k : ~s[j].taken}

\* One outcome more is seen, when it is observed.
LEMMA SeenStep ==
  ASSUME NEW s, NEW k \in Nat \ {0}
  PROVE  /\ Seen(s, 0) = {}
         /\ s[k].taken => Seen(s, k) = Seen(s, k - 1)
         /\ ~s[k].taken => Seen(s, k) = Seen(s, k - 1) \cup {k}
         /\ k \notin Seen(s, k - 1)
         /\ Seen(s, k - 1) \in SUBSET (1 .. k - 1)
         /\ IsFiniteSet(Seen(s, k)) /\ IsFiniteSet(Seen(s, k - 1))
<1>1. 1 .. k = (1 .. k - 1) \cup {k} /\ k \notin 1 .. k - 1
  OBVIOUS
<1>2. IsFiniteSet(1 .. k) /\ Seen(s, k) \in SUBSET (1 .. k) /\ Seen(s, k - 1) \in SUBSET (1 .. k)
  BY <1>1, FS_Interval DEF Seen
<1>. QED
  BY <1>1, <1>2, FS_Subset DEF Seen

\* Values, times and marks of a sequence of outcomes.
Typed(s) == \A k \in 1 .. Len(s) : s[k].value \in Int /\ s[k].time \in Int /\ s[k].taken \in BOOLEAN

\* A quotient rounded down.
LEMMA DivBounds ==
  ASSUME NEW t \in Int, NEW n \in Nat \ {0}
  PROVE  /\ t \div n \in Int
         /\ (t \div n) * n <= t
         /\ t < (t \div n) * n + n
OBVIOUS

\* The loop of sum and average.
LEMMA SumAndNSteps ==
  ASSUME NEW s, Len(s) \in Nat, Typed(s)
  PROVE  \E h : /\ h[0] = [sum |-> 0, N |-> 0]
                /\ \A k \in 1 .. Len(s) :
                     h[k] = IF s[k].taken THEN h[k - 1]
                            ELSE [sum |-> h[k - 1].sum + s[k].value, N |-> h[k - 1].N + 1]
                /\ SumAndN(s) = h[Len(s)]
<1>. DEFINE n == Len(s)
            A == [sum : Int, N : Int]
            base == [sum |-> 0, N |-> 0]
            F == [x \in A \X (1 .. n) |->
                    LET acc == x[1]
                        k == x[2]
                    IN  IF s[k].taken THEN acc
                        ELSE [sum |-> acc.sum + s[k].value, N |-> acc.N + 1]]
            Eq(h) == h = [k \in 0 .. n |->
                            IF k = 0 THEN base
                            ELSE IF s[k].taken THEN h[k - 1]
                                 ELSE [sum |-> h[k - 1].sum + s[k].value, N |-> h[k - 1].N + 1]]
            f == CHOOSE h : Eq(h)
<1>1. n \in Nat /\ base \in A
  BY DEF Smallest, Largest, Never
<1>2. F \in [A \X (1 .. n) -> A]
  BY DEF Typed
<1>3. PICK g : IsLoop(g, n, A, base, F)
  <2>. HIDE DEF F, n, A, base
  <2>. QED
    BY <1>1, <1>2, LoopExists
<1>4. Eq(g)
  <2>. HIDE DEF A, n, base
  <2>1. \A k \in 1 .. n : k # 0 /\ k - 1 \in 0 .. n /\ g[k - 1] \in A
    BY <1>1, <1>3 DEF IsLoop
  <2>2. \A k \in 0 .. n : k = 0 \/ k \in 1 .. n
    BY <1>1
  <2>3. \A k \in 0 .. n : g[k] = IF k = 0 THEN base
                              ELSE IF s[k].taken THEN g[k - 1]
                                   ELSE [sum |-> g[k - 1].sum + s[k].value, N |-> g[k - 1].N + 1]
    BY <1>3, <2>1, <2>2 DEF IsLoop
  <2>. QED
    BY <1>3, <2>3 DEF IsLoop
<1>5. Eq(f)
  <2>. HIDE DEF Eq
  <2>. QED
    BY <1>4
<1>6. SumAndN(s) = f[n]
  BY DEF SumAndN
<1>. HIDE DEF f
<1>7. /\ f[0] = base
      /\ \A k \in 1 .. n : f[k] = IF s[k].taken THEN f[k - 1]
                                     ELSE [sum |-> f[k - 1].sum + s[k].value, N |-> f[k - 1].N + 1]
  <2>1. \A k \in 1 .. n : k \in 0 .. n /\ k # 0
    BY <1>1
  <2>2. 0 \in 0 .. n
    BY <1>1
  <2>. HIDE DEF base
  <2>. QED
    BY <1>5, <2>1, <2>2
<1>. QED
  BY <1>6, <1>7

\* The loop of min.
LEMMA MinSteps ==
  ASSUME NEW s, Len(s) \in Nat, Typed(s)
  PROVE  \E h : /\ h[0] = Largest
                /\ \A k \in 1 .. Len(s) :
                     h[k] = IF ~s[k].taken /\ s[k].value < h[k - 1] THEN s[k].value ELSE h[k - 1]
                /\ MinLoop(s) = h[Len(s)]
<1>. DEFINE n == Len(s)
            A == Int
            base == Largest
            F == [x \in A \X (1 .. n) |->
                    LET acc == x[1]
                        k == x[2]
                    IN  IF ~s[k].taken /\ s[k].value < acc THEN s[k].value ELSE acc]
            Eq(h) == h = [k \in 0 .. n |->
                            IF k = 0 THEN base
                            ELSE IF ~s[k].taken /\ s[k].value < h[k - 1] THEN s[k].value ELSE h[k - 1]]
            f == CHOOSE h : Eq(h)
<1>1. n \in Nat /\ base \in A
  BY DEF Smallest, Largest, Never
<1>2. F \in [A \X (1 .. n) -> A]
  BY DEF Typed
<1>3. PICK g : IsLoop(g, n, A, base, F)
  <2>. HIDE DEF F, n, A, base
  <2>. QED
    BY <1>1, <1>2, LoopExists
<1>4. Eq(g)
  <2>. HIDE DEF A, n, base
  <2>1. \A k \in 1 .. n : k # 0 /\ k - 1 \in 0 .. n /\ g[k - 1] \in A
    BY <1>1, <1>3 DEF IsLoop
  <2>2. \A k \in 0 .. n : k = 0 \/ k \in 1 .. n
    BY <1>1
  <2>3. \A k \in 0 .. n : g[k] = IF k = 0 THEN base
                              ELSE IF ~s[k].taken /\ s[k].value < g[k - 1] THEN s[k].value ELSE g[k - 1]
    BY <1>3, <2>1, <2>2 DEF IsLoop
  <2>. QED
    BY <1>3, <2>3 DEF IsLoop
<1>5. Eq(f)
  <2>. HIDE DEF Eq
  <2>. QED
    BY <1>4
<1>6. MinLoop(s) = f[n]
  BY DEF MinLoop
<1>. HIDE DEF f
<1>7. /\ f[0] = base
      /\ \A k \in 1 .. n : f[k] = IF ~s[k].taken /\ s[k].value < f[k - 1] THEN s[k].value ELSE f[k - 1]
  <2>1. \A k \in 1 .. n : k \in 0 .. n /\ k # 0
    BY <1>1
  <2>2. 0 \in 0 .. n
    BY <1>1
  <2>. HIDE DEF base
  <2>. QED
    BY <1>5, <2>1, <2>2
<1>. QED
  BY <1>6, <1>7

\* The loop of max.
LEMMA MaxSteps ==
  ASSUME NEW s, Len(s) \in Nat, Typed(s)
  PROVE  \E h : /\ h[0] = Smallest
                /\ \A k \in 1 .. Len(s) :
                     h[k] = IF ~s[k].taken /\ s[k].value > h[k - 1] THEN s[k].value ELSE h[k - 1]
                /\ MaxLoop(s) = h[Len(s)]
<1>. DEFINE n == Len(s)
            A == Int
            base == Smallest
            F == [x \in A \X (1 .. n) |->
                    LET acc == x[1]
                        k == x[2]
                    IN  IF ~s[k].taken /\ s[k].value > acc THEN s[k].value ELSE acc]
            Eq(h) == h = [k \in 0 .. n |->
                            IF k = 0 THEN base
                            ELSE IF ~s[k].taken /\ s[k].value > h[k - 1] THEN s[k].value ELSE h[k - 1]]
            f == CHOOSE h : Eq(h)
<1>1. n \in Nat /\ base \in A
  BY DEF Smallest, Largest, Never
<1>2. F \in [A \X (1 .. n) -> A]
  BY DEF Typed
<1>3. PICK g : IsLoop(g, n, A, base, F)
  <2>. HIDE DEF F, n, A, base
  <2>. QED
    BY <1>1, <1>2, LoopExists
<1>4. Eq(g)
  <2>. HIDE DEF A, n, base
  <2>1. \A k \in 1 .. n : k # 0 /\ k - 1 \in 0 .. n /\ g[k - 1] \in A
    BY <1>1, <1>3 DEF IsLoop
  <2>2. \A k \in 0 .. n : k = 0 \/ k \in 1 .. n
    BY <1>1
  <2>3. \A k \in 0 .. n : g[k] = IF k = 0 THEN base
                              ELSE IF ~s[k].taken /\ s[k].value > g[k - 1] THEN s[k].value ELSE g[k - 1]
    BY <1>3, <2>1, <2>2 DEF IsLoop
  <2>. QED
    BY <1>3, <2>3 DEF IsLoop
<1>5. Eq(f)
  <2>. HIDE DEF Eq
  <2>. QED
    BY <1>4
<1>6. MaxLoop(s) = f[n]
  BY DEF MaxLoop
<1>. HIDE DEF f
<1>7. /\ f[0] = base
      /\ \A k \in 1 .. n : f[k] = IF ~s[k].taken /\ s[k].value > f[k - 1] THEN s[k].value ELSE f[k - 1]
  <2>1. \A k \in 1 .. n : k \in 0 .. n /\ k # 0
    BY <1>1
  <2>2. 0 \in 0 .. n
    BY <1>1
  <2>. HIDE DEF base
  <2>. QED
    BY <1>5, <2>1, <2>2
<1>. QED
  BY <1>6, <1>7

\* The loop of earliest.
LEMMA EarliestSteps ==
  ASSUME NEW s, Len(s) \in Nat, Typed(s), NEW V, Int \subseteq V, NEW default \in V
  PROVE  \E h : /\ h[0] = [value |-> default, time |-> Never]
                /\ \A k \in 1 .. Len(s) :
                     h[k] = IF ~s[k].taken /\ s[k].time < h[k - 1].time
                            THEN [value |-> s[k].value, time |-> s[k].time] ELSE h[k - 1]
                /\ EarliestLoop(s, default) = h[Len(s)]
<1>. DEFINE n == Len(s)
            A == [value : V, time : Int]
            base == [value |-> default, time |-> Never]
            F == [x \in A \X (1 .. n) |->
                    LET acc == x[1]
                        k == x[2]
                    IN  IF ~s[k].taken /\ s[k].time < acc.time
                        THEN [value |-> s[k].value, time |-> s[k].time] ELSE acc]
            Eq(h) == h = [k \in 0 .. n |->
                            IF k = 0 THEN base
                            ELSE IF ~s[k].taken /\ s[k].time < h[k - 1].time
                                 THEN [value |-> s[k].value, time |-> s[k].time] ELSE h[k - 1]]
            f == CHOOSE h : Eq(h)
<1>1. n \in Nat /\ base \in A
  BY DEF Smallest, Largest, Never
<1>2. F \in [A \X (1 .. n) -> A]
  BY DEF Typed
<1>3. PICK g : IsLoop(g, n, A, base, F)
  <2>. HIDE DEF F, n, A, base
  <2>. QED
    BY <1>1, <1>2, LoopExists
<1>4. Eq(g)
  <2>. HIDE DEF A, n, base
  <2>1. \A k \in 1 .. n : k # 0 /\ k - 1 \in 0 .. n /\ g[k - 1] \in A
    BY <1>1, <1>3 DEF IsLoop
  <2>2. \A k \in 0 .. n : k = 0 \/ k \in 1 .. n
    BY <1>1
  <2>3. \A k \in 0 .. n : g[k] = IF k = 0 THEN base
                              ELSE IF ~s[k].taken /\ s[k].time < g[k - 1].time
                                   THEN [value |-> s[k].value, time |-> s[k].time] ELSE g[k - 1]
    BY <1>3, <2>1, <2>2 DEF IsLoop
  <2>. QED
    BY <1>3, <2>3 DEF IsLoop
<1>5. Eq(f)
  <2>. HIDE DEF Eq
  <2>. QED
    BY <1>4
<1>6. EarliestLoop(s, default) = f[n]
  BY DEF EarliestLoop
<1>. HIDE DEF f
<1>7. /\ f[0] = base
      /\ \A k \in 1 .. n : f[k] = IF ~s[k].taken /\ s[k].time < f[k - 1].time
                                     THEN [value |-> s[k].value, time |-> s[k].time] ELSE f[k - 1]
  <2>1. \A k \in 1 .. n : k \in 0 .. n /\ k # 0
    BY <1>1
  <2>2. 0 \in 0 .. n
    BY <1>1
  <2>. HIDE DEF base
  <2>. QED
    BY <1>5, <2>1, <2>2
<1>. QED
  BY <1>6, <1>7

\* The loop of calc_cost that sorts the outcomes by their slots.
LEMMA OutcomesAtSteps ==
  ASSUME NEW s, Len(s) \in Nat, s \in Seq(Outcomes), NEW slot
  PROVE  \E h : /\ h[0] = <<>>
                /\ \A k \in 1 .. Len(s) :
                     h[k] = IF s[k].index = slot THEN Append(h[k - 1], s[k]) ELSE h[k - 1]
                /\ OutcomesAt(s, slot) = h[Len(s)]
<1>. DEFINE n == Len(s)
            A == Seq(Outcomes)
            base == <<>>
            F == [x \in A \X (1 .. n) |->
                    LET acc == x[1]
                        k == x[2]
                    IN  IF s[k].index = slot THEN Append(acc, s[k]) ELSE acc]
            Eq(h) == h = [k \in 0 .. n |->
                            IF k = 0 THEN base
                            ELSE IF s[k].index = slot THEN Append(h[k - 1], s[k]) ELSE h[k - 1]]
            f == CHOOSE h : Eq(h)
<1>1. n \in Nat /\ base \in A
  BY DEF Smallest, Largest, Never
<1>2. F \in [A \X (1 .. n) -> A]
  BY DEF Typed
<1>3. PICK g : IsLoop(g, n, A, base, F)
  <2>. HIDE DEF F, n, A, base
  <2>. QED
    BY <1>1, <1>2, LoopExists
<1>4. Eq(g)
  <2>. HIDE DEF A, n, base
  <2>1. \A k \in 1 .. n : k # 0 /\ k - 1 \in 0 .. n /\ g[k - 1] \in A
    BY <1>1, <1>3 DEF IsLoop
  <2>2. \A k \in 0 .. n : k = 0 \/ k \in 1 .. n
    BY <1>1
  <2>3. \A k \in 0 .. n : g[k] = IF k = 0 THEN base
                              ELSE IF s[k].index = slot THEN Append(g[k - 1], s[k]) ELSE g[k - 1]
    BY <1>3, <2>1, <2>2 DEF IsLoop
  <2>. QED
    BY <1>3, <2>3 DEF IsLoop
<1>5. Eq(f)
  <2>. HIDE DEF Eq
  <2>. QED
    BY <1>4
<1>6. OutcomesAt(s, slot) = f[n]
  BY DEF OutcomesAt
<1>. HIDE DEF f
<1>7. /\ f[0] = base
      /\ \A k \in 1 .. n : f[k] = IF s[k].index = slot THEN Append(f[k - 1], s[k]) ELSE f[k - 1]
  <2>1. \A k \in 1 .. n : k \in 0 .. n /\ k # 0
    BY <1>1
  <2>2. 0 \in 0 .. n
    BY <1>1
  <2>. HIDE DEF base
  <2>. QED
    BY <1>5, <2>1, <2>2
<1>. QED
  BY <1>6, <1>7

-----------------------------------------------------------------------------
(* Sums                                                                    *)

\* The sum over any of the subsets of S, element by element.
IsSum(g, s, S) ==
  /\ g \in [SUBSET S -> Int] /\ g[{}] = 0
  /\ \A D \in SUBSET S : \A k \in D : g[D] = s[k].value + g[D \ {k}]

\* Such sums exist.
LEMMA SumExists ==
  ASSUME NEW S, IsFiniteSet(S), NEW s, \A k \in S : s[k].value \in Int
  PROVE  \E g : IsSum(g, s, S)
<1>. DEFINE B == {u \in SUBSET S : ~ \E g : IsSum(g, s, u)}
<1>. SUFFICES ASSUME B # {} PROVE FALSE
  OBVIOUS
<1>1. PICK u \in B : \A x \in u : u \ {x} \notin B
  <2>. HIDE DEF B
  <2>1. B \in SUBSET SUBSET S
    BY DEF B
  <2>. QED
    BY <2>1, SmallestSubset
<1>2. u # {}
  <2>1. IsSum([D \in SUBSET {} |-> 0], s, {})
    BY DEF IsSum
  <2>. QED
    BY <1>1, <2>1
<1>3. PICK y \in u : TRUE
  BY <1>2
<1>4. PICK g : IsSum(g, s, u \ {y})
  BY <1>1, <1>3
<1>. DEFINE h == [D \in SUBSET u |-> IF y \in D THEN s[y].value + g[D \ {y}] ELSE g[D]]
<1>5. h \in [SUBSET u -> Int] /\ h[{}] = 0
  <2>1. ASSUME NEW D \in SUBSET u PROVE h[D] \in Int
    BY <1>4 DEF IsSum
  <2>. QED
    BY <1>4, <2>1 DEF IsSum
<1>6. ASSUME NEW D \in SUBSET u, NEW x \in D
      PROVE  h[D] = s[x].value + h[D \ {x}]
  <2>1. CASE x = y
    BY <2>1
  <2>2. CASE x # y /\ y \in D
    <3>. DEFINE r == D \ {y}
    <3>1. r \in SUBSET (u \ {y}) /\ x \in r /\ r \ {x} \in SUBSET (u \ {y})
      BY <2>2
    <3>2. g[r] = s[x].value + g[r \ {x}] /\ g[r \ {x}] \in Int
      BY <1>4, <3>1 DEF IsSum
    <3>3. h[D] = s[y].value + g[r]
      BY <2>2
    <3>4. h[D \ {x}] = s[y].value + g[r \ {x}]
      <4>1. (D \ {x}) \ {y} = r \ {x} /\ y \in D \ {x}
        BY <2>2
      <4>. QED
        BY <4>1
    <3>5. s[x].value \in Int /\ s[y].value \in Int
      OBVIOUS
    <3>. HIDE DEF h, r
    <3>. QED
      BY <3>2, <3>3, <3>4, <3>5
  <2>3. CASE x # y /\ y \notin D
    BY <1>4, <2>3 DEF IsSum
  <2>. QED
    BY <2>1, <2>2, <2>3
<1>7. IsSum(h, s, u)
  BY <1>5, <1>6 DEF IsSum
<1>. QED
  BY <1>1, <1>7

\* The fold of the community modules computes them.
LEMMA SumIsFold ==
  ASSUME NEW S, IsFiniteSet(S), NEW s, NEW g, IsSum(g, s, S)
  PROVE  Total(s, S) = g[S]
<1>. DEFINE Eq(h) == h = [D \in SUBSET S |->
                IF D = {} THEN 0
                ELSE s[CHOOSE x \in D : TRUE].value + h[D \ {CHOOSE x \in D : TRUE}]]
<1>1. Eq(g)
  <2>1. ASSUME NEW D \in SUBSET S, D # {}
        PROVE  g[D] = s[CHOOSE x \in D : TRUE].value + g[D \ {CHOOSE x \in D : TRUE}]
    BY <2>1 DEF IsSum
  <2>. QED
    BY <2>1 DEF IsSum
<1>2. ASSUME NEW h, Eq(h) PROVE h[S] = g[S]
  <2>. DEFINE B == {D \in SUBSET S : h[D] # g[D]}
  <2>1. SUFFICES ASSUME B # {} PROVE FALSE
    OBVIOUS
  <2>2. PICK u \in B : \A x \in u : u \ {x} \notin B
    <3>1. B \in SUBSET SUBSET S
      OBVIOUS
    <3>. HIDE DEF B
    <3>. QED
      BY <2>1, <3>1, SmallestSubset
  <2>3. u # {}
    BY <1>2, <1>1
  <2>. DEFINE y == CHOOSE x \in u : TRUE
  <2>4. y \in u /\ u \ {y} \in SUBSET S
    BY <2>3
  <2>5. h[u \ {y}] = g[u \ {y}]
    BY <2>2, <2>4
  <2>6. h[u] = s[y].value + h[u \ {y}] /\ g[u] = s[y].value + g[u \ {y}]
    BY <1>2, <1>1, <2>3
  <2>. QED
    BY <2>2, <2>5, <2>6
<1>3. Total(s, S) = (CHOOSE h : Eq(h))[S]
  BY DEF Total, MapThenSumSet, MapThenFoldSet
<1>4. Eq(CHOOSE h : Eq(h))
  <2>. HIDE DEF Eq
  <2>. QED
    BY <1>1
<1>. QED
  <2>. HIDE DEF Eq
  <2>. QED
    BY <1>2, <1>3, <1>4

\* The sum over nothing, and over one outcome more.
LEMMA SumAdd ==
  ASSUME NEW S, IsFiniteSet(S), NEW s, \A k \in S : s[k].value \in Int,
         NEW x, x \notin S, s[x].value \in Int
  PROVE  /\ Total(s, {}) = 0
         /\ Total(s, S) \in Int
         /\ Total(s, S \cup {x}) = Total(s, S) + s[x].value
<1>. DEFINE U == S \cup {x}
<1>1. IsFiniteSet(U) /\ IsFiniteSet({}) /\ U \ {x} = S /\ S \in SUBSET U /\ x \in U
  BY FS_AddElement, FS_EmptySet
<1>. HIDE DEF U
<1>2. PICK g : IsSum(g, s, U)
  <2>1. \A k \in U : s[k].value \in Int
    BY DEF U
  <2>. QED
    BY <1>1, <2>1, SumExists
<1>3. ASSUME NEW D \in SUBSET U, IsFiniteSet(D)
      PROVE  Total(s, D) = g[D]
  <2>. DEFINE h == [E \in SUBSET D |-> g[E]]
  <2>1. h \in [SUBSET D -> Int] /\ h[{}] = 0
    BY <1>2 DEF IsSum
  <2>2. ASSUME NEW E \in SUBSET D, NEW y \in E PROVE h[E] = s[y].value + h[E \ {y}]
    BY <1>2, <2>2 DEF IsSum
  <2>3. IsSum(h, s, D)
    BY <2>1, <2>2 DEF IsSum
  <2>4. Total(s, D) = h[D]
    <3>. HIDE DEF h
    <3>. QED
      BY <1>3, <2>3, SumIsFold
  <2>. QED
    BY <2>4
<1>4. Total(s, {}) = g[{}] /\ Total(s, S) = g[S] /\ Total(s, U) = g[U]
  BY <1>1, <1>3
<1>5. g[{}] = 0 /\ g[S] \in Int /\ g[U] = s[x].value + g[S]
  BY <1>1, <1>2 DEF IsSum
<1>. QED
  BY <1>4, <1>5 DEF U

-----------------------------------------------------------------------------
(* The loops of the reward functions                                       *)

\* The loop of sum and average adds up the observed outcomes and counts them.
LEMMA SumAndNIsRight ==
  ASSUME NEW s, Len(s) \in Nat, DOMAIN s = 1 .. Len(s), Typed(s)
  PROVE  /\ SumAndN(s).sum = Total(s, Observed(s)) /\ SumAndN(s).sum \in Int
         /\ SumAndN(s).N = Cardinality(Observed(s)) /\ SumAndN(s).N \in Nat
<1>. DEFINE n == Len(s)
<1>1. PICK h : /\ h[0] = [sum |-> 0, N |-> 0]
               /\ \A k \in 1 .. n :
                    h[k] = IF s[k].taken THEN h[k - 1]
                           ELSE [sum |-> h[k - 1].sum + s[k].value, N |-> h[k - 1].N + 1]
               /\ SumAndN(s) = h[n]
  BY SumAndNSteps
<1>. DEFINE Is(k) == /\ h[k].sum = Total(s, Seen(s, k)) /\ h[k].sum \in Int
                     /\ h[k].N = Cardinality(Seen(s, k)) /\ h[k].N \in Nat
            R == {k \in 0 .. n : Is(k)}
<1>2. n \in Nat /\ Observed(s) = Seen(s, n)
  BY DEF Observed, Seen
<1>3. 0 \in R
  <2>1. Seen(s, 0) = {}
    BY DEF Seen
  <2>2. Total(s, {}) = 0
    <3>. DEFINE S == {}
    <3>1. IsFiniteSet(S) /\ \A k \in S : s[k].value \in Int
      BY FS_EmptySet
    <3>2. PICK g : IsSum(g, s, S)
      <4>. HIDE DEF S
      <4>. QED
        BY <3>1, SumExists
    <3>3. Total(s, S) = g[S]
      <4>. HIDE DEF S
      <4>. QED
        BY <3>1, <3>2, SumIsFold
    <3>4. g[S] = 0
      BY <3>2 DEF IsSum
    <3>. QED
      BY <3>3, <3>4
  <2>3. Cardinality({}) = 0
    BY FS_EmptySet
  <2>4. h[0].sum = 0 /\ h[0].N = 0
    BY <1>1
  <2>. QED
    BY <1>2, <2>1, <2>2, <2>3, <2>4
<1>4. ASSUME NEW k \in 1 .. n, k - 1 \in R PROVE k \in R
  <2>0. k \in Nat \ {0} /\ k \in 0 .. n
    BY <1>2
  <2>. SUFFICES Is(k)
    BY <2>0
  <2>. DEFINE S == Seen(s, k - 1)
  <2>1. /\ s[k].taken => Seen(s, k) = S
        /\ ~s[k].taken => Seen(s, k) = S \cup {k}
        /\ k \notin S /\ S \in SUBSET (1 .. k - 1) /\ IsFiniteSet(S)
    BY <2>0, SeenStep
  <2>2. /\ h[k - 1].sum = Total(s, S) /\ h[k - 1].sum \in Int
        /\ h[k - 1].N = Cardinality(S) /\ h[k - 1].N \in Nat
    BY <1>4
  <2>3. \A j \in S : s[j].value \in Int
    BY <1>2, <2>1 DEF Typed
  <2>4. s[k].value \in Int /\ s[k].taken \in BOOLEAN
    BY DEF Typed
  <2>5. h[k] = IF s[k].taken THEN h[k - 1]
               ELSE [sum |-> h[k - 1].sum + s[k].value, N |-> h[k - 1].N + 1]
    BY <1>1
  <2>. HIDE DEF S
  <2>6. CASE s[k].taken
    BY <2>1, <2>2, <2>5, <2>6
  <2>7. CASE ~s[k].taken
    <3>1. Total(s, S \cup {k}) = Total(s, S) + s[k].value
      BY <2>1, <2>3, <2>4, SumAdd
    <3>2. Cardinality(S \cup {k}) = Cardinality(S) + 1
      BY <2>1, FS_AddElement
    <3>3. h[k].sum = h[k - 1].sum + s[k].value /\ h[k].N = h[k - 1].N + 1
      BY <2>5, <2>7
    <3>4. Seen(s, k) = S \cup {k}
      BY <2>1, <2>7
    <3>. DEFINE U == S \cup {k}
    <3>5. /\ h[k].sum = Total(s, U) /\ h[k].sum \in Int
          /\ h[k].N = Cardinality(U) /\ h[k].N \in Nat
      BY <2>2, <2>4, <3>1, <3>2, <3>3
    <3>. HIDE DEF U
    <3>. QED
      BY <3>4, <3>5 DEF U
  <2>. QED
    BY <2>4, <2>6, <2>7
<1>5. n \in R
  <2>1. \A k \in 0 .. n : k \in R
    <3>. HIDE DEF R, n
    <3>. QED
      BY <1>2, <1>3, <1>4, BoundedInduction
  <2>. QED
    BY <1>2, <2>1
<1>. QED
  BY <1>1, <1>2, <1>5

\* The loop of min finds the least of the observed values and Largest.
LEMMA MinIsRight ==
  ASSUME NEW s, Len(s) \in Nat, DOMAIN s = 1 .. Len(s), Typed(s)
  PROVE  /\ MinLoop(s) \in ValuesOf(s) \cup {Largest} /\ MinLoop(s) <= Largest
         /\ MinLoop(s) \in Int
         /\ \A v \in ValuesOf(s) : MinLoop(s) <= v
<1>. DEFINE n == Len(s)
<1>1. PICK h : /\ h[0] = Largest
               /\ \A k \in 1 .. n :
                    h[k] = IF ~s[k].taken /\ s[k].value < h[k - 1] THEN s[k].value ELSE h[k - 1]
               /\ MinLoop(s) = h[n]
  BY MinSteps
<1>. DEFINE Is(k) == /\ h[k] \in Int /\ h[k] <= Largest
                     /\ h[k] = Largest \/ \E j \in Seen(s, k) : h[k] = s[j].value
                     /\ \A j \in Seen(s, k) : h[k] <= s[j].value
            R == {k \in 0 .. n : Is(k)}
<1>2. n \in Nat /\ Observed(s) = Seen(s, n) /\ Largest \in Int
  BY DEF Observed, Seen, Largest
<1>3. 0 \in R
  <2>1. Seen(s, 0) = {}
    BY DEF Seen
  <2>. QED
    BY <1>1, <1>2, <2>1
<1>4. ASSUME NEW k \in 1 .. n, k - 1 \in R PROVE k \in R
  <2>0. k \in Nat \ {0} /\ k \in 0 .. n
    BY <1>2
  <2>. SUFFICES Is(k)
    BY <2>0
  <2>. DEFINE S == Seen(s, k - 1)
  <2>1. /\ s[k].taken => Seen(s, k) = S
        /\ ~s[k].taken => Seen(s, k) = S \cup {k}
        /\ S \in SUBSET (1 .. k - 1)
    BY <2>0, SeenStep
  <2>2. \A j \in S : s[j].value \in Int
    BY <1>2, <2>1 DEF Typed
  <2>3. s[k].value \in Int /\ s[k].taken \in BOOLEAN
    BY DEF Typed
  <2>4. h[k] = IF ~s[k].taken /\ s[k].value < h[k - 1] THEN s[k].value ELSE h[k - 1]
    BY <1>1
  <2>5. /\ h[k - 1] \in Int /\ h[k - 1] <= Largest
        /\ h[k - 1] = Largest \/ \E j \in S : h[k - 1] = s[j].value
        /\ \A j \in S : h[k - 1] <= s[j].value
    BY <1>4
  <2>. HIDE DEF S
  <2>6. CASE s[k].taken
    <3>1. h[k] = h[k - 1] /\ Seen(s, k) = S
      BY <2>1, <2>4, <2>6
    <3>. QED
      BY <2>5, <3>1
  <2>7. CASE ~s[k].taken /\ s[k].value < h[k - 1]
    <3>1. h[k] = s[k].value /\ Seen(s, k) = S \cup {k}
      BY <2>1, <2>4, <2>7
    <3>. QED
      BY <1>2, <2>2, <2>3, <2>5, <2>7, <3>1
  <2>8. CASE ~s[k].taken /\ ~(s[k].value < h[k - 1])
    <3>1. h[k] = h[k - 1] /\ Seen(s, k) = S \cup {k}
      BY <2>1, <2>4, <2>8
    <3>. QED
      BY <2>2, <2>3, <2>5, <2>8, <3>1
  <2>. HIDE DEF Is
  <2>. QED
    BY <2>3, <2>6, <2>7, <2>8
<1>5. n \in R
  <2>1. \A k \in 0 .. n : k \in R
    <3>. HIDE DEF R, n
    <3>. QED
      BY <1>2, <1>3, <1>4, BoundedInduction
  <2>. QED
    BY <1>2, <2>1
<1>. QED
  BY <1>1, <1>2, <1>5 DEF ValuesOf

\* The loop of max finds the greatest of the observed values and Smallest.
LEMMA MaxIsRight ==
  ASSUME NEW s, Len(s) \in Nat, DOMAIN s = 1 .. Len(s), Typed(s)
  PROVE  /\ MaxLoop(s) \in ValuesOf(s) \cup {Smallest} /\ Smallest <= MaxLoop(s)
         /\ MaxLoop(s) \in Int
         /\ \A v \in ValuesOf(s) : v <= MaxLoop(s)
<1>. DEFINE n == Len(s)
<1>1. PICK h : /\ h[0] = Smallest
               /\ \A k \in 1 .. n :
                    h[k] = IF ~s[k].taken /\ s[k].value > h[k - 1] THEN s[k].value ELSE h[k - 1]
               /\ MaxLoop(s) = h[n]
  BY MaxSteps
<1>. DEFINE Is(k) == /\ h[k] \in Int /\ Smallest <= h[k]
                     /\ h[k] = Smallest \/ \E j \in Seen(s, k) : h[k] = s[j].value
                     /\ \A j \in Seen(s, k) : s[j].value <= h[k]
            R == {k \in 0 .. n : Is(k)}
<1>2. n \in Nat /\ Observed(s) = Seen(s, n) /\ Smallest \in Int
  BY DEF Observed, Seen, Smallest
<1>3. 0 \in R
  <2>1. Seen(s, 0) = {}
    BY DEF Seen
  <2>. QED
    BY <1>1, <1>2, <2>1
<1>4. ASSUME NEW k \in 1 .. n, k - 1 \in R PROVE k \in R
  <2>0. k \in Nat \ {0} /\ k \in 0 .. n
    BY <1>2
  <2>. SUFFICES Is(k)
    BY <2>0
  <2>. DEFINE S == Seen(s, k - 1)
  <2>1. /\ s[k].taken => Seen(s, k) = S
        /\ ~s[k].taken => Seen(s, k) = S \cup {k}
        /\ S \in SUBSET (1 .. k - 1)
    BY <2>0, SeenStep
  <2>2. \A j \in S : s[j].value \in Int
    BY <1>2, <2>1 DEF Typed
  <2>3. s[k].value \in Int /\ s[k].taken \in BOOLEAN
    BY DEF Typed
  <2>4. h[k] = IF ~s[k].taken /\ s[k].value > h[k - 1] THEN s[k].value ELSE h[k - 1]
    BY <1>1
  <2>5. /\ h[k - 1] \in Int /\ Smallest <= h[k - 1]
        /\ h[k - 1] = Smallest \/ \E j \in S : h[k - 1] = s[j].value
        /\ \A j \in S : s[j].value <= h[k - 1]
    BY <1>4
  <2>. HIDE DEF S
  <2>6. CASE s[k].taken
    <3>1. h[k] = h[k - 1] /\ Seen(s, k) = S
      BY <2>1, <2>4, <2>6
    <3>. QED
      BY <2>5, <3>1
  <2>7. CASE ~s[k].taken /\ s[k].value > h[k - 1]
    <3>1. h[k] = s[k].value /\ Seen(s, k) = S \cup {k}
      BY <2>1, <2>4, <2>7
    <3>. QED
      BY <1>2, <2>2, <2>3, <2>5, <2>7, <3>1
  <2>8. CASE ~s[k].taken /\ ~(s[k].value > h[k - 1])
    <3>1. h[k] = h[k - 1] /\ Seen(s, k) = S \cup {k}
      BY <2>1, <2>4, <2>8
    <3>. QED
      BY <2>2, <2>3, <2>5, <2>8, <3>1
  <2>. HIDE DEF Is
  <2>. QED
    BY <2>3, <2>6, <2>7, <2>8
<1>5. n \in R
  <2>1. \A k \in 0 .. n : k \in R
    <3>. HIDE DEF R, n
    <3>. QED
      BY <1>2, <1>3, <1>4, BoundedInduction
  <2>. QED
    BY <1>2, <2>1
<1>. QED
  BY <1>1, <1>2, <1>5 DEF ValuesOf

\* The loop of earliest finds the first of the observed outcomes that were
\* enqueued first.
LEMMA EarliestIsRight ==
  ASSUME NEW s, Len(s) \in Nat, DOMAIN s = 1 .. Len(s), Typed(s), NEW default,
         \E k \in Observed(s) : s[k].time < Never
  PROVE  IsEarliest(EarliestLoop(s, default).value, s)
<1>. DEFINE n == Len(s)
            V == Int \cup {default}
<1>1. PICK h : /\ h[0] = [value |-> default, time |-> Never]
               /\ \A k \in 1 .. n :
                    h[k] = IF ~s[k].taken /\ s[k].time < h[k - 1].time
                           THEN [value |-> s[k].value, time |-> s[k].time] ELSE h[k - 1]
               /\ EarliestLoop(s, default) = h[n]
  <2>1. default \in V /\ Int \subseteq V
    OBVIOUS
  <2>. HIDE DEF V
  <2>. QED
    BY <2>1, EarliestSteps
<1>. DEFINE Is(k) == /\ h[k].time \in Int /\ h[k].time <= Never
                     /\ \A j \in Seen(s, k) : h[k].time <= s[j].time
                     /\ h[k].time < Never =>
                          \E i \in Seen(s, k) :
                             /\ h[k].value = s[i].value /\ h[k].time = s[i].time
                             /\ \A j \in Seen(s, k) : j < i => s[i].time < s[j].time
            R == {k \in 0 .. n : Is(k)}
<1>2. n \in Nat /\ Observed(s) = Seen(s, n) /\ Never \in Int
  BY DEF Observed, Seen, Never
<1>3. 0 \in R
  <2>1. Seen(s, 0) = {}
    BY DEF Seen
  <2>. QED
    BY <1>1, <1>2, <2>1
<1>4. ASSUME NEW k \in 1 .. n, k - 1 \in R PROVE k \in R
  <2>0. k \in Nat \ {0} /\ k \in 0 .. n
    BY <1>2
  <2>. SUFFICES Is(k)
    BY <2>0
  <2>. DEFINE S == Seen(s, k - 1)
  <2>1. /\ s[k].taken => Seen(s, k) = S
        /\ ~s[k].taken => Seen(s, k) = S \cup {k}
        /\ S \in SUBSET (1 .. k - 1)
    BY <2>0, SeenStep
  <2>2. \A j \in S : s[j].time \in Int /\ j \in Int /\ j < k
    BY <1>2, <2>1 DEF Typed
  <2>3. s[k].time \in Int /\ s[k].taken \in BOOLEAN
    BY DEF Typed
  <2>4. h[k] = IF ~s[k].taken /\ s[k].time < h[k - 1].time
               THEN [value |-> s[k].value, time |-> s[k].time] ELSE h[k - 1]
    BY <1>1
  <2>5. /\ h[k - 1].time \in Int /\ h[k - 1].time <= Never
        /\ \A j \in S : h[k - 1].time <= s[j].time
        /\ h[k - 1].time < Never =>
             \E i \in S : /\ h[k - 1].value = s[i].value /\ h[k - 1].time = s[i].time
                          /\ \A j \in S : j < i => s[i].time < s[j].time
    BY <1>4
  <2>. HIDE DEF S
  <2>6. CASE s[k].taken
    BY <2>1, <2>4, <2>5, <2>6
  <2>7. CASE ~s[k].taken /\ s[k].time < h[k - 1].time
    <3>1. h[k].time = s[k].time /\ h[k].value = s[k].value /\ Seen(s, k) = S \cup {k}
      BY <2>1, <2>4, <2>7
    <3>2. \A j \in S : s[k].time < s[j].time
      BY <2>2, <2>3, <2>5, <2>7
    <3>. QED
      BY <1>2, <2>2, <2>3, <2>5, <2>7, <3>1, <3>2
  <2>8. CASE ~s[k].taken /\ ~(s[k].time < h[k - 1].time)
    <3>1. h[k] = h[k - 1] /\ Seen(s, k) = S \cup {k} /\ h[k - 1].time <= s[k].time
      BY <2>1, <2>3, <2>4, <2>5, <2>8
    <3>2. ASSUME h[k].time < Never
          PROVE  \E i \in Seen(s, k) :
                    /\ h[k].value = s[i].value /\ h[k].time = s[i].time
                    /\ \A j \in Seen(s, k) : j < i => s[i].time < s[j].time
      <4>1. PICK i \in S : /\ h[k - 1].value = s[i].value /\ h[k - 1].time = s[i].time
                           /\ \A j \in S : j < i => s[i].time < s[j].time
        BY <2>5, <3>1, <3>2
      <4>2. ~(k < i) /\ i \in Seen(s, k)
        BY <2>2, <3>1
      <4>. QED
        BY <3>1, <4>1, <4>2
    <3>. QED
      BY <2>3, <2>5, <3>1, <3>2
  <2>. HIDE DEF Is
  <2>. QED
    BY <2>3, <2>6, <2>7, <2>8
<1>5. n \in R
  <2>1. \A k \in 0 .. n : k \in R
    <3>. HIDE DEF R, n
    <3>. QED
      BY <1>2, <1>3, <1>4, BoundedInduction
  <2>. QED
    BY <1>2, <2>1
<1>6. Is(n)
  BY <1>5
<1>7. \A j \in Seen(s, n) : s[j].time \in Int
  BY DEF Seen, Typed
<1>8. h[n].time < Never
  BY <1>2, <1>6, <1>7
<1>. QED
  BY <1>1, <1>2, <1>6, <1>7, <1>8 DEF IsEarliest

-----------------------------------------------------------------------------
(* The median                                                              *)

\* p lists the places in D from the least value to the greatest.
Ascends(p, s, D) ==
  /\ p \in [1 .. Cardinality(D) -> D]
  /\ \A a, b \in 1 .. Cardinality(D) : a < b => p[a] # p[b] /\ s[p[a]].value <= s[p[b]].value

\* One of finitely many outcomes has the greatest value.
LEMMA HasGreatest ==
  ASSUME NEW D, IsFiniteSet(D), D # {}, NEW s, \A k \in D : s[k].value \in Int
  PROVE  \E x \in D : \A y \in D : s[y].value <= s[x].value
<1>. DEFINE Has(u) == \E x \in u : \A y \in u : s[y].value <= s[x].value
            B == {u \in SUBSET D : u # {} /\ ~Has(u)}
<1>1. SUFFICES ASSUME B # {} PROVE FALSE
  OBVIOUS
<1>2. PICK u \in B : \A x \in u : u \ {x} \notin B
  <2>1. B \in SUBSET SUBSET D
    OBVIOUS
  <2>. HIDE DEF B
  <2>. QED
    BY <1>1, <2>1, SmallestSubset
<1>3. PICK x \in u : TRUE
  BY <1>2
<1>4. u \ {x} # {}
  BY <1>2, <1>3
<1>5. Has(u \ {x})
  BY <1>2, <1>3, <1>4
<1>6. PICK y \in u \ {x} : \A z \in u \ {x} : s[z].value <= s[y].value
  BY <1>5
<1>7. \A z \in u : s[z].value \in Int
  BY <1>2
<1>8. CASE s[x].value <= s[y].value
  BY <1>2, <1>3, <1>6, <1>8
<1>9. CASE s[y].value <= s[x].value
  <2>1. \A z \in u : s[z].value <= s[x].value
    BY <1>3, <1>6, <1>7, <1>9
  <2>. QED
    BY <1>2, <1>3, <2>1
<1>. QED
  BY <1>3, <1>6, <1>7, <1>8, <1>9

\* The places can be sorted by their values.
LEMMA SortedExists ==
  ASSUME NEW D, IsFiniteSet(D), NEW s, \A k \in D : s[k].value \in Int
  PROVE  \E p : Ascends(p, s, D)
<1>. DEFINE B == {u \in SUBSET D : ~\E p : Ascends(p, s, u)}
<1>1. SUFFICES ASSUME B # {} PROVE FALSE
  OBVIOUS
<1>2. PICK u \in B : \A x \in u : u \ {x} \notin B
  <2>1. B \in SUBSET SUBSET D
    OBVIOUS
  <2>. HIDE DEF B
  <2>. QED
    BY <1>1, <2>1, SmallestSubset
<1>3. u \in SUBSET D /\ IsFiniteSet(u)
  BY <1>2, FS_Subset
<1>4. u # {}
  <2>1. Ascends([k \in 1 .. 0 |-> 0], s, {})
    BY FS_EmptySet DEF Ascends
  <2>. QED
    BY <1>2, <2>1
<1>5. PICK x \in u : \A y \in u : s[y].value <= s[x].value
  BY <1>3, <1>4, HasGreatest
<1>. DEFINE w == u \ {x}
            n == Cardinality(w)
<1>6. PICK q : Ascends(q, s, w)
  BY <1>2, <1>3
<1>7. n \in Nat /\ Cardinality(u) = n + 1
  <2>1. IsFiniteSet(w) /\ Cardinality(w) = Cardinality(u) - 1
    BY <1>3, FS_RemoveElement
  <2>2. Cardinality(w) \in Nat /\ Cardinality(u) \in Nat
    BY <1>3, <2>1, FS_CardinalityType
  <2>. QED
    BY <2>1, <2>2
<1>8. q \in [1 .. n -> w] /\ \A a, b \in 1 .. n : a < b => q[a] # q[b] /\ s[q[a]].value <= s[q[b]].value
  BY <1>6 DEF Ascends
<1>9. w \in SUBSET u /\ x \notin w
  OBVIOUS
<1>. DEFINE p == [k \in 1 .. n + 1 |-> IF k = n + 1 THEN x ELSE q[k]]
<1>. HIDE DEF n, w
<1>10. \A k \in 1 .. n + 1 : k = n + 1 \/ k \in 1 .. n
  BY <1>7
<1>11. p \in [1 .. n + 1 -> u] /\ p[n + 1] = x /\ \A k \in 1 .. n : p[k] = q[k] /\ p[k] \in w
  BY <1>7, <1>8, <1>9, <1>10
<1>. HIDE DEF p
<1>12. ASSUME NEW a \in 1 .. n + 1, NEW b \in 1 .. n + 1, a < b
       PROVE  p[a] # p[b] /\ s[p[a]].value <= s[p[b]].value
  <2>1. a \in 1 .. n
    BY <1>7, <1>12
  <2>2. CASE b = n + 1
    BY <1>5, <1>9, <1>11, <2>1, <2>2
  <2>3. CASE b \in 1 .. n
    BY <1>8, <1>11, <1>12, <2>1, <2>3
  <2>. QED
    BY <1>10, <2>2, <2>3
<1>13. Ascends(p, s, u)
  BY <1>7, <1>11, <1>12 DEF Ascends
<1>. QED
  BY <1>2, <1>13

\* The k-th of the sorted values is the k-th from the least.
LEMMA SortedNth ==
  ASSUME NEW s, IsFiniteSet(Observed(s)), \A k \in Observed(s) : s[k].value \in Int,
         NEW p, Ascends(p, s, Observed(s)), NEW k \in 1 .. Cardinality(Observed(s))
  PROVE  IsNth(s[p[k]].value, k, s)
<1>. DEFINE D == Observed(s)
            n == Cardinality(D)
            v == s[p[k]].value
            Below == {j \in D : s[j].value < v}
            UpTo == {j \in D : s[j].value <= v}
<1>1. n \in Nat /\ IsFiniteSet(D) /\ IsFiniteSet(Below) /\ IsFiniteSet(UpTo)
      /\ Cardinality(Below) \in Nat /\ Cardinality(UpTo) \in Nat
  <2>1. IsFiniteSet(D) /\ Below \in SUBSET D /\ UpTo \in SUBSET D
    OBVIOUS
  <2>. HIDE DEF D, Below, UpTo
  <2>2. IsFiniteSet(Below) /\ IsFiniteSet(UpTo)
    BY <2>1, FS_Subset
  <2>. QED
    BY <2>1, <2>2, FS_CardinalityType
<1>2. /\ p \in [1 .. n -> D]
      /\ \A a, b \in 1 .. n : a < b => p[a] # p[b] /\ s[p[a]].value <= s[p[b]].value
  BY DEF Ascends
<1>3. k \in 1 .. n /\ \A j \in D : s[j].value \in Int
  OBVIOUS
<1>. HIDE DEF D, n
<1>4. \A a, b \in 1 .. n : p[a] = p[b] => a = b
  <2>1. \A a, b \in 1 .. n : a < b \/ b < a \/ a = b
    BY <1>1
  <2>. QED
    BY <1>2, <2>1
<1>5. \A j \in D : \E a \in 1 .. n : p[a] = j
  <2>1. p \in Injection(1 .. n, D)
    BY <1>2, <1>4 DEF Injection, IsInjective
  <2>2. Cardinality(1 .. n) = Cardinality(D)
    BY <1>1, FS_Interval DEF n
  <2>3. p \in Surjection(1 .. n, D)
    BY <1>1, <2>1, <2>2, FS_Injection
  <2>. QED
    BY <2>3 DEF Surjection
<1>6. v \in ValuesOf(s)
  BY <1>2, <1>3 DEF ValuesOf, D
<1>7. Cardinality(Below) < k
  <2>. DEFINE at == [j \in Below |-> CHOOSE a \in 1 .. n : p[a] = j]
  <2>1. ASSUME NEW j \in Below PROVE at[j] \in 1 .. (k - 1) /\ p[at[j]] = j
    <3>1. at[j] \in 1 .. n /\ p[at[j]] = j
      BY <1>5
    <3>2. s[j].value < v /\ s[j].value \in Int /\ v \in Int
      BY <1>2, <1>3
    <3>3. ~(k <= at[j])
      <4>1. SUFFICES ASSUME k <= at[j] PROVE FALSE
        OBVIOUS
      <4>. HIDE DEF at
      <4>2. CASE k = at[j]
        BY <3>1, <3>2, <4>2
      <4>3. CASE k < at[j]
        BY <1>2, <1>3, <3>1, <3>2, <4>3
      <4>. QED
        BY <1>1, <1>3, <3>1, <4>1, <4>2, <4>3
    <3>. HIDE DEF at
    <3>. QED
      BY <1>1, <1>3, <3>1, <3>3
  <2>2. at \in [Below -> 1 .. (k - 1)]
    BY <2>1
  <2>. HIDE DEF at, Below
  <2>3. at \in Injection(Below, 1 .. (k - 1))
    BY <2>1, <2>2 DEF Injection, IsInjective
  <2>4. IsFiniteSet(1 .. (k - 1)) /\ Cardinality(1 .. (k - 1)) = k - 1
    <3>1. k - 1 \in Int /\ 1 \in Int /\ k - 1 >= 0
      BY <1>1, <1>3
    <3>. QED
      BY <3>1, FS_Interval
  <2>5. Cardinality(Below) <= Cardinality(1 .. (k - 1))
    BY <2>3, <2>4, FS_Injection
  <2>. QED
    BY <1>1, <1>3, <2>4, <2>5
<1>8. Cardinality(UpTo) >= k
  <2>. DEFINE q == [a \in 1 .. k |-> p[a]]
  <2>1. \A a \in 1 .. k : a \in 1 .. n /\ (a = k \/ a < k)
    BY <1>1, <1>3
  <2>2. \A a \in 1 .. k : s[p[a]].value <= v /\ p[a] \in D
    <3>1. v \in Int
      BY <1>2, <1>3
    <3>. QED
      BY <1>2, <1>3, <2>1, <3>1
  <2>3. q \in [1 .. k -> UpTo]
    BY <2>2
  <2>4. q \in Injection(1 .. k, UpTo)
    <3>1. \A a, b \in 1 .. k : q[a] = q[b] => a = b
      BY <1>4, <2>1
    <3>. HIDE DEF q, UpTo
    <3>. QED
      BY <2>3, <3>1 DEF Injection, IsInjective
  <2>. HIDE DEF q, UpTo
  <2>5. Cardinality(1 .. k) = k
    <3>1. k \in Int /\ 1 \in Int /\ k >= 1
      BY <1>1, <1>3
    <3>. QED
      BY <3>1, FS_Interval
  <2>6. Cardinality(1 .. k) <= Cardinality(UpTo)
    BY <1>1, <2>4, FS_Injection
  <2>. QED
    BY <1>1, <1>3, <2>5, <2>6
<1>. QED
  BY <1>6, <1>7, <1>8 DEF IsNth, D

\* What the median returns.
LEMMA MedianIsRight ==
  ASSUME NEW s, Len(s) \in Nat, DOMAIN s = 1 .. Len(s), Typed(s), NEW default,
         Observed(s) # {}
  PROVE  /\ RewardMedian(s, default) \in Int
         /\ IsReward(RewardMedian(s, default), "median", s, default)
<1>. DEFINE D == Observed(s)
            n == Cardinality(D)
            value(k) == s[Sorted(s)[k]].value
            r == RewardMedian(s, default)
            lower == (n + 1) \div 2
            upper == n \div 2 + 1
            u == value(lower)
            v == value(upper)
<1>1. IsFiniteSet(D) /\ D # {} /\ \A k \in D : s[k].value \in Int
  <2>1. D \in SUBSET (1 .. Len(s)) /\ IsFiniteSet(1 .. Len(s))
    BY FS_Interval DEF Observed
  <2>2. IsFiniteSet(D)
    <3>. HIDE DEF D
    <3>. QED
      BY <2>1, FS_Subset
  <2>. QED
    BY <2>2 DEF Observed, Typed
<1>2. n \in Nat /\ n > 0
  <2>. HIDE DEF D
  <2>. QED
    BY <1>1, FS_CardinalityType, FS_EmptySet
<1>3. Ascends(Sorted(s), s, D)
  <2>1. \E p : Ascends(p, s, D)
    <3>. HIDE DEF D
    <3>. QED
      BY <1>1, SortedExists
  <2>2. Sorted(s) = CHOOSE p \in [1 .. n -> D] :
                      \A a, b \in 1 .. n :
                        a < b => p[a] # p[b] /\ s[p[a]].value <= s[p[b]].value
    BY DEF Sorted
  <2>. HIDE DEF D
  <2>. QED
    BY <2>1, <2>2 DEF Ascends
<1>4. \A k \in 1 .. n : value(k) \in Int /\ value(k) \in ValuesOf(s) /\ IsNth(value(k), k, s)
  <2>1. ASSUME NEW k \in 1 .. n PROVE Sorted(s)[k] \in D /\ IsNth(value(k), k, s)
    <3>1. Sorted(s)[k] \in D
      <4>. HIDE DEF D
      <4>. QED
        BY <1>3 DEF Ascends
    <3>. QED
      BY <1>1, <1>3, <3>1, SortedNth
  <2>. QED
    BY <1>1, <2>1 DEF ValuesOf
<1>. HIDE DEF D, n, value
<1>5. lower \in 1 .. n /\ upper \in 1 .. n
  BY <1>2
<1>6. u \in Int /\ v \in Int /\ u \in ValuesOf(s) /\ v \in ValuesOf(s)
      /\ IsNth(u, lower, s) /\ IsNth(v, upper, s)
  BY <1>4, <1>5
<1>7. r = IF n % 2 = 0 THEN (value(n \div 2) + value(n \div 2 + 1)) \div 2
          ELSE value(n \div 2 + 1)
  <2>1. n \div 2 + 1 \in 1 .. n /\ (n % 2 = 0 => n \div 2 \in 1 .. n)
    BY <1>2
  <2>. DEFINE values == [k \in 1 .. n |-> value(k)]
  <2>2. r = IF n = 0 THEN default
            ELSE IF n % 2 = 0 THEN (values[n \div 2] + values[n \div 2 + 1]) \div 2
            ELSE values[n \div 2 + 1]
    BY DEF RewardMedian, n, D, value
  <2>3. \A k \in 1 .. n : values[k] = value(k)
    OBVIOUS
  <2>. HIDE DEF values
  <2>. QED
    BY <1>2, <2>1, <2>2, <2>3
<1>8. r \in Int /\ 2 * r <= u + v /\ u + v < 2 * r + 2
  <2>1. CASE n % 2 = 0
    <3>1. n \div 2 = lower
      BY <1>2, <2>1
    <3>2. r = (u + v) \div 2
      BY <1>7, <2>1, <3>1
    <3>. HIDE DEF u, v, r
    <3>. QED
      BY <1>6, <3>2
  <2>2. CASE n % 2 # 0
    <3>1. n \div 2 + 1 = lower
      BY <1>2, <2>2
    <3>2. r = u /\ r = v
      BY <1>7, <2>2, <3>1
    <3>. HIDE DEF u, v, r
    <3>. QED
      BY <1>6, <3>2
  <2>. QED
    BY <2>1, <2>2
<1>9. \E x, y \in ValuesOf(s) : /\ IsNth(x, lower, s) /\ IsNth(y, upper, s)
                               /\ 2 * r <= x + y /\ x + y < 2 * r + 2
  <2>. HIDE DEF u, v, lower, upper, r
  <2>. QED
    BY <1>6, <1>8
<1>. HIDE DEF r
<1>10. IsReward(r, "median", s, default)
  BY <1>1, <1>9 DEF IsReward, n, D
<1>. QED
  BY <1>8, <1>10 DEF r

\* Each of the reward functions (reward.h), over any sequence of outcomes with
\* any values, times and marks, computes the reward it is named for: the sum,
\* the mean, the least, the greatest, the middle or the earliest of the observed
\* outcomes, and the default where there is none.
THEOREM RewardIsRight ==
  ASSUME NEW s, Len(s) \in Nat, DOMAIN s = 1 .. Len(s), Typed(s), NEW default,
         NEW fun \in RewardFunctions
  PROVE  IsReward(RewardOf(fun, s, default), fun, s, default)
<1>. DEFINE D == Observed(s)
            n == Cardinality(D)
            r == RewardOf(fun, s, default)
<1>1. IsFiniteSet(D) /\ n \in Nat /\ (n = 0 <=> D = {})
  <2>1. D \in SUBSET (1 .. Len(s)) /\ IsFiniteSet(1 .. Len(s))
    BY FS_Interval DEF Observed
  <2>. HIDE DEF D
  <2>. QED
    BY <2>1, FS_Subset, FS_CardinalityType, FS_EmptySet
<1>2. \A k \in D : s[k].value \in Int /\ s[k].time \in Int
  BY DEF Observed, Typed
<1>3. CASE fun = "sum"
  <2>1. r = RewardSum(s, default)
    BY <1>3 DEF RewardOf
  <2>2. r = IF n = 0 THEN default ELSE Total(s, D)
    BY <2>1, SumAndNIsRight DEF RewardSum
  <2>. HIDE DEF r
  <2>. QED
    BY <1>1, <1>3, <2>2 DEF IsReward, r
<1>4. CASE fun = "average"
  <2>1. r = RewardAverage(s, default)
    BY <1>4 DEF RewardOf
  <2>2. Total(s, D) \in Int
    BY SumAndNIsRight
  <2>3. r = IF n = 0 THEN default ELSE Total(s, D) \div n
    BY <2>1, SumAndNIsRight DEF RewardAverage
  <2>4. n # 0 => r * n <= Total(s, D) /\ Total(s, D) < r * n + n
    <3>. HIDE DEF n, D, r
    <3>. QED
      BY <1>1, <2>2, <2>3, DivBounds
  <2>. HIDE DEF r
  <2>. QED
    BY <1>1, <1>4, <2>3, <2>4 DEF IsReward, r
<1>5. CASE fun = "min"
  <2>. DEFINE least == Min(ValuesOf(s))
  <2>1. r = IF MinLoop(s) = Largest THEN default ELSE MinLoop(s)
    BY <1>5 DEF RewardOf, RewardMin
  <2>2. CASE D = {}
    <3>1. MinLoop(s) = Largest
      BY <2>2, MinIsRight DEF ValuesOf
    <3>. HIDE DEF r
    <3>. QED
      BY <1>5, <2>1, <2>2, <3>1 DEF IsReward, r
  <2>3. ASSUME D # {}, least < Largest PROVE r = least
    <3>0. \A x \in ValuesOf(s) : x \in Int
      BY <1>2 DEF ValuesOf
    <3>1. \E x \in ValuesOf(s) : \A y \in ValuesOf(s) : x <= y
      <4>1. MinLoop(s) \in ValuesOf(s) \/ MinLoop(s) = Largest
        BY MinIsRight
      <4>2. CASE MinLoop(s) \in ValuesOf(s)
        BY <4>2, MinIsRight
      <4>3. CASE MinLoop(s) = Largest
        <5>. DEFINE neg == [k \in D |-> [value |-> -s[k].value]]
        <5>1. PICK x \in D : \A y \in D : neg[y].value <= neg[x].value
          <6>1. \A k \in D : neg[k].value \in Int
            BY <1>2
          <6>. HIDE DEF D, neg
          <6>. QED
            BY <1>1, <2>3, <6>1, HasGreatest
        <5>2. \A y \in D : s[x].value <= s[y].value
          <6>1. \A y \in D : neg[y].value = -s[y].value
            OBVIOUS
          <6>. HIDE DEF neg
          <6>2. ASSUME NEW y \in D PROVE s[x].value <= s[y].value
            <7>1. -s[y].value <= -s[x].value /\ s[x].value \in Int /\ s[y].value \in Int
              BY <1>2, <5>1, <6>1
            <7>. QED
              BY <7>1
          <6>. QED
            BY <6>2
        <5>. QED
          BY <5>2 DEF ValuesOf
      <4>. QED
        BY <4>1, <4>2, <4>3
    <3>2. least \in ValuesOf(s) /\ \A y \in ValuesOf(s) : least <= y
      BY <3>1 DEF Min
    <3>3. MinLoop(s) <= least /\ MinLoop(s) \in Int /\ least \in Int
      BY <3>0, <3>2, MinIsRight
    <3>4. MinLoop(s) # Largest
      BY <2>3, <3>3 DEF Largest
    <3>5. MinLoop(s) \in ValuesOf(s)
      BY <3>4, MinIsRight
    <3>. HIDE DEF least
    <3>. QED
      BY <2>1, <3>2, <3>3, <3>4, <3>5
  <2>4. CASE D # {}
    <3>. HIDE DEF r
    <3>. QED
      BY <1>5, <2>3, <2>4 DEF IsReward, r
  <2>. QED
    BY <2>2, <2>4
<1>6. CASE fun = "max"
  <2>. DEFINE most == Max(ValuesOf(s))
  <2>1. r = IF MaxLoop(s) = Smallest THEN default ELSE MaxLoop(s)
    BY <1>6 DEF RewardOf, RewardMax
  <2>2. CASE D = {}
    <3>1. MaxLoop(s) = Smallest
      BY <2>2, MaxIsRight DEF ValuesOf
    <3>. HIDE DEF r
    <3>. QED
      BY <1>6, <2>1, <2>2, <3>1 DEF IsReward, r
  <2>3. ASSUME D # {}, most > Smallest PROVE r = most
    <3>0. \A x \in ValuesOf(s) : x \in Int
      BY <1>2 DEF ValuesOf
    <3>1. \E x \in ValuesOf(s) : \A y \in ValuesOf(s) : x >= y
      <4>1. PICK x \in D : \A y \in D : s[y].value <= s[x].value
        <5>. HIDE DEF D
        <5>. QED
          BY <1>1, <1>2, <2>3, HasGreatest
      <4>2. \A y \in D : s[x].value >= s[y].value
        BY <1>2, <4>1
      <4>. QED
        BY <4>2 DEF ValuesOf
    <3>2. most \in ValuesOf(s) /\ \A y \in ValuesOf(s) : most >= y
      BY <3>1 DEF Max
    <3>3. most <= MaxLoop(s) /\ MaxLoop(s) \in Int /\ most \in Int
      BY <3>0, <3>2, MaxIsRight
    <3>4. MaxLoop(s) # Smallest
      BY <2>3, <3>3 DEF Smallest
    <3>5. MaxLoop(s) \in ValuesOf(s)
      BY <3>4, MaxIsRight
    <3>. HIDE DEF most
    <3>. QED
      BY <2>1, <3>2, <3>3, <3>4, <3>5
  <2>4. CASE D # {}
    <3>. HIDE DEF r
    <3>. QED
      BY <1>6, <2>3, <2>4 DEF IsReward, r
  <2>. QED
    BY <2>2, <2>4
<1>7. CASE fun = "median"
  <2>1. r = RewardMedian(s, default)
    BY <1>7 DEF RewardOf
  <2>2. CASE D = {}
    <3>1. r = default
      BY <1>1, <2>1, <2>2 DEF RewardMedian
    <3>. HIDE DEF r
    <3>. QED
      BY <2>2, <3>1 DEF IsReward, r
  <2>3. CASE D # {}
    BY <1>7, <2>1, <2>3, MedianIsRight
  <2>. QED
    BY <2>2, <2>3
<1>8. CASE fun = "earliest"
  <2>1. r = EarliestLoop(s, default).value
    BY <1>8 DEF RewardOf, RewardEarliest
  <2>2. CASE D = {}
    <3>. DEFINE V == Int \cup {default}
                m == Len(s)
    <3>1. PICK h : /\ h[0] = [value |-> default, time |-> Never]
                   /\ \A k \in 1 .. m :
                        h[k] = IF ~s[k].taken /\ s[k].time < h[k - 1].time
                               THEN [value |-> s[k].value, time |-> s[k].time] ELSE h[k - 1]
                   /\ EarliestLoop(s, default) = h[m]
      <4>1. default \in V /\ Int \subseteq V
        OBVIOUS
      <4>. HIDE DEF V
      <4>. QED
        BY <4>1, EarliestSteps
    <3>2. \A k \in 1 .. m : s[k].taken
      BY <2>2 DEF Observed
    <3>. DEFINE R == {k \in 0 .. m : h[k] = h[0]}
    <3>3. m \in Nat /\ 0 \in R
      OBVIOUS
    <3>4. ASSUME NEW k \in 1 .. m, k - 1 \in R PROVE k \in R
      <4>1. h[k - 1] = h[0] /\ k \in 0 .. m
        BY <3>3, <3>4
      <4>2. s[k].taken
        BY <3>2
      <4>. HIDE DEF m
      <4>3. h[k] = h[k - 1]
        BY <3>1, <4>2
      <4>. QED
        BY <4>1, <4>3
    <3>5. \A k \in 0 .. m : k \in R
      <4>. HIDE DEF R, m
      <4>. QED
        BY <3>3, <3>4, BoundedInduction
    <3>6. r = default
      BY <2>1, <3>1, <3>3, <3>5
    <3>. HIDE DEF r
    <3>. QED
      BY <2>2, <3>6 DEF IsReward, r
  <2>3. ASSUME D # {}, \E k \in D : s[k].time < Never PROVE IsEarliest(r, s)
    BY <2>1, <2>3, EarliestIsRight
  <2>4. CASE D # {}
    <3>. HIDE DEF r
    <3>. QED
      BY <1>8, <2>3, <2>4 DEF IsReward, r
  <2>. QED
    BY <2>2, <2>4
<1>. QED
  BY <1>3, <1>4, <1>5, <1>6, <1>7, <1>8 DEF RewardFunctions

-----------------------------------------------------------------------------
(* Outcomes and where they stand in the group                              *)

\* os are the contents of the events of the group that stand at S, in order.
Reads(os, group, S) ==
  \E pos \in [1 .. Len(os) -> S] :
     Lists(pos, S) /\ \A k \in 1 .. Len(os) : os[k] = group[pos[k]].content

\* Without outcomes, nothing is read.
LEMMA ReadsNothing ==
  ASSUME NEW group
  PROVE  Reads(<<>>, group, {})
<1>. DEFINE pos == [k \in 1 .. 0 |-> 0]
<1>1. pos \in [1 .. Len(<<>>) -> {}] /\ DOMAIN pos = {} /\ 1 .. Len(<<>>) = {}
  OBVIOUS
<1>. HIDE DEF pos
<1>. QED
  BY <1>1 DEF Reads, Lists

\* One outcome more, behind those that were read.
LEMMA ReadsAppend ==
  ASSUME NEW T, NEW os \in Seq(T), NEW group, NEW S \in SUBSET Int, Reads(os, group, S),
         NEW x \in Int, \A y \in S : y < x, NEW o \in T, o = group[x].content
  PROVE  Reads(Append(os, o), group, S \cup {x})
<1>. DEFINE n == Len(os)
            q == Append(os, o)
            U == S \cup {x}
<1>1. PICK pos \in [1 .. n -> S] :
        Lists(pos, S) /\ \A k \in 1 .. n : os[k] = group[pos[k]].content
  BY DEF Reads
<1>2. n \in Nat /\ Len(q) = n + 1 /\ q[n + 1] = o /\ \A k \in 1 .. n : q[k] = os[k]
  OBVIOUS
<1>3. DOMAIN pos = 1 .. n /\ {pos[k] : k \in 1 .. n} = S
      /\ \A j, k \in 1 .. n : j < k => pos[j] < pos[k]
  BY <1>1 DEF Lists
<1>. HIDE DEF n, q
<1>4. \A k \in 1 .. n + 1 : k = n + 1 \/ k \in 1 .. n
  BY <1>2
<1>. DEFINE p == [k \in 1 .. n + 1 |-> IF k = n + 1 THEN x ELSE pos[k]]
<1>5. /\ p \in [1 .. n + 1 -> U] /\ DOMAIN p = 1 .. n + 1 /\ p[n + 1] = x
      /\ \A k \in 1 .. n : p[k] = pos[k] /\ k \in 1 .. n + 1 /\ k # n + 1
  BY <1>2, <1>3, <1>4
<1>. HIDE DEF p
<1>6. {p[k] : k \in 1 .. n + 1} = U
  <2>1. n + 1 \in 1 .. n + 1
    BY <1>2
  <2>. QED
    BY <1>3, <1>4, <1>5, <2>1
<1>7. ASSUME NEW j \in 1 .. n + 1, NEW k \in 1 .. n + 1, j < k PROVE p[j] < p[k]
  <2>1. j \in 1 .. n
    BY <1>2, <1>7
  <2>2. CASE k = n + 1
    BY <1>3, <1>5, <2>1, <2>2
  <2>3. CASE k \in 1 .. n
    BY <1>3, <1>5, <1>7, <2>1, <2>3
  <2>. QED
    BY <1>4, <2>2, <2>3
<1>8. Lists(p, U)
  BY <1>5, <1>6, <1>7 DEF Lists
<1>9. \A k \in 1 .. n + 1 : q[k] = group[p[k]].content
  BY <1>1, <1>2, <1>4, <1>5
<1>. HIDE DEF U
<1>10. Reads(q, group, U)
  BY <1>2, <1>5, <1>8, <1>9 DEF Reads
<1>. QED
  BY <1>10 DEF q, U

\* What was read is as long as there are places.
LEMMA ReadsLength ==
  ASSUME NEW n \in Nat, NEW S \in SUBSET Int, NEW pos \in [1 .. n -> S], Lists(pos, S)
  PROVE  Cardinality(S) = n
<1>1. \A j, k \in 1 .. n : pos[j] = pos[k] => j = k
  <2>1. \A j, k \in 1 .. n : j < k \/ k < j \/ j = k
    OBVIOUS
  <2>2. \A j, k \in 1 .. n : j < k => pos[j] < pos[k]
    BY DEF Lists
  <2>3. \A k \in 1 .. n : pos[k] \in Int
    OBVIOUS
  <2>4. \A j, k \in 1 .. n : j < k => pos[j] # pos[k]
    BY <2>2, <2>3
  <2>. QED
    BY <2>1, <2>4
<1>2. pos \in Injection(1 .. n, S) /\ pos \in Surjection(1 .. n, S)
  BY <1>1 DEF Lists, Injection, Surjection, IsInjective
<1>3. ExistsBijection(1 .. n, S)
  BY <1>2 DEF ExistsBijection, Bijection
<1>4. IsFiniteSet(1 .. n) /\ Cardinality(1 .. n) = n
  BY FS_Interval
<1>. QED
  BY <1>3, <1>4, FS_Bijection

\* Those of the places where an outcome of the slot stands.
OfSlot(S, group, slot) == {m \in S : group[m].content.index = slot}

\* The outcomes of one slot are those of the places where one of it stands.
LEMMA ReadsOfSlot ==
  ASSUME NEW os \in Seq(Outcomes), NEW group, NEW S \in SUBSET Int, Reads(os, group, S), NEW slot
  PROVE  /\ OutcomesAt(os, slot) \in Seq(Outcomes)
         /\ Reads(OutcomesAt(os, slot), group, OfSlot(S, group, slot))
<1>. DEFINE n == Len(os)
<1>1. n \in Nat /\ \A k \in 1 .. n : os[k] \in Outcomes
  OBVIOUS
<1>2. PICK pos \in [1 .. n -> S] :
        Lists(pos, S) /\ \A k \in 1 .. n : os[k] = group[pos[k]].content
  BY DEF Reads
<1>3. PICK h : /\ h[0] = <<>>
               /\ \A k \in 1 .. n :
                    h[k] = IF os[k].index = slot THEN Append(h[k - 1], os[k]) ELSE h[k - 1]
               /\ OutcomesAt(os, slot) = h[n]
  BY <1>1, OutcomesAtSteps
<1>. DEFINE At(k) == {m \in {pos[j] : j \in 1 .. k} : group[m].content.index = slot}
            R == {k \in 0 .. n : h[k] \in Seq(Outcomes) /\ Reads(h[k], group, At(k))}
<1>. HIDE DEF n
<1>4. 0 \in R
  <2>1. At(0) = {}
    OBVIOUS
  <2>2. Reads(<<>>, group, At(0))
    BY <2>1, ReadsNothing
  <2>. HIDE DEF At
  <2>3. h[0] = <<>> /\ <<>> \in Seq(Outcomes)
    BY <1>3
  <2>4. Reads(h[0], group, At(0)) /\ h[0] \in Seq(Outcomes)
    BY <2>2, <2>3
  <2>. QED
    BY <1>1, <2>4
<1>5. ASSUME NEW k \in 1 .. n, k - 1 \in R PROVE k \in R
  <2>0. pos[k] \in S
    BY <1>2
  <2>1. k \in 0 .. n /\ os[k] \in Outcomes /\ os[k] = group[pos[k]].content /\ pos[k] \in Int
    <3>1. os[k] = group[pos[k]].content
      BY <1>2
    <3>2. os[k] \in Outcomes /\ k \in 0 .. n
      BY <1>1
    <3>3. pos[k] \in Int
      BY <2>0
    <3>. QED
      BY <3>1, <3>2, <3>3
  <2>2. \A j \in 1 .. k : j = k \/ j \in 1 .. k - 1
    BY <1>1
  <2>3. \A j \in 1 .. k - 1 : j \in 1 .. k /\ j \in 1 .. n /\ j < k
    BY <1>1
  <2>4. k \in 1 .. k
    BY <1>1
  <2>5. {pos[j] : j \in 1 .. k} = {pos[j] : j \in 1 .. k - 1} \cup {pos[k]}
    BY <2>2, <2>3, <2>4
  <2>6. h[k - 1] \in Seq(Outcomes) /\ Reads(h[k - 1], group, At(k - 1))
    BY <1>5
  <2>7. CASE os[k].index = slot
    <3>1. h[k] = Append(h[k - 1], os[k])
      BY <1>3, <2>7
    <3>2. At(k) = At(k - 1) \cup {pos[k]}
      BY <2>1, <2>5, <2>7
    <3>3. At(k - 1) \in SUBSET Int /\ \A y \in At(k - 1) : y < pos[k]
      BY <1>2, <2>3 DEF Lists
    <3>. HIDE DEF At
    <3>4. Reads(Append(h[k - 1], os[k]), group, At(k - 1) \cup {pos[k]})
      BY <2>1, <2>6, <3>3, ReadsAppend
    <3>5. h[k] \in Seq(Outcomes)
      BY <2>1, <2>6, <3>1
    <3>. QED
      BY <2>1, <3>1, <3>2, <3>4, <3>5
  <2>8. CASE os[k].index # slot
    <3>1. h[k] = h[k - 1]
      BY <1>3, <2>8
    <3>2. At(k) = At(k - 1)
      BY <2>1, <2>5, <2>8
    <3>. HIDE DEF At
    <3>. QED
      BY <2>1, <2>6, <3>1, <3>2
  <2>. QED
    BY <2>7, <2>8
<1>6. n \in R
  <2>1. \A k \in 0 .. n : k \in R
    <3>. HIDE DEF R
    <3>. QED
      BY <1>1, <1>4, <1>5, BoundedInduction
  <2>. QED
    BY <1>1, <2>1
<1>7. At(n) = OfSlot(S, group, slot)
  <2>1. {pos[j] : j \in 1 .. n} = S
    BY <1>2 DEF Lists
  <2>. QED
    BY <2>1 DEF OfSlot
<1>. HIDE DEF At
<1>. QED
  BY <1>3, <1>6, <1>7

-----------------------------------------------------------------------------
(* Joining a group                                                         *)

\* An event of a group, and what is kept of its interaction and outcomes.
Event == [content : Interactions, interaction : {TRUE}, from : Nat]
           \cup [content : Outcomes, interaction : {FALSE}, from : Nat]
Join == [found : BOOLEAN, ok : BOOLEAN, interaction : Interactions \cup {Unset},
         outcomes : Seq(Outcomes)]

\* The loop of process_joined, one event of the group after the other.
LEMMA JoinedSteps ==
  ASSUME NEW group, Len(group) \in Nat
  PROVE  \E h : /\ h[0] = NoInteraction
                /\ \A n \in 1 .. Len(group) : h[n] = JoinEvent(h[n - 1], group[n])
                /\ Joined(group) = h[Len(group)]
<1>. DEFINE L == Len(group)
            Eq(h) == h = [n \in 0 .. L |-> IF n = 0 THEN NoInteraction
                                           ELSE JoinEvent(h[n - 1], group[n])]
            f == CHOOSE h : Eq(h)
            Is(h, k) == /\ DOMAIN h = 0 .. k /\ h = [n \in 0 .. k |-> h[n]]
                        /\ h[0] = NoInteraction
                        /\ \A n \in 1 .. k : h[n] = JoinEvent(h[n - 1], group[n])
            R == {k \in 0 .. L : \E h : Is(h, k)}
<1>1. L \in Nat
  OBVIOUS
<1>. HIDE DEF L
<1>2. 0 \in R
  <2>1. Is([n \in 0 .. 0 |-> NoInteraction], 0)
    OBVIOUS
  <2>. HIDE DEF Is
  <2>2. \E h : Is(h, 0)
    BY <2>1
  <2>. QED
    BY <1>1, <2>2
<1>3. ASSUME NEW k \in 1 .. L, k - 1 \in R PROVE k \in R
  <2>1. PICK g : Is(g, k - 1)
    BY <1>3
  <2>. DEFINE h == [n \in 0 .. k |-> IF n = k THEN JoinEvent(g[k - 1], group[k]) ELSE g[n]]
  <2>2. DOMAIN h = 0 .. k /\ h = [n \in 0 .. k |-> h[n]]
    OBVIOUS
  <2>3. h[k] = JoinEvent(g[k - 1], group[k]) /\ \A n \in 0 .. k - 1 : h[n] = g[n]
    BY <1>1
  <2>. HIDE DEF h
  <2>4. ASSUME NEW n \in 1 .. k PROVE h[n] = JoinEvent(h[n - 1], group[n])
    <3>1. CASE n = k
      <4>1. h[n - 1] = g[n - 1]
        BY <1>1, <2>3
      <4>. QED
        BY <2>3, <3>1, <4>1
    <3>2. CASE n # k
      <4>1. n \in 1 .. k - 1 /\ n \in 0 .. k - 1 /\ n - 1 \in 0 .. k - 1
        BY <1>1, <3>2
      <4>. QED
        BY <2>1, <2>3, <4>1
    <3>. QED
      BY <3>1, <3>2
  <2>5. h[0] = NoInteraction
    BY <1>1, <2>1, <2>3
  <2>6. Is(h, k)
    BY <2>2, <2>4, <2>5
  <2>. HIDE DEF Is
  <2>. QED
    BY <1>1, <2>6
<1>4. \E h : Is(h, L)
  <2>1. \A k \in 0 .. L : k \in R
    <3>. HIDE DEF R
    <3>. QED
      BY <1>1, <1>2, <1>3, BoundedInduction
  <2>. HIDE DEF Is
  <2>. QED
    BY <1>1, <2>1
<1>5. PICK g : Is(g, L)
  BY <1>4
<1>6. Eq(g)
  <2>1. \A n \in 0 .. L : g[n] = IF n = 0 THEN NoInteraction ELSE JoinEvent(g[n - 1], group[n])
    <3>1. \A n \in 0 .. L : n = 0 \/ n \in 1 .. L
      BY <1>1
    <3>. QED
      BY <1>5, <3>1
  <2>. QED
    BY <1>5, <2>1
<1>7. Eq(f)
  <2>. HIDE DEF Eq
  <2>. QED
    BY <1>6
<1>8. Joined(group) = f[L]
  BY DEF Joined, L
<1>. HIDE DEF f
<1>9. f[0] = NoInteraction /\ \A n \in 1 .. L : f[n] = JoinEvent(f[n - 1], group[n])
  <2>1. \A n \in 0 .. L : f[n] = IF n = 0 THEN NoInteraction ELSE JoinEvent(f[n - 1], group[n])
    BY <1>7
  <2>2. 0 \in 0 .. L /\ \A n \in 1 .. L : n \in 0 .. L /\ n # 0
    BY <1>1
  <2>. QED
    BY <2>1, <2>2
<1>. QED
  BY <1>8, <1>9 DEF L

\* What the joined event holds after the first n events of its group.
Justified(je, group, n) ==
  /\ je \in Join
  /\ ~je.found => /\ je.outcomes = <<>>
                  /\ \A m \in 1 .. n : group[m].interaction => ~Fits(group[m].content, config)
  /\ je.found =>
       \E p \in 1 .. n :
          /\ group[p].interaction /\ Fits(group[p].content, config)
          /\ \A m \in 1 .. p - 1 : group[m].interaction => ~Fits(group[m].content, config)
          /\ je.interaction = group[p].content
          /\ je.ok => \A m \in p + 1 .. n : ~group[m].interaction => group[m].content.good
          /\ je.ok => Reads(je.outcomes, group, {m \in p + 1 .. n : ~group[m].interaction})

\* One event more.
LEMMA JoinEventJustified ==
  ASSUME NEW group \in Seq(Event), NEW n \in 1 .. Len(group), NEW je,
         Justified(je, group, n - 1)
  PROVE  Justified(JoinEvent(je, group[n]), group, n)
<1>. DEFINE e == group[n]
            j == JoinEvent(je, group[n])
            L == Len(group)
            Only(p) == \A m \in 1 .. p - 1 : group[m].interaction => ~Fits(group[m].content, config)
            Source(p) == group[p].interaction /\ Fits(group[p].content, config) /\ Only(p)
            Good(p, q) == \A m \in p + 1 .. q : ~group[m].interaction => group[m].content.good
            Behind(p, q) == {m \in p + 1 .. q : ~group[m].interaction}
<1>1. /\ L \in Nat /\ n \in Nat /\ n >= 1 /\ n <= L /\ n \in 1 .. n
      /\ e \in Event /\ je \in Join /\ \A m \in 1 .. n : m = n \/ m \in 1 .. n - 1
  BY DEF Justified
<1>2. /\ e.interaction \in BOOLEAN
      /\ e.interaction => e.content \in Interactions
      /\ ~e.interaction => e.content \in Outcomes
  BY <1>1 DEF Event
<1>3. /\ ~je.found => /\ je.outcomes = <<>>
                      /\ \A m \in 1 .. n - 1 : group[m].interaction => ~Fits(group[m].content, config)
      /\ je.found => \E p \in 1 .. n - 1 :
            /\ Source(p) /\ je.interaction = group[p].content
            /\ je.ok => Good(p, n - 1)
            /\ je.ok => Reads(je.outcomes, group, Behind(p, n - 1))
  BY DEF Justified
<1>4. SUFFICES
        /\ j \in Join
        /\ ~j.found => /\ j.outcomes = <<>>
                       /\ \A m \in 1 .. n : group[m].interaction => ~Fits(group[m].content, config)
        /\ j.found => \E p \in 1 .. n :
              /\ Source(p) /\ j.interaction = group[p].content
              /\ j.ok => Good(p, n)
              /\ j.ok => Reads(j.outcomes, group, Behind(p, n))
  BY DEF Justified
<1>5. \A p \in 1 .. n - 1 : /\ p \in 1 .. n
                            /\ e.interaction => Behind(p, n) = Behind(p, n - 1)
                            /\ Good(p, n - 1) /\ (e.interaction \/ e.content.good) => Good(p, n)
                            /\ ~e.interaction => Behind(p, n) = Behind(p, n - 1) \cup {n}
                            /\ Behind(p, n - 1) \in SUBSET Int
                            /\ \A m \in Behind(p, n - 1) : m < n
  <2>1. \A p \in 1 .. n - 1 : \A m \in p + 1 .. n : m = n \/ m \in p + 1 .. n - 1
    BY <1>1
  <2>2. \A p \in 1 .. n - 1 : \A m \in p + 1 .. n - 1 : m \in p + 1 .. n
    BY <1>1
  <2>3. \A p \in 1 .. n - 1 : n \in p + 1 .. n /\ p \in 1 .. n
    BY <1>1
  <2>. QED
    BY <2>1, <2>2, <2>3
<1>. HIDE DEF e, j, L
\* The event says nothing: an interaction that does not fit or comes second,
\* or an outcome without an interaction before it.
<1>6. CASE /\ j = je
           /\ \/ e.interaction /\ (je.found \/ ~Fits(e.content, config))
              \/ ~e.interaction /\ ~je.found
  <2>. HIDE DEF Behind, Good
  <2>1. CASE je.found
    <3>1. PICK p \in 1 .. n - 1 :
            /\ Source(p) /\ je.interaction = group[p].content
            /\ je.ok => Good(p, n - 1)
            /\ je.ok => Reads(je.outcomes, group, Behind(p, n - 1))
      BY <1>3, <2>1
    <3>. HIDE DEF Source
    <3>. QED
      BY <1>1, <1>5, <1>6, <2>1, <3>1
  <2>2. CASE ~je.found
    BY <1>1, <1>2, <1>3, <1>6, <2>2 DEF e
  <2>. QED
    BY <1>1, <2>1, <2>2 DEF Join
\* The first interaction that fits.
<1>7. CASE /\ e.interaction /\ ~je.found /\ Fits(e.content, config)
           /\ j = [je EXCEPT !.found = TRUE, !.interaction = e.content]
  <2>1. j \in Join /\ j.found /\ j.interaction = e.content /\ j.outcomes = je.outcomes
    BY <1>1, <1>2, <1>7 DEF Join
  <2>2. Source(n) /\ j.outcomes = <<>>
    BY <1>3, <1>7, <2>1 DEF e
  <2>3. Good(n, n) /\ Behind(n, n) = {}
    BY <1>1
  <2>4. Reads(j.outcomes, group, Behind(n, n))
    BY <2>2, <2>3, ReadsNothing
  <2>. HIDE DEF Source, Good, Behind
  <2>. QED
    BY <1>1, <2>1, <2>2, <2>3, <2>4 DEF e
\* An outcome that can be read.
<1>8. CASE /\ ~e.interaction /\ je.found /\ e.content.good
           /\ j = [je EXCEPT !.outcomes = Append(@, e.content)]
  <2>1. /\ j \in Join /\ j.found /\ j.interaction = je.interaction /\ j.ok = je.ok
        /\ j.outcomes = Append(je.outcomes, e.content) /\ je.outcomes \in Seq(Outcomes)
    <3>. DEFINE read == Append(je.outcomes, e.content)
    <3>1. je.outcomes \in Seq(Outcomes) /\ read \in Seq(Outcomes)
      BY <1>1, <1>2, <1>8 DEF Join
    <3>2. j = [je EXCEPT !.outcomes = read]
      BY <1>8
    <3>. HIDE DEF read
    <3>3. j \in Join /\ j.found = je.found /\ j.interaction = je.interaction /\ j.ok = je.ok
          /\ j.outcomes = read
      BY <1>1, <3>1, <3>2 DEF Join
    <3>. QED
      BY <1>8, <3>1, <3>3 DEF read
  <2>2. ASSUME NEW p \in 1 .. n - 1, Reads(je.outcomes, group, Behind(p, n - 1))
        PROVE  Reads(j.outcomes, group, Behind(p, n))
    <3>. DEFINE S == Behind(p, n - 1)
    <3>1. /\ Behind(p, n) = S \cup {n} /\ S \in SUBSET Int /\ \A y \in S : y < n
          /\ n \in Int /\ e.content \in Outcomes /\ e.content = group[n].content
      BY <1>1, <1>2, <1>5, <1>8 DEF e
    <3>2. Reads(je.outcomes, group, S)
      BY <2>2
    <3>. HIDE DEF S
    <3>3. Reads(Append(je.outcomes, e.content), group, S \cup {n})
      BY <2>1, <3>1, <3>2, ReadsAppend
    <3>. HIDE DEF Behind
    <3>. QED
      BY <2>1, <3>1, <3>3
  <2>3. PICK p \in 1 .. n - 1 :
            /\ Source(p) /\ je.interaction = group[p].content
            /\ je.ok => Good(p, n - 1)
            /\ je.ok => Reads(je.outcomes, group, Behind(p, n - 1))
    BY <1>3, <1>8
  <2>. HIDE DEF Source, Good, Behind
  <2>. QED
    BY <1>1, <1>5, <1>8, <2>1, <2>2, <2>3
\* One that cannot: the group is given up.
<1>9. CASE ~e.interaction /\ je.found /\ ~e.content.good /\ j = [je EXCEPT !.ok = FALSE]
  <2>1. /\ j \in Join /\ j.found /\ j.interaction = je.interaction /\ ~j.ok
        /\ j.outcomes = je.outcomes
    BY <1>1, <1>9 DEF Join
  <2>2. PICK p \in 1 .. n - 1 :
            /\ Source(p) /\ je.interaction = group[p].content
    BY <1>3, <1>9
  <2>. HIDE DEF Source, Good, Behind
  <2>. QED
    BY <1>1, <1>5, <2>1, <2>2
<1>10. Valid(e.content) <=> Fits(e.content, config)
  BY DEF Valid, Fits
<1>. QED
  <2>. HIDE DEF Source, Good, Behind, Only
  <2>1. je.found \in BOOLEAN
    BY <1>1 DEF Join
  <2>2. j = IF e.interaction
            THEN IF Fits(e.content, config) /\ ~je.found
                 THEN [je EXCEPT !.found = TRUE, !.interaction = e.content] ELSE je
            ELSE IF ~je.found THEN je
            ELSE IF e.content.good THEN [je EXCEPT !.outcomes = Append(@, e.content)]
            ELSE [je EXCEPT !.ok = FALSE]
    BY <1>10 DEF j, e, JoinEvent
  <2>3. CASE e.interaction /\ Fits(e.content, config) /\ ~je.found
    BY <1>7, <2>2, <2>3
  <2>4. CASE e.interaction /\ ~(Fits(e.content, config) /\ ~je.found)
    <3>1. j = je
      BY <2>2, <2>4
    <3>. QED
      BY <1>6, <2>4, <3>1
  <2>5. CASE ~e.interaction /\ ~je.found
    <3>1. j = je
      BY <2>2, <2>5
    <3>. QED
      BY <1>6, <2>5, <3>1
  <2>6. CASE ~e.interaction /\ je.found /\ e.content.good
    BY <1>8, <2>2, <2>6
  <2>7. CASE ~e.interaction /\ je.found /\ ~e.content.good
    BY <1>9, <2>2, <2>7
  <2>. QED
    BY <2>3, <2>4, <2>5, <2>6, <2>7

\* What comes of a group.
LEMMA JoinedJustified ==
  ASSUME NEW group \in Seq(Event)
  PROVE  Justified(Joined(group), group, Len(group))
<1>. DEFINE L == Len(group)
<1>1. L \in Nat
  OBVIOUS
<1>2. PICK h : /\ h[0] = NoInteraction
               /\ \A n \in 1 .. L : h[n] = JoinEvent(h[n - 1], group[n])
               /\ Joined(group) = h[L]
  BY <1>1, JoinedSteps
<1>3. Justified(NoInteraction, group, 0)
  BY DEF Justified, NoInteraction, Join
<1>. DEFINE R == {n \in 0 .. L : Justified(h[n], group, n)}
<1>4. 0 \in R
  BY <1>1, <1>2, <1>3
<1>5. \A n \in 1 .. L : n - 1 \in R => n \in R
  BY <1>1, <1>2, JoinEventJustified
<1>6. \A n \in 0 .. L : n \in R
  <2>. HIDE DEF R, L
  <2>. QED
    BY <1>1, <1>4, <1>5, BoundedInduction
<1>. QED
  BY <1>1, <1>2, <1>6

-----------------------------------------------------------------------------
(* The inductive invariant                                                 *)

\* The groups are those of the queue, each once, and hold events of payloads
\* that were read.
GroupsInv ==
  /\ DOMAIN grouped \subseteq EventIds
  /\ \A id \in DOMAIN grouped :
        /\ grouped[id] \in Seq(Event) /\ grouped[id] # <<>>
        /\ \A m \in DOMAIN grouped[id] : grouped[id][m].from <= payload
  /\ queue \in Seq(EventIds) /\ IsInjective(queue) /\ ToSet(queue) = DOMAIN grouped

\* The phase, the settings and the bounds of the model.
CountersInv ==
  /\ pc \in {"reading", "grouping", "batch", "done"}
  /\ DOMAIN config = Settings
  /\ config.function \in RewardFunctions \cup {Unset}
  /\ pc \in {"grouping", "batch"} => Ready
  /\ payload \in 0 .. MaxPayloads /\ events \in 0 .. MaxEvents

\* The payloads of the events that were learned of lie before the one that is
\* being grouped, and are not those of the events of the same id that wait.
LearnedBefore ==
  \A k \in DOMAIN learned : \A m \in DOMAIN learned[k].group :
     /\ learned[k].group[m].from <= payload
     /\ pc = "grouping" => learned[k].group[m].from < payload
     /\ learned[k].id \in DOMAIN grouped =>
          \A n \in DOMAIN grouped[learned[k].id] :
             learned[k].group[m].from # grouped[learned[k].id][n].from

\* What was learned, and the properties of it that are proved.
LearnedInv ==
  /\ \E S : learned \in Seq(S)
  /\ \A k \in DOMAIN learned : learned[k].group \in Seq(Event)
  /\ LearnedBefore /\ LearnedOnce /\ LearnedIsRight

JoinerInv == CountersInv /\ GroupsInv /\ LearnedInv

\* The invariant holds at the start.
LEMMA InitInv == Init => JoinerInv
<1>. SUFFICES ASSUME Init PROVE JoinerInv
  OBVIOUS
<1>1. CountersInv
  <2>1. PICK c \in Configs :
          config = [s \in Settings |-> IF s \in fixed THEN c[s]
                      ELSE IF s = "default" THEN 0
                      ELSE IF s = "mode" THEN "Online" ELSE Unset]
    BY DEF Init
  <2>2. DOMAIN config = Settings /\ (config.function = c.function \/ config.function = Unset)
    BY <2>1 DEF Settings
  <2>. QED
    BY <2>2, JoinerAssumption DEF JoinerAssumption, Init, CountersInv
<1>2. GroupsInv
  BY DEF Init, GroupsInv, NoGroups, IsInjective, ToSet
<1>3. LearnedInv
  <2>1. learned = <<>> /\ learned \in Seq({})
    BY DEF Init
  <2>2. \E S : learned \in Seq(S)
    BY <2>1
  <2>3. DOMAIN learned = {}
    BY <2>1
  <2>. QED
    BY <2>2, <2>3 DEF LearnedInv, LearnedBefore, LearnedOnce, LearnedIsRight, LearnedIsJustified
<1>. QED
  BY <1>1, <1>2, <1>3 DEF JoinerInv

\* An event of the payload joins its group, and a new id the queue.
LEMMA GroupInv ==
  ASSUME JoinerInv, NEW id \in EventIds, NEW e \in Event, e.from = payload, Group(id, e)
  PROVE  JoinerInv'
<1>1. /\ pc = "grouping" /\ events < MaxEvents /\ events' = events + 1
      /\ UNCHANGED <<pc, config, fixed, payload, learned>>
  BY DEF Group
<1>2. payload \in Nat
  BY DEF JoinerInv, CountersInv
<1>3. CountersInv'
  BY <1>1, JoinerAssumption DEF JoinerInv, CountersInv, JoinerAssumption, Ready
<1>4. /\ DOMAIN grouped' = DOMAIN grouped \cup {id}
      /\ \A i \in DOMAIN grouped \ {id} : grouped'[i] = grouped[i]
      /\ id \in DOMAIN grouped => grouped'[id] = Append(grouped[id], e)
      /\ id \notin DOMAIN grouped => grouped'[id] = <<e>>
  BY DEF Group
<1>5. ASSUME NEW i \in DOMAIN grouped'
      PROVE  /\ grouped'[i] \in Seq(Event) /\ grouped'[i] # <<>>
             /\ \A m \in DOMAIN grouped'[i] :
                  \/ grouped'[i][m].from = payload
                  \/ /\ i \in DOMAIN grouped /\ m \in DOMAIN grouped[i]
                     /\ grouped'[i][m] = grouped[i][m]
  <2>1. CASE i # id
    BY <1>4, <2>1 DEF JoinerInv, GroupsInv
  <2>2. CASE i = id /\ id \notin DOMAIN grouped
    <3>1. /\ <<e>> \in Seq(Event) /\ <<e>> # <<>>
          /\ \A m \in DOMAIN <<e>> : <<e>>[m] = e
      OBVIOUS
    <3>2. grouped'[i] = <<e>>
      BY <1>4, <2>2
    <3>. QED
      BY <3>1, <3>2
  <2>3. CASE i = id /\ id \in DOMAIN grouped
    <3>1. grouped'[i] = Append(grouped[i], e) /\ grouped[i] \in Seq(Event)
      BY <1>4, <2>3 DEF JoinerInv, GroupsInv
    <3>. DEFINE g == grouped[i]
                q == Append(g, e)
    <3>2. /\ q \in Seq(Event) /\ q # <<>>
          /\ \A m \in DOMAIN q : q[m] = e \/ (m \in DOMAIN g /\ q[m] = g[m])
      BY <3>1
    <3>3. grouped'[i] = q
      BY <3>1
    <3>. HIDE DEF q, g
    <3>. QED
      BY <2>3, <3>2, <3>3 DEF g
  <2>. QED
    BY <1>4, <2>1, <2>2, <2>3
<1>6. GroupsInv'
  <2>1. /\ queue \in Seq(EventIds) /\ IsInjective(queue) /\ ToSet(queue) = DOMAIN grouped
        /\ queue' = IF id \in DOMAIN grouped THEN queue ELSE Append(queue, id)
    BY DEF JoinerInv, GroupsInv, Group
  <2>2. queue' \in Seq(EventIds) /\ IsInjective(queue') /\ ToSet(queue') = DOMAIN grouped'
    <3>1. CASE id \in DOMAIN grouped
      <4>1. queue' = queue /\ DOMAIN grouped' = DOMAIN grouped
        BY <1>4, <2>1, <3>1
      <4>. QED
        BY <2>1, <4>1
    <3>2. CASE id \notin DOMAIN grouped
      <4>. DEFINE n == Len(queue)
                  q == Append(queue, id)
      <4>1. /\ q \in Seq(EventIds) /\ DOMAIN queue = 1 .. n /\ DOMAIN q = 1 .. n + 1 /\ n \in Nat
            /\ q[n + 1] = id /\ \A m \in 1 .. n : q[m] = queue[m]
        BY <2>1
      <4>2. \A m \in 1 .. n : queue[m] # id
        BY <2>1, <3>2, <4>1 DEF ToSet
      <4>. HIDE DEF q, n
      <4>3. \A m \in 1 .. n + 1 : m = n + 1 \/ m \in 1 .. n
        BY <4>1
      <4>4. IsInjective(q)
        BY <2>1, <4>1, <4>2, <4>3 DEF IsInjective
      <4>5. ToSet(q) = ToSet(queue) \cup {id}
        BY <4>1, <4>3 DEF ToSet
      <4>. QED
        BY <1>4, <2>1, <3>2, <4>1, <4>4, <4>5 DEF q
    <3>. QED
      BY <3>1, <3>2
  <2>3. DOMAIN grouped' \subseteq EventIds
    BY <1>4 DEF JoinerInv, GroupsInv
  <2>4. ASSUME NEW i \in DOMAIN grouped', NEW m \in DOMAIN grouped'[i]
        PROVE  grouped'[i][m].from <= payload
    BY <1>2, <1>5, <2>4 DEF JoinerInv, GroupsInv
  <2>. QED
    BY <1>1, <1>5, <2>2, <2>3, <2>4 DEF GroupsInv
<1>7. LearnedBefore'
  <2>1. ASSUME NEW k \in DOMAIN learned, NEW m \in DOMAIN learned[k].group,
               learned[k].id \in DOMAIN grouped', NEW n \in DOMAIN grouped'[learned[k].id]
        PROVE  learned[k].group[m].from # grouped'[learned[k].id][n].from
    <3>1. learned[k].group[m].from < payload /\ learned[k].group[m].from <= payload
      BY <1>1 DEF JoinerInv, LearnedInv, LearnedBefore
    <3>2. learned[k].group[m].from # payload
      <4>1. learned[k].group[m] \in Event
        BY DEF JoinerInv, LearnedInv
      <4>2. learned[k].group[m].from \in Nat
        BY <4>1 DEF Event
      <4>. QED
        BY <1>2, <3>1, <4>2
    <3>3. CASE grouped'[learned[k].id][n].from = payload
      BY <3>2, <3>3
    <3>4. CASE grouped'[learned[k].id][n].from # payload
      <4>1. /\ learned[k].id \in DOMAIN grouped /\ n \in DOMAIN grouped[learned[k].id]
            /\ grouped'[learned[k].id][n] = grouped[learned[k].id][n]
        BY <1>5, <2>1, <3>4
      <4>. QED
        BY <4>1 DEF JoinerInv, LearnedInv, LearnedBefore
    <3>. QED
      BY <3>3, <3>4
  <2>. QED
    BY <1>1, <2>1 DEF JoinerInv, LearnedInv, LearnedBefore
<1>8. LearnedInv'
  BY <1>1, <1>7 DEF JoinerInv, LearnedInv, LearnedOnce, LearnedIsRight, LearnedIsJustified
<1>. QED
  BY <1>3, <1>6, <1>8 DEF JoinerInv

\* The rewards of an interaction in apprentice mode are its matches.
LEMMA ApprenticeRewards ==
  ASSUME NEW je, NEW r \in RewardsOf(je), je.interaction.mode = "Apprentice",
         je.interaction.type \in {"CB", "CCB"}, je.interaction.baselines
  PROVE  \A s \in SlotsOf(je.interaction.type) : r[s] = 1 <=> s \in je.interaction.matches
<1>. DEFINE slots == SlotsOf(je.interaction.type)
            matched == [s \in slots |-> IF s \in je.interaction.matches
                                        THEN ApprenticeMatching ELSE ApprenticeNotMatching]
<1>. HIDE DEF slots
<1>1. r = matched
  BY DEF RewardsOf, slots
<1>. QED
  BY <1>1 DEF ApprenticeMatching, ApprenticeNotMatching, slots

\* A group that is learned from has a reason to be.
LEMMA LearnableJustified ==
  ASSUME NEW group \in Seq(Event), NEW id,
         Joined(group).found, Joined(group).ok, Learnable(Joined(group)),
         NEW r \in RewardsOf(Joined(group)),
         NEW l, l = [id |-> id, rewards |-> r, group |-> group, config |-> config]
  PROVE  IsJustified(l)
<1>. DEFINE je == Joined(group)
            L == Len(group)
<1>1. l.group = group /\ l.config = config /\ l.rewards = r /\ DOMAIN group = 1 .. L
  OBVIOUS
<1>2. Justified(je, group, L)
  BY JoinedJustified
<1>3. je.found /\ je.ok /\ Learnable(je) /\ r \in RewardsOf(je)
  OBVIOUS
<1>. HIDE DEF je, L
<1>4. PICK p \in 1 .. L :
          /\ group[p].interaction /\ Fits(group[p].content, config)
          /\ \A m \in 1 .. p - 1 : group[m].interaction => ~Fits(group[m].content, config)
          /\ je.interaction = group[p].content
          /\ \A m \in p + 1 .. L : ~group[m].interaction => group[m].content.good
          /\ Reads(je.outcomes, group, {m \in p + 1 .. L : ~group[m].interaction})
  BY <1>2, <1>3 DEF Justified
<1>. DEFINE i == group[p].content
            later == {m \in p + 1 .. L : ~group[m].interaction}
<1>5. IsSource(l, p)
  BY <1>1, <1>4 DEF IsSource
<1>6. \A m \in later : group[m].content.good
  BY <1>4
<1>7. ASSUME i.deferred PROVE \E m \in later : group[m].content.taken
  <2>1. PICK k \in DOMAIN je.outcomes : je.outcomes[k].taken
    BY <1>3, <1>4, <1>7 DEF Learnable
  <2>2. PICK m \in later : je.outcomes[k] = group[m].content
    <3>1. PICK pos \in [1 .. Len(je.outcomes) -> later] :
            \A j \in 1 .. Len(je.outcomes) : je.outcomes[j] = group[pos[j]].content
      BY <1>4 DEF Reads
    <3>2. k \in 1 .. Len(je.outcomes)
      BY <1>2, <2>1 DEF Justified, Join
    <3>. HIDE DEF later
    <3>. QED
      BY <3>1, <3>2
  <2>. QED
    BY <2>1, <2>2
<1>8. ASSUME i.mode = "Apprentice" /\ i.type \in {"CB", "CCB"} /\ i.baselines
      PROVE  \A s \in SlotsOf(i.type) : r[s] = 1 <=> s \in i.matches
  BY <1>3, <1>4, <1>8, ApprenticeRewards
<1>. QED
  BY <1>1, <1>4, <1>5, <1>6, <1>7, <1>8 DEF L, IsJustified

\* Outcomes are what the reward functions expect.
LEMMA OutcomesTyped ==
  ASSUME NEW os \in Seq(Outcomes)
  PROVE  Len(os) \in Nat /\ DOMAIN os = 1 .. Len(os) /\ Typed(os)
<1>1. \A k \in 1 .. Len(os) : os[k] \in Outcomes
  OBVIOUS
<1>. QED
  BY <1>1, JoinerAssumption DEF JoinerAssumption, Typed

\* The reward of a slot is that of the outcomes of the slot.
LEMMA SlotRewarded ==
  ASSUME NEW os \in Seq(Outcomes), NEW group, NEW S \in SUBSET Int, Reads(os, group, S),
         NEW fun \in RewardFunctions, NEW default
  PROVE  \E pos \in [1 .. Cardinality(S) -> S] :
            /\ Lists(pos, S)
            /\ IsReward(RewardOf(fun, os, default), fun,
                        [k \in DOMAIN pos |-> group[pos[k]].content], default)
<1>. DEFINE n == Len(os)
<1>1. n \in Nat /\ DOMAIN os = 1 .. n /\ Typed(os)
  BY OutcomesTyped
<1>2. PICK pos \in [1 .. n -> S] :
        Lists(pos, S) /\ \A k \in 1 .. n : os[k] = group[pos[k]].content
  BY DEF Reads
<1>3. Cardinality(S) = n
  <2>. HIDE DEF n
  <2>. QED
    BY <1>1, <1>2, ReadsLength
<1>4. os = [k \in DOMAIN pos |-> group[pos[k]].content]
  <2>1. os = [k \in 1 .. n |-> os[k]] /\ DOMAIN pos = 1 .. n
    BY <1>1
  <2>. HIDE DEF n
  <2>. QED
    BY <1>2, <2>1
<1>5. IsReward(RewardOf(fun, os, default), fun, os, default)
  BY <1>1, RewardIsRight
<1>. HIDE DEF n
<1>. QED
  BY <1>2, <1>3, <1>4, <1>5

\* What is learned from a group has the rewards of its outcomes.
LEMMA LearnableRewarded ==
  ASSUME NEW group \in Seq(Event), NEW id, config.function \in RewardFunctions,
         Joined(group).found, Joined(group).ok, Learnable(Joined(group)),
         NEW r \in RewardsOf(Joined(group)),
         NEW l, l = [id |-> id, rewards |-> r, group |-> group, config |-> config]
  PROVE  IsRewarded(l)
<1>. DEFINE je == Joined(group)
            L == Len(group)
<1>1. l.group = group /\ l.config = config /\ l.rewards = r /\ DOMAIN group = 1 .. L
      /\ L = Len(l.group) /\ L \in Nat
  OBVIOUS
<1>2. Justified(je, group, L)
  BY JoinedJustified
<1>3. je.found /\ je.ok /\ Learnable(je) /\ r \in RewardsOf(je)
  OBVIOUS
<1>. HIDE DEF je, L
<1>4. PICK p \in 1 .. L :
          /\ group[p].interaction /\ Fits(group[p].content, config)
          /\ \A m \in 1 .. p - 1 : group[m].interaction => ~Fits(group[m].content, config)
          /\ je.interaction = group[p].content
          /\ Reads(je.outcomes, group, {m \in p + 1 .. L : ~group[m].interaction})
  BY <1>2, <1>3 DEF Justified
<1>. DEFINE i == group[p].content
            S == {m \in p + 1 .. L : ~group[m].interaction}
<1>5. IsSource(l, p)
  BY <1>1, <1>4 DEF IsSource
<1>6. je.outcomes \in Seq(Outcomes) /\ S \in SUBSET Int
  BY <1>1, <1>2 DEF Justified, Join
<1>7. ASSUME i.mode # "Apprentice", NEW slot \in SlotsOf(i.type)
      PROVE  IsRewardOfSlot(l, p, slot)
  <2>. DEFINE os == OutcomesOf(je, slot)
              T == OutcomesBehind(group, p, slot)
  <2>1. r[slot] = RewardOf(config.function, os, config.default)
    <3>1. je.interaction = i
      BY <1>4
    <3>2. r = [s \in SlotsOf(i.type) |-> RewardOf(config.function, OutcomesOf(je, s), config.default)]
      BY <1>3, <1>7, <3>1 DEF RewardsOf
    <3>. QED
      BY <1>7, <3>2
  <2>2. os \in Seq(Outcomes) /\ Reads(os, group, T) /\ T \in SUBSET Int
    <3>1. CASE i.type = "CCB"
      <4>1. os = OutcomesAt(je.outcomes, slot)
        BY <1>4, <3>1 DEF OutcomesOf
      <4>2. T = OfSlot(S, group, slot) /\ T \in SUBSET S
        BY <3>1 DEF OutcomesBehind, OfSlot, L
      <4>3. Reads(je.outcomes, group, S)
        BY <1>4
      <4>. HIDE DEF os, T, S
      <4>4. /\ OutcomesAt(je.outcomes, slot) \in Seq(Outcomes)
            /\ Reads(OutcomesAt(je.outcomes, slot), group, OfSlot(S, group, slot))
        BY <1>6, <4>3, ReadsOfSlot
      <4>. QED
        BY <1>6, <4>1, <4>2, <4>4
    <3>2. CASE i.type # "CCB"
      <4>1. os = je.outcomes
        BY <1>4, <3>2 DEF OutcomesOf
      <4>2. T = S
        BY <3>2 DEF OutcomesBehind, L
      <4>3. Reads(je.outcomes, group, S)
        BY <1>4
      <4>. HIDE DEF os, T, S
      <4>. QED
        BY <1>6, <4>1, <4>2, <4>3
    <3>. QED
      BY <3>1, <3>2
  <2>. HIDE DEF os, T
  <2>3. \E pos \in [1 .. Cardinality(T) -> T] :
           /\ Lists(pos, T)
           /\ IsReward(RewardOf(config.function, os, config.default), config.function,
                        [k \in DOMAIN pos |-> group[pos[k]].content], config.default)
    BY <2>2, SlotRewarded
  <2>. QED
    BY <1>1, <2>1, <2>3 DEF T, IsRewardOfSlot
<1>. HIDE DEF S
<1>. QED
  BY <1>1, <1>4, <1>5, <1>7 DEF IsRewarded

\* A joined group leaves the map, and its id the queue.
LEMMA ProcessJoinedInv ==
  ASSUME JoinerInv, ProcessJoined
  PROVE  JoinerInv'
<1>. DEFINE id == Head(queue)
            group == grouped[id]
            je == Joined(group)
            n == Len(queue)
<1>1. /\ pc = "batch" /\ queue # <<>>
      /\ grouped' = [i \in DOMAIN grouped \ {id} |-> grouped[i]]
      /\ queue' = Tail(queue)
      /\ UNCHANGED <<pc, config, fixed, payload, events>>
      /\ \/ learned' = learned
         \/ /\ je.found /\ je.ok /\ Learnable(je)
            /\ \E r \in RewardsOf(je) :
                 learned' = Append(learned, [id |-> id, rewards |-> r, group |-> group,
                                             config |-> config])
  BY DEF ProcessJoined
<1>2. /\ queue \in Seq(EventIds) /\ IsInjective(queue) /\ ToSet(queue) = DOMAIN grouped
      /\ n \in Nat /\ n > 0 /\ DOMAIN queue = 1 .. n /\ id = queue[1]
  BY <1>1 DEF JoinerInv, GroupsInv
<1>. HIDE DEF id, je, n
<1>3. id \in DOMAIN grouped /\ id \in EventIds /\ group \in Seq(Event)
  BY <1>2 DEF JoinerInv, GroupsInv, ToSet
<1>4. CountersInv'
  BY <1>1 DEF JoinerInv, CountersInv, Ready
<1>5. DOMAIN grouped' = DOMAIN grouped \ {id} /\ \A i \in DOMAIN grouped' : grouped'[i] = grouped[i]
  BY <1>1
<1>6. queue' \in Seq(EventIds) /\ IsInjective(queue') /\ ToSet(queue') = DOMAIN grouped'
  <2>. DEFINE q == Tail(queue)
  <2>1. /\ q \in Seq(EventIds) /\ DOMAIN q = 1 .. n - 1
        /\ \A m \in 1 .. n - 1 : q[m] = queue[m + 1] /\ m + 1 \in 1 .. n /\ m + 1 # 1
    BY <1>2 DEF n
  <2>. HIDE DEF q
  <2>2. \A u, v \in 1 .. n : queue[u] = queue[v] => u = v
    BY <1>2 DEF IsInjective
  <2>3. \A u, v \in 1 .. n - 1 : u + 1 = v + 1 => u = v
    BY <1>2
  <2>4. IsInjective(q)
    BY <2>1, <2>2, <2>3 DEF IsInjective
  <2>5. ASSUME NEW m \in 1 .. n - 1 PROVE q[m] \in ToSet(queue) \ {id}
    <3>1. q[m] = queue[m + 1] /\ m + 1 \in 1 .. n /\ m + 1 # 1 /\ 1 \in 1 .. n
      BY <1>2, <2>1
    <3>. QED
      BY <1>2, <2>2, <3>1 DEF ToSet
  <2>6. ASSUME NEW m \in 1 .. n, m # 1 PROVE queue[m] \in ToSet(q)
    <3>1. m - 1 \in 1 .. n - 1 /\ (m - 1) + 1 = m
      BY <1>2, <2>6
    <3>2. q[m - 1] = queue[m]
      BY <2>1, <3>1
    <3>. QED
      BY <2>1, <3>1, <3>2 DEF ToSet
  <2>7. ToSet(q) = ToSet(queue) \ {id}
    <3>1. ToSet(q) \subseteq ToSet(queue) \ {id}
      BY <2>1, <2>5 DEF ToSet
    <3>2. ToSet(queue) \ {id} \subseteq ToSet(q)
      <4>1. ASSUME NEW x \in ToSet(queue), x # id PROVE x \in ToSet(q)
        <5>1. PICK m \in 1 .. n : x = queue[m]
          BY <1>2 DEF ToSet
        <5>. QED
          BY <1>2, <2>6, <4>1, <5>1
      <4>. QED
        BY <4>1
    <3>. QED
      BY <3>1, <3>2
  <2>. QED
    BY <1>1, <1>2, <1>5, <2>1, <2>4, <2>7 DEF q
<1>7. GroupsInv'
  BY <1>1, <1>5, <1>6 DEF JoinerInv, GroupsInv
<1>8. CASE learned' = learned
  <2>1. LearnedBefore'
    BY <1>1, <1>5, <1>8 DEF JoinerInv, LearnedInv, LearnedBefore
  <2>2. LearnedInv'
    BY <1>8, <2>1 DEF JoinerInv, LearnedInv, LearnedOnce, LearnedIsRight, LearnedIsJustified
  <2>. QED
    BY <1>4, <1>7, <2>2 DEF JoinerInv
<1>9. ASSUME je.found, je.ok, Learnable(je), NEW r \in RewardsOf(je),
             learned' = Append(learned, [id |-> id, rewards |-> r, group |-> group,
                                         config |-> config])
      PROVE  LearnedInv'
  <2>. DEFINE l == [id |-> id, rewards |-> r, group |-> group, config |-> config]
              c == Len(learned)
  <2>1. l.id = id /\ l.group = group
    OBVIOUS
  <2>. HIDE DEF l
  <2>2. PICK S : learned \in Seq(S)
    BY DEF JoinerInv, LearnedInv
  <2>3. /\ learned' \in Seq(S \cup {l}) /\ DOMAIN learned' = 1 .. c + 1 /\ c \in Nat
        /\ DOMAIN learned = 1 .. c
        /\ learned'[c + 1] = l /\ \A k \in 1 .. c : learned'[k] = learned[k]
    BY <1>9, <2>2 DEF l
  <2>4. \A k \in DOMAIN learned' : k = c + 1 \/ k \in DOMAIN learned
    BY <2>3
  <2>. HIDE DEF c
  <2>5. \A k \in DOMAIN learned' : learned'[k].group \in Seq(Event)
    BY <1>3, <2>1, <2>3, <2>4 DEF JoinerInv, LearnedInv
  <2>6. LearnedBefore'
    <3>1. \A m \in DOMAIN group : group[m].from <= payload
      BY <1>3 DEF JoinerInv, GroupsInv
    <3>2. id \notin DOMAIN grouped'
      BY <1>5
    <3>3. ASSUME NEW k \in DOMAIN learned', NEW m \in DOMAIN learned'[k].group
          PROVE  /\ learned'[k].group[m].from <= payload
                 /\ learned'[k].id \in DOMAIN grouped' =>
                      \A j \in DOMAIN grouped'[learned'[k].id] :
                         learned'[k].group[m].from # grouped'[learned'[k].id][j].from
      <4>1. CASE k = c + 1
        BY <2>1, <2>3, <3>1, <3>2, <3>3, <4>1
      <4>2. CASE k \in DOMAIN learned
        BY <1>5, <2>3, <3>3, <4>2 DEF JoinerInv, LearnedInv, LearnedBefore
      <4>. QED
        BY <2>4, <4>1, <4>2
    <3>. QED
      BY <1>1, <3>3 DEF LearnedBefore
  <2>7. LearnedOnce'
    <3>1. ASSUME NEW k \in DOMAIN learned, learned[k].id = id,
                 NEW m \in DOMAIN learned[k].group, NEW j \in DOMAIN group
          PROVE  learned[k].group[m].from # group[j].from
      BY <1>3, <3>1 DEF JoinerInv, LearnedInv, LearnedBefore
    <3>2. ASSUME NEW j \in DOMAIN learned', NEW k \in DOMAIN learned',
                 j # k, learned'[j].id = learned'[k].id,
                 NEW m \in DOMAIN learned'[j].group, NEW x \in DOMAIN learned'[k].group
          PROVE  learned'[j].group[m].from # learned'[k].group[x].from
      <4>1. CASE j = c + 1
        <5>1. k \in DOMAIN learned /\ learned'[k] = learned[k] /\ learned'[j] = l
          BY <2>3, <2>4, <3>2, <4>1
        <5>. QED
          BY <2>1, <3>1, <3>2, <5>1
      <4>2. CASE k = c + 1
        <5>1. j \in DOMAIN learned /\ learned'[j] = learned[j] /\ learned'[k] = l
          BY <2>3, <2>4, <3>2, <4>2
        <5>. QED
          BY <2>1, <3>1, <3>2, <5>1
      <4>3. CASE j \in DOMAIN learned /\ k \in DOMAIN learned
        BY <2>3, <3>2, <4>3 DEF JoinerInv, LearnedInv, LearnedOnce
      <4>. QED
        BY <2>4, <4>1, <4>2, <4>3
    <3>. QED
      BY <3>2 DEF LearnedOnce
  <2>8. LearnedIsRight'
    <3>1. IsJustified(l) /\ IsRewarded(l)
      <4>1. /\ Joined(group).found /\ Joined(group).ok /\ Learnable(Joined(group))
            /\ r \in RewardsOf(Joined(group))
            /\ l = [id |-> id, rewards |-> r, group |-> group, config |-> config]
        BY <1>9 DEF l, je
      <4>2. config.function \in RewardFunctions
        BY <1>1 DEF JoinerInv, CountersInv, Ready
      <4>. HIDE DEF group
      <4>. QED
        BY <1>3, <4>1, <4>2, LearnableJustified, LearnableRewarded
    <3>2. \A k \in DOMAIN learned : IsJustified(learned[k]) /\ IsRewarded(learned[k])
      BY DEF JoinerInv, LearnedInv, LearnedIsRight, LearnedIsJustified
    <3>3. ASSUME NEW k \in DOMAIN learned' PROVE IsJustified(learned'[k]) /\ IsRewarded(learned'[k])
      BY <2>3, <2>4, <3>1, <3>2
    <3>. QED
      BY <3>3 DEF LearnedIsRight, LearnedIsJustified
  <2>. QED
    BY <2>3, <2>5, <2>6, <2>7, <2>8 DEF LearnedInv
<1>. QED
  BY <1>1, <1>4, <1>7, <1>8, <1>9 DEF JoinerInv

\* process_event gives up: the groups stay as they are, or all of them go.
LEMMA GroupFailsInv ==
  ASSUME JoinerInv, NEW cleared \in BOOLEAN, GroupFails(cleared)
  PROVE  JoinerInv'
<1>1. /\ pc' = "reading" /\ events < MaxEvents /\ events' = events + 1
      /\ UNCHANGED <<config, fixed, payload, learned>>
  BY DEF GroupFails
<1>2. CountersInv'
  BY <1>1, JoinerAssumption DEF JoinerInv, CountersInv, JoinerAssumption, Ready
<1>3. CASE cleared
  <2>1. grouped' = NoGroups /\ queue' = <<>>
    BY <1>3 DEF GroupFails
  <2>2. GroupsInv'
    BY <2>1 DEF GroupsInv, NoGroups, IsInjective, ToSet
  <2>3. DOMAIN grouped' = {}
    BY <2>1 DEF NoGroups
  <2>4. LearnedInv'
    BY <1>1, <2>3 DEF JoinerInv, LearnedInv, LearnedBefore, LearnedOnce, LearnedIsRight, LearnedIsJustified
  <2>. QED
    BY <1>2, <2>2, <2>4 DEF JoinerInv
<1>4. CASE ~cleared
  <2>1. grouped' = grouped /\ queue' = queue
    BY <1>4 DEF GroupFails
  <2>2. GroupsInv'
    BY <1>1, <2>1 DEF JoinerInv, GroupsInv
  <2>3. LearnedInv'
    BY <1>1, <2>1 DEF JoinerInv, LearnedInv, LearnedBefore, LearnedOnce, LearnedIsRight, LearnedIsJustified
  <2>. QED
    BY <1>2, <2>2, <2>3 DEF JoinerInv
<1>. QED
  BY <1>3, <1>4

\* What leaves groups, queue and examples alone, and the payload but for its
\* number, preserves the invariant; what was learned lies before the payload
\* that is next.
LEMMA MessageInv ==
  ASSUME JoinerInv, UNCHANGED <<grouped, queue, learned, events>>,
         CountersInv', payload' >= payload,
         pc' = "grouping" => pc = "grouping" \/ payload' > payload
  PROVE  JoinerInv'
<1>1. payload \in Nat /\ payload' \in Nat
  BY DEF JoinerInv, CountersInv
<1>2. ASSUME NEW id \in DOMAIN grouped, NEW m \in DOMAIN grouped[id]
      PROVE  grouped[id][m].from <= payload'
  <2>1. grouped[id][m] \in Event
    BY DEF JoinerInv, GroupsInv
  <2>2. grouped[id][m].from \in Nat /\ grouped[id][m].from <= payload
    BY <2>1 DEF Event, JoinerInv, GroupsInv
  <2>. QED
    BY <1>1, <2>2
<1>3. GroupsInv'
  BY <1>2 DEF JoinerInv, GroupsInv
<1>4. ASSUME NEW k \in DOMAIN learned, NEW m \in DOMAIN learned[k].group
      PROVE  /\ learned[k].group[m].from <= payload'
             /\ pc' = "grouping" => learned[k].group[m].from < payload'
  <2>1. learned[k].group[m] \in Event
    BY DEF JoinerInv, LearnedInv
  <2>2. /\ learned[k].group[m].from \in Nat /\ learned[k].group[m].from <= payload
        /\ pc = "grouping" => learned[k].group[m].from < payload
    BY <2>1 DEF Event, JoinerInv, LearnedInv, LearnedBefore
  <2>. QED
    BY <1>1, <2>2
<1>5. LearnedBefore'
  BY <1>4 DEF JoinerInv, LearnedInv, LearnedBefore
<1>6. LearnedInv'
  BY <1>5 DEF JoinerInv, LearnedInv, LearnedOnce, LearnedIsRight, LearnedIsJustified
<1>. QED
  BY <1>3, <1>6 DEF JoinerInv

\* Every step preserves the invariant.
LEMMA JoinerStep ==
  ASSUME JoinerInv, [Next]_vars
  PROVE  JoinerInv'
<1>0. payload \in Nat /\ MaxPayloads \in Nat /\ payload <= MaxPayloads
  BY JoinerAssumption DEF JoinerAssumption, JoinerInv, CountersInv
<1>1. ASSUME NEW c \in Configs, ReadCheckpoint(c) PROVE JoinerInv'
  <2>1. CountersInv' /\ UNCHANGED <<pc, payload, events, grouped, queue, learned>>
    <3>1. /\ pc = "reading" /\ UNCHANGED <<pc, payload, events, grouped, queue, learned>>
          /\ config' = [s \in Settings |-> IF s \in fixed THEN config[s] ELSE c[s]]
      BY <1>1 DEF ReadCheckpoint
    <3>2. /\ DOMAIN config' = Settings
          /\ config'.function = config.function \/ config'.function = c.function
      BY <3>1 DEF Settings
    <3>. QED
      BY <3>1, <3>2, JoinerAssumption DEF JoinerAssumption, JoinerInv, CountersInv
  <2>. QED
    BY <1>0, <2>1, MessageInv
<1>2. CASE IgnoreRegular
  <2>1. /\ CountersInv' /\ UNCHANGED <<events, grouped, queue, learned>>
        /\ payload' > payload /\ payload' >= payload
    BY <1>0, <1>2 DEF IgnoreRegular, JoinerInv, CountersInv, Ready
  <2>. QED
    BY <2>1, MessageInv
<1>3. CASE ReadRegular
  <2>1. /\ CountersInv' /\ UNCHANGED <<events, grouped, queue, learned>>
        /\ payload' > payload /\ payload' >= payload
    BY <1>0, <1>3 DEF ReadRegular, JoinerInv, CountersInv, Ready
  <2>. QED
    BY <2>1, MessageInv
<1>4. ASSUME NEW id \in EventIds, NEW i \in Interactions, GroupInteraction(id, i) PROVE JoinerInv'
  <2>. DEFINE e == [content |-> i, interaction |-> TRUE, from |-> payload]
  <2>1. e \in Event /\ e.from = payload
    BY <1>0 DEF Event
  <2>2. Group(id, e)
    BY <1>4 DEF GroupInteraction
  <2>. HIDE DEF e
  <2>. QED
    BY <2>1, <2>2, GroupInv
<1>5. ASSUME NEW id \in EventIds, NEW o \in Outcomes, GroupOutcome(id, o) PROVE JoinerInv'
  <2>. DEFINE e == [content |-> o, interaction |-> FALSE, from |-> payload]
  <2>1. e \in Event /\ e.from = payload
    BY <1>0 DEF Event
  <2>2. Group(id, e)
    BY <1>5 DEF GroupOutcome
  <2>. HIDE DEF e
  <2>. QED
    BY <2>1, <2>2, GroupInv
<1>6. ASSUME NEW cleared \in BOOLEAN, GroupFails(cleared) PROVE JoinerInv'
  BY <1>6, GroupFailsInv
<1>7. CASE EndPayload \/ EndBatch \/ Eof \/ UNCHANGED vars
  <2>1. /\ CountersInv' /\ UNCHANGED <<payload, events, grouped, queue, learned>>
        /\ pc' = "grouping" => pc = "grouping"
    BY <1>7 DEF EndPayload, EndBatch, Eof, vars, JoinerInv, CountersInv, Ready
  <2>. QED
    BY <1>0, <2>1, MessageInv
<1>8. CASE ProcessJoined
  BY <1>8, ProcessJoinedInv
<1>. QED
  BY <1>1, <1>2, <1>3, <1>4, <1>5, <1>6, <1>7, <1>8 DEF Next

\* The inductive invariant of the joiner (parse_example_binary.cc,
\* example_joiner.cc): counters, groups and queue, and where what was learned
\* came from.
THEOREM Invariant == Spec => []JoinerInv
BY InitInv, JoinerStep, PTL DEF Spec

-----------------------------------------------------------------------------
(* The properties of the joiner                                            *)

\* Whatever payload fails half way, each group is queued once and each id of
\* the queue has its group (example_joiner::process_event and clear_batch_info).
THEOREM Queue == Spec => []QueueMatchesGroups
<1>1. JoinerInv => QueueMatchesGroups
  BY DEF JoinerInv, CountersInv, GroupsInv, QueueMatchesGroups, TypeOK
<1>. QED
  BY <1>1, Invariant, PTL

\* However many payloads an id turns up in, no two examples of it share a
\* payload: what was grouped is learned from once (process_joined clears it).
THEOREM Once == Spec => []LearnedOnce
<1>1. JoinerInv => LearnedOnce
  BY DEF JoinerInv, LearnedInv
<1>. QED
  BY <1>1, Invariant, PTL

\* In whatever order interactions and outcomes of an id arrive, an example is
\* made of the first interaction that fits, and only if all that follows it can
\* be read and activates it where it is deferred (process_joined).
THEOREM Justification == Spec => []LearnedIsJustified
<1>1. JoinerInv => LearnedIsJustified
  BY DEF JoinerInv, LearnedInv, LearnedIsRight
<1>. QED
  BY <1>1, Invariant, PTL

\* Whatever outcomes arrive in whatever order, an example is rewarded, in each of
\* its slots, for the outcomes of its own event and slot that were read after its
\* interaction, all of them and no others, as the configured function says
\* (process_joined, calc_cost and reward.h).
THEOREM Reward == Spec => []LearnedIsRight
<1>1. JoinerInv => LearnedIsRight
  BY DEF JoinerInv, LearnedInv
<1>. QED
  BY <1>1, Invariant, PTL

-----------------------------------------------------------------------------
(* Multi-step episodes: loops over outcomes and rewards                    *)

\* The loop over outcomes that keeps those at some places.
LEMMA PickedSteps ==
  ASSUME NEW V, NEW s \in Seq(V), NEW places
  PROVE  \E h : /\ h \in [0 .. Len(s) -> Seq(V)]
                /\ h[0] = <<>>
                /\ \A k \in 1 .. Len(s) :
                     h[k] = IF k \in places THEN Append(h[k - 1], s[k]) ELSE h[k - 1]
                /\ Picked(s, places) = h[Len(s)]
<1>. DEFINE n == Len(s)
            A == Seq(V)
            base == <<>>
            F == [x \in A \X (1 .. n) |->
                    LET acc == x[1]
                        k == x[2]
                    IN  IF k \in places THEN Append(acc, s[k]) ELSE acc]
            Eq(h) == h = [k \in 0 .. n |->
                            IF k = 0 THEN base
                            ELSE IF k \in places THEN Append(h[k - 1], s[k]) ELSE h[k - 1]]
            f == CHOOSE h : Eq(h)
<1>1. n \in Nat /\ base \in A
  OBVIOUS
<1>2. F \in [A \X (1 .. n) -> A]
  OBVIOUS
<1>3. PICK g : IsLoop(g, n, A, base, F)
  <2>. HIDE DEF F, n, A, base
  <2>. QED
    BY <1>1, <1>2, LoopExists
<1>4. Eq(g)
  <2>. HIDE DEF A, n, base
  <2>1. \A k \in 1 .. n : k # 0 /\ k - 1 \in 0 .. n /\ g[k - 1] \in A
    BY <1>1, <1>3 DEF IsLoop
  <2>2. \A k \in 0 .. n : k = 0 \/ k \in 1 .. n
    BY <1>1
  <2>3. \A k \in 0 .. n : g[k] = IF k = 0 THEN base
                              ELSE IF k \in places THEN Append(g[k - 1], s[k]) ELSE g[k - 1]
    BY <1>3, <2>1, <2>2 DEF IsLoop
  <2>. QED
    BY <1>3, <2>3 DEF IsLoop
<1>5. Eq(f)
  <2>. HIDE DEF Eq
  <2>. QED
    BY <1>4
<1>6. Picked(s, places) = f[Len(s)]
  BY DEF Picked
<1>. HIDE DEF f
<1>7. /\ f[0] = base
      /\ \A k \in 1 .. n : f[k] = IF k \in places THEN Append(f[k - 1], s[k]) ELSE f[k - 1]
  <2>1. \A k \in 1 .. n : k \in 0 .. n /\ k # 0
    BY <1>1
  <2>2. 0 \in 0 .. n
    BY <1>1
  <2>. HIDE DEF base
  <2>. QED
    BY <1>5, <2>1, <2>2
<1>8. f \in [0 .. n -> A]
  <2>. DEFINE R == {k \in 0 .. n : f[k] \in A}
  <2>1. 0 \in R
    <3>. HIDE DEF A, n, base
    <3>. QED
      BY <1>1, <1>7
  <2>2. ASSUME NEW k \in 1 .. n, k - 1 \in R PROVE k \in R
    <3>1. F[<<f[k - 1], k>>] \in A /\ f[k] = F[<<f[k - 1], k>>]
      <4>. HIDE DEF A, n
      <4>. QED
        BY <1>2, <1>7, <2>2
    <3>. HIDE DEF A, n, F
    <3>. QED
      BY <1>1, <3>1
  <2>3. \A k \in 0 .. n : k \in R
    <3>. HIDE DEF R
    <3>. QED
      BY <1>1, <2>1, <2>2, BoundedInduction
  <2>4. DOMAIN f = 0 .. n /\ f = [k \in 0 .. n |-> f[k]]
    BY <1>5
  <2>. QED
    BY <2>3, <2>4
<1>. QED
  BY <1>6, <1>7, <1>8

\* The loop of the sums from the back.
LEMMA SuffixSumSteps ==
  ASSUME NEW s \in Seq(Int)
  PROVE  \E h : /\ h \in [0 .. Len(s) -> Int]
                /\ h[0] = 0
                /\ \A k \in 1 .. Len(s) :
                     h[k] = h[k - 1] + s[Len(s) - k + 1]
                /\ SuffixSum(s) = [k \in 1 .. Len(s) |-> h[Len(s) - k + 1]]
<1>. DEFINE n == Len(s)
            A == Int
            base == 0
            F == [x \in A \X (1 .. n) |->
                    LET acc == x[1]
                        k == x[2]
                    IN  acc + s[Len(s) - k + 1]]
            Eq(h) == h = [k \in 0 .. n |->
                            IF k = 0 THEN base
                            ELSE h[k - 1] + s[Len(s) - k + 1]]
            f == CHOOSE h : Eq(h)
<1>1. n \in Nat /\ base \in A
  OBVIOUS
<1>2. F \in [A \X (1 .. n) -> A]
  OBVIOUS
<1>3. PICK g : IsLoop(g, n, A, base, F)
  <2>. HIDE DEF F, n, A, base
  <2>. QED
    BY <1>1, <1>2, LoopExists
<1>4. Eq(g)
  <2>. HIDE DEF A, n, base
  <2>1. \A k \in 1 .. n : k # 0 /\ k - 1 \in 0 .. n /\ g[k - 1] \in A
    BY <1>1, <1>3 DEF IsLoop
  <2>2. \A k \in 0 .. n : k = 0 \/ k \in 1 .. n
    BY <1>1
  <2>3. \A k \in 0 .. n : g[k] = IF k = 0 THEN base
                              ELSE g[k - 1] + s[Len(s) - k + 1]
    BY <1>3, <2>1, <2>2 DEF IsLoop
  <2>. QED
    BY <1>3, <2>3 DEF IsLoop
<1>5. Eq(f)
  <2>. HIDE DEF Eq
  <2>. QED
    BY <1>4
<1>6. SuffixSum(s) = [k \in 1 .. Len(s) |-> f[Len(s) - k + 1]]
  BY DEF SuffixSum
<1>. HIDE DEF f
<1>7. /\ f[0] = base
      /\ \A k \in 1 .. n : f[k] = f[k - 1] + s[Len(s) - k + 1]
  <2>1. \A k \in 1 .. n : k \in 0 .. n /\ k # 0
    BY <1>1
  <2>2. 0 \in 0 .. n
    BY <1>1
  <2>. HIDE DEF base
  <2>. QED
    BY <1>5, <2>1, <2>2
<1>8. f \in [0 .. n -> A]
  <2>. DEFINE R == {k \in 0 .. n : f[k] \in A}
  <2>1. 0 \in R
    <3>. HIDE DEF A, n, base
    <3>. QED
      BY <1>1, <1>7
  <2>2. ASSUME NEW k \in 1 .. n, k - 1 \in R PROVE k \in R
    <3>1. F[<<f[k - 1], k>>] \in A /\ f[k] = F[<<f[k - 1], k>>]
      <4>. HIDE DEF A, n
      <4>. QED
        BY <1>2, <1>7, <2>2
    <3>. HIDE DEF A, n, F
    <3>. QED
      BY <1>1, <3>1
  <2>3. \A k \in 0 .. n : k \in R
    <3>. HIDE DEF R
    <3>. QED
      BY <1>1, <2>1, <2>2, BoundedInduction
  <2>4. DOMAIN f = 0 .. n /\ f = [k \in 0 .. n |-> f[k]]
    BY <1>5
  <2>. QED
    BY <2>3, <2>4
<1>. QED
  BY <1>6, <1>7, <1>8

-----------------------------------------------------------------------------
(* The walk over the forest of an episode                                  *)

\* The types of a walk: what is on its stack, and in its layers.
Nodes == InteractionIds \cup {NoId}
Entries == [time : Times, id : InteractionIds]
Walks == [stack : Seq(Nodes), layers : [Nodes -> SUBSET Entries], result : Seq(InteractionIds)]

\* Interactions as the client logs them: each id once.
Forest(S) ==
  /\ IsFiniteSet(S)
  /\ \A i \in S : i.id \in InteractionIds /\ i.previous \in Nodes /\ i.time \in Times
  /\ \A i, j \in S : i.id = j.id => i = j

Entry(i) == [time |-> i.time, id |-> i.id]

\* A set of numbers has a least one.
LEMMA LeastNat ==
  ASSUME NEW T \in SUBSET Nat, NEW n \in T
  PROVE  \E t \in T : \A u \in T : t <= u
<1>. SUFFICES ASSUME \A t \in T : \E u \in T : u < t PROVE FALSE
  OBVIOUS
<1>. DEFINE R == {k \in 0 .. n : \A u \in T : k < u}
<1>1. 0 \in R
  OBVIOUS
<1>2. ASSUME NEW k \in 1 .. n, k - 1 \in R PROVE k \in R
  <2>1. \A u \in T : k <= u
    BY <1>2
  <2>2. k \notin T
    BY <2>1
  <2>. QED
    BY <2>1, <2>2
<1>3. n \in R
  <2>. HIDE DEF R
  <2>. QED
    BY <1>1, <1>2, BoundedInduction
<1>. QED
  BY <1>3

\* A layer has a foremost entry.
LEMMA ForemostInLayer ==
  ASSUME NEW layer \in SUBSET Entries, layer # {}
  PROVE  Foremost(layer) \in layer
<1>. DEFINE T == {e.time : e \in layer}
<1>1. T \in SUBSET Nat /\ T # {}
  BY MultistepAssumption DEF Entries
<1>2. PICK t \in T : \A u \in T : t <= u
  <2>. HIDE DEF T
  <2>. QED
    BY <1>1, LeastNat
<1>. DEFINE I == {e.id : e \in {f \in layer : f.time = t}}
<1>3. I \in SUBSET Nat /\ I # {}
  <2>1. \A e \in layer : e.id \in Nat
    BY MultistepAssumption DEF Entries
  <2>2. \E e \in layer : e.time = t
    BY <1>2
  <2>. QED
    BY <2>1, <2>2
<1>4. PICK k \in I : \A u \in I : k <= u
  <2>. HIDE DEF I
  <2>. QED
    BY <1>3, LeastNat
<1>5. PICK e \in layer : e.time = t /\ e.id = k
  BY <1>4
<1>6. ASSUME NEW f \in layer \ {e}
      PROVE  e.time < f.time \/ (e.time = f.time /\ e.id < f.id)
  <2>1. /\ e = [time |-> t, id |-> k] /\ f = [time |-> f.time, id |-> f.id]
        /\ f.time \in Nat /\ f.id \in Nat /\ t \in Nat /\ k \in Nat
    BY <1>5, MultistepAssumption DEF Entries
  <2>2. t <= f.time
    BY <1>2
  <2>3. f.time = t => k <= f.id
    BY <1>4
  <2>4. f.time = t => f.id # k
    BY <2>1, <1>6
  <2>. QED
    BY <1>5, <2>1, <2>2, <2>3, <2>4
<1>. QED
  BY <1>6 DEF Foremost

\* The type of a turn.
LEMMA TurnTyped ==
  ASSUME NEW w \in Walks
  PROVE  Turn(w) \in Walks
<1>1. CASE w.stack = <<>>
  BY <1>1 DEF Turn
<1>2. CASE w.stack # <<>> /\ w.layers[Head(w.stack)] = {}
  <2>1. Tail(w.stack) \in Seq(Nodes)
    BY <1>2 DEF Walks
  <2>2. Turn(w) = [w EXCEPT !.stack = Tail(w.stack)]
    BY <1>2 DEF Turn
  <2>. QED
    BY <2>1, <2>2 DEF Walks
<1>3. CASE w.stack # <<>> /\ w.layers[Head(w.stack)] # {}
  <2>. DEFINE top == Head(w.stack)
              cur == Foremost(w.layers[top])
  <2>1. w.stack \in Seq(Nodes) /\ top \in Nodes /\ w.layers \in [Nodes -> SUBSET Entries]
        /\ w.result \in Seq(InteractionIds)
    BY <1>3 DEF Walks
  <2>2. cur \in Entries /\ cur.id \in InteractionIds /\ cur.id \in Nodes
    <3>1. cur \in w.layers[top]
      BY <1>3, <2>1, ForemostInLayer
    <3>. QED
      BY <2>1, <3>1 DEF Entries, Nodes
  <2>3. Turn(w) = [stack  |-> <<cur.id>> \o w.stack,
                   layers |-> [w.layers EXCEPT ![top] = @ \ {cur}],
                   result |-> Append(w.result, cur.id)]
    BY <1>3 DEF Turn
  <2>. HIDE DEF top, cur
  <2>4. <<cur.id>> \o w.stack \in Seq(Nodes) /\ Append(w.result, cur.id) \in Seq(InteractionIds)
    BY <2>1, <2>2
  <2>5. [w.layers EXCEPT ![top] = @ \ {cur}] \in [Nodes -> SUBSET Entries]
    BY <2>1
  <2>. QED
    BY <2>3, <2>4, <2>5 DEF Walks
<1>. QED
  BY <1>1, <1>2, <1>3

\* What holds after k turns over the interactions S.
WalkInv(w, k, S) ==
  /\ w \in Walks
  /\ \A m, n \in 1 .. Len(w.result) : w.result[m] = w.result[n] => m = n
  /\ \A p \in Nodes, e \in Entries :
        e \in w.layers[p] <=>
          \E i \in S : i.previous = p /\ i.id \notin ToSet(w.result) /\ e = Entry(i)
  /\ \A n \in 1 .. Len(w.result) : \E i \in S :
        /\ i.id = w.result[n]
        /\ i.previous = NoId \/ \E m \in 1 .. n - 1 : w.result[m] = i.previous
  /\ \A p \in ToSet(w.stack) : p = NoId \/ p \in ToSet(w.result)
  /\ \A p \in ToSet(w.result) \cup {NoId} : p \in ToSet(w.stack) \/ w.layers[p] = {}
  /\ w.stack # <<>> => k + Len(w.stack) = 2 * Len(w.result) + 1

\* One turn.
LEMMA TurnInv ==
  ASSUME NEW S, Forest(S), NEW k \in Nat, NEW w, WalkInv(w, k, S)
  PROVE  WalkInv(Turn(w), k + 1, S)
<1>. DEFINE v == Turn(w)
            top == Head(w.stack)
            l == Len(w.stack)
            r == Len(w.result)
<1>1. v \in Walks /\ w \in Walks
  BY TurnTyped DEF WalkInv
<1>2. /\ w.stack \in Seq(Nodes) /\ w.result \in Seq(InteractionIds)
      /\ w.layers \in [Nodes -> SUBSET Entries] /\ l \in Nat /\ r \in Nat
      /\ DOMAIN w.stack = 1 .. l /\ DOMAIN w.result = 1 .. r
  BY <1>1 DEF Walks
<1>3. CASE w.stack = <<>>
  <2>1. v = w
    BY <1>3 DEF Turn
  <2>. HIDE DEF v
  <2>2. WalkInv(w, k + 1, S)
    <3>. HIDE DEF l, r, top
    <3>. QED
      BY <1>3 DEF WalkInv
  <2>. QED
    BY <2>1, <2>2 DEF v
<1>4. CASE w.stack # <<>> /\ w.layers[top] = {}
  <2>1. v = [w EXCEPT !.stack = Tail(@)]
    BY <1>4 DEF Turn
  <2>2. v.stack = Tail(w.stack) /\ v.layers = w.layers /\ v.result = w.result
    BY <1>1, <2>1 DEF Walks
  <2>3. Len(Tail(w.stack)) = l - 1 /\ DOMAIN Tail(w.stack) = 1 .. l - 1 /\ l > 0
        /\ \A n \in 1 .. l - 1 : Tail(w.stack)[n] = w.stack[n + 1]
    BY <1>2, <1>4
  <2>4. ToSet(w.stack) = ToSet(v.stack) \cup {top}
    <3>1. top = w.stack[1] /\ 1 \in 1 .. l
      BY <1>2, <1>4, <2>3
    <3>2. \A n \in 1 .. l : n = 1 \/ (n - 1 \in 1 .. l - 1 /\ w.stack[n] = Tail(w.stack)[n - 1])
      BY <1>2, <2>3
    <3>3. \A n \in 1 .. l - 1 : n + 1 \in 1 .. l /\ w.stack[n + 1] = Tail(w.stack)[n]
      BY <1>2, <2>3
    <3>. HIDE DEF top, v, l
    <3>4. ASSUME NEW x \in ToSet(w.stack) PROVE x \in ToSet(v.stack) \cup {top}
      <4>1. PICK n \in 1 .. l : x = w.stack[n]
        BY <1>2 DEF ToSet
      <4>2. n = 1 \/ (n - 1 \in DOMAIN v.stack /\ x = v.stack[n - 1])
        BY <2>2, <2>3, <3>2, <4>1
      <4>. QED
        BY <3>1, <4>1, <4>2 DEF ToSet
    <3>5. ToSet(v.stack) \subseteq ToSet(w.stack)
      BY <1>2, <2>2, <2>3, <3>3 DEF ToSet
    <3>6. top \in ToSet(w.stack)
      BY <1>2, <3>1 DEF ToSet
    <3>. QED
      BY <3>4, <3>5, <3>6
  <2>5. (k + 1) + Len(v.stack) = 2 * r + 1
    BY <1>2, <1>4, <2>2, <2>3 DEF WalkInv
  <2>. HIDE DEF v, top, r
  <2>6. \A p \in ToSet(w.result) \cup {NoId} : p \in ToSet(v.stack) \/ w.layers[p] = {}
    BY <1>4, <2>4 DEF WalkInv
  <2>7. \A p \in ToSet(v.stack) : p = NoId \/ p \in ToSet(w.result)
    BY <2>4 DEF WalkInv
  <2>8. WalkInv(v, k + 1, S)
    <3>1. v.result = w.result /\ v.layers = w.layers
      BY <2>2
    <3>2. /\ \A m, n \in 1 .. Len(v.result) : v.result[m] = v.result[n] => m = n
          /\ \A p \in Nodes, e \in Entries :
                e \in v.layers[p] <=>
                  \E i \in S : i.previous = p /\ i.id \notin ToSet(v.result) /\ e = Entry(i)
          /\ \A n \in 1 .. Len(v.result) : \E i \in S :
                /\ i.id = v.result[n]
                /\ i.previous = NoId \/ \E m \in 1 .. n - 1 : v.result[m] = i.previous
      BY <3>1 DEF WalkInv
    <3>3. /\ \A p \in ToSet(v.stack) : p = NoId \/ p \in ToSet(v.result)
          /\ \A p \in ToSet(v.result) \cup {NoId} : p \in ToSet(v.stack) \/ v.layers[p] = {}
      BY <2>6, <2>7, <3>1
    <3>4. (k + 1) + Len(v.stack) = 2 * Len(v.result) + 1
      BY <2>5, <3>1 DEF r
    <3>. QED
      BY <1>1, <3>2, <3>3, <3>4 DEF WalkInv
  <2>. QED
    BY <2>8 DEF v
<1>5. CASE w.stack # <<>> /\ w.layers[top] # {}
  <2>. DEFINE cur == Foremost(w.layers[top])
              stack == <<cur.id>> \o w.stack
              result == Append(w.result, cur.id)
              layers == [w.layers EXCEPT ![top] = @ \ {cur}]
  <2>1. v = [stack |-> stack, layers |-> layers, result |-> result]
    BY <1>5 DEF Turn
  <2>2. v.stack = stack /\ v.layers = layers /\ v.result = result
    BY <2>1
  <2>3. top = w.stack[1] /\ 1 \in 1 .. l /\ top \in ToSet(w.stack) /\ top \in Nodes
    BY <1>2, <1>5 DEF ToSet
  <2>4. cur \in w.layers[top] /\ cur \in Entries
    BY <1>2, <1>5, <2>3, ForemostInLayer
  <2>5. PICK i \in S : i.previous = top /\ i.id \notin ToSet(w.result) /\ cur = Entry(i)
    BY <2>3, <2>4 DEF WalkInv
  <2>6. cur.id = i.id /\ i.id \in InteractionIds
    BY <2>5 DEF Entry, Forest
  <2>7. /\ Len(result) = r + 1 /\ DOMAIN result = 1 .. r + 1 /\ result[r + 1] = i.id
        /\ \A n \in 1 .. r : result[n] = w.result[n]
    BY <1>2, <2>6
  <2>8. /\ Len(stack) = l + 1 /\ DOMAIN stack = 1 .. l + 1 /\ stack[1] = i.id
        /\ \A n \in 1 .. l : stack[n + 1] = w.stack[n]
    BY <1>2, <2>6
  <2>. HIDE DEF v, top, cur, stack, result, l, r
  <2>9. ToSet(result) = ToSet(w.result) \cup {i.id}
    <3>1. \A n \in 1 .. r + 1 : n = r + 1 \/ n \in 1 .. r
      BY <1>2
    <3>2. \A n \in 1 .. r : n \in 1 .. r + 1
      BY <1>2
    <3>3. r + 1 \in 1 .. r + 1
      BY <1>2
    <3>4. ToSet(result) \subseteq ToSet(w.result) \cup {i.id}
      BY <1>2, <2>7, <3>1 DEF ToSet
    <3>5. ToSet(w.result) \subseteq ToSet(result)
      BY <1>2, <2>7, <3>2 DEF ToSet
    <3>6. i.id \in ToSet(result)
      BY <2>7, <3>3 DEF ToSet
    <3>. QED
      BY <3>4, <3>5, <3>6
  <2>10. ToSet(stack) = ToSet(w.stack) \cup {i.id}
    <3>1. \A n \in 1 .. l + 1 : n = 1 \/ (n - 1 \in 1 .. l /\ stack[n] = w.stack[n - 1])
      BY <1>2, <2>8
    <3>2. \A n \in 1 .. l : n + 1 \in 1 .. l + 1
      BY <1>2
    <3>3. 1 \in 1 .. l + 1
      BY <1>2
    <3>4. ToSet(stack) \subseteq ToSet(w.stack) \cup {i.id}
      <4>1. ASSUME NEW n \in 1 .. l + 1 PROVE stack[n] \in ToSet(w.stack) \cup {i.id}
        BY <1>2, <2>8, <3>1 DEF ToSet
      <4>. QED
        BY <2>8, <4>1 DEF ToSet
    <3>5. ToSet(w.stack) \subseteq ToSet(stack)
      BY <1>2, <2>8, <3>2 DEF ToSet
    <3>6. i.id \in ToSet(stack)
      BY <2>8, <3>3 DEF ToSet
    <3>. QED
      BY <3>4, <3>5, <3>6
  <2>11. \A m, n \in 1 .. r + 1 : result[m] = result[n] => m = n
    <3>1. \A m, n \in 1 .. r : w.result[m] = w.result[n] => m = n
      BY DEF WalkInv, r
    <3>2. \A n \in 1 .. r : result[n] # i.id
      BY <1>2, <2>5, <2>7 DEF ToSet
    <3>3. \A n \in 1 .. r + 1 : n = r + 1 \/ n \in 1 .. r
      BY <1>2
    <3>. QED
      BY <2>7, <3>1, <3>2, <3>3
  <2>12. ASSUME NEW p \in Nodes, NEW e \in Entries
         PROVE  e \in layers[p] <=>
                  \E j \in S : j.previous = p /\ j.id \notin ToSet(result) /\ e = Entry(j)
    <3>1. e \in w.layers[p] <=>
            \E j \in S : j.previous = p /\ j.id \notin ToSet(w.result) /\ e = Entry(j)
      BY DEF WalkInv
    <3>2. e \in layers[p] <=> e \in w.layers[p] /\ ~(p = top /\ e = cur)
      BY <1>2
    <3>3. ASSUME e \in layers[p]
          PROVE  \E j \in S : j.previous = p /\ j.id \notin ToSet(result) /\ e = Entry(j)
      <4>1. PICK j \in S : j.previous = p /\ j.id \notin ToSet(w.result) /\ e = Entry(j)
        BY <3>1, <3>2, <3>3
      <4>2. j.id # i.id
        BY <2>5, <3>2, <3>3, <4>1 DEF Forest
      <4>. QED
        BY <2>9, <4>1, <4>2
    <3>4. ASSUME NEW j \in S, j.previous = p, j.id \notin ToSet(result), e = Entry(j)
          PROVE  e \in layers[p]
      <4>1. j.id \notin ToSet(w.result) /\ j.id # i.id
        BY <2>9, <3>4
      <4>2. e # cur
        BY <2>5, <3>4, <4>1 DEF Entry
      <4>. QED
        BY <3>1, <3>2, <3>4, <4>1, <4>2
    <3>. QED
      BY <3>3, <3>4
  <2>13. ASSUME NEW n \in 1 .. r + 1
         PROVE  \E j \in S : /\ j.id = result[n]
                             /\ j.previous = NoId \/ \E m \in 1 .. n - 1 : result[m] = j.previous
    <3>1. CASE n \in 1 .. r
      <4>1. PICK j \in S : /\ j.id = w.result[n]
                           /\ j.previous = NoId \/ \E m \in 1 .. n - 1 : w.result[m] = j.previous
        BY <3>1 DEF WalkInv, r
      <4>2. \A m \in 1 .. n - 1 : m \in 1 .. r
        BY <1>2, <3>1
      <4>. QED
        BY <2>7, <3>1, <4>1, <4>2
    <3>2. CASE n = r + 1
      <4>1. top = NoId \/ top \in ToSet(w.result)
        BY <2>3 DEF WalkInv
      <4>2. top = NoId \/ \E m \in 1 .. r : result[m] = top
        BY <1>2, <2>7, <4>1 DEF ToSet
      <4>3. n - 1 = r
        BY <1>2, <3>2
      <4>. QED
        BY <2>5, <2>7, <3>2, <4>2, <4>3
    <3>. QED
      BY <1>2, <3>1, <3>2
  <2>14. \A p \in ToSet(stack) : p = NoId \/ p \in ToSet(result)
    BY <2>9, <2>10 DEF WalkInv
  <2>15. \A p \in ToSet(result) \cup {NoId} : p \in ToSet(stack) \/ layers[p] = {}
    <3>1. ASSUME NEW p \in ToSet(w.result) \cup {NoId} PROVE p \in ToSet(stack) \/ layers[p] = {}
      <4>1. p \in Nodes
        BY <1>2 DEF Nodes, ToSet
      <4>2. p \in ToSet(w.stack) \/ w.layers[p] = {}
        BY DEF WalkInv
      <4>3. layers[p] \subseteq w.layers[p]
        BY <1>2, <4>1
      <4>. QED
        BY <2>10, <4>2, <4>3
    <3>. QED
      BY <2>9, <2>10, <3>1
  <2>16. (k + 1) + (l + 1) = 2 * (r + 1) + 1
    <3>1. k + l = 2 * r + 1
      BY <1>5 DEF WalkInv, l, r
    <3>. QED
      BY <1>2, <3>1
  <2>. HIDE DEF layers
  <2>17. WalkInv(v, k + 1, S)
    BY <1>1, <2>2, <2>7, <2>8, <2>11, <2>12, <2>13, <2>14, <2>15, <2>16 DEF WalkInv
  <2>. QED
    BY <2>17 DEF v
<1>. QED
  BY <1>3, <1>4, <1>5

\* The loop of get, turn by turn.
LEMMA WalkSteps ==
  ASSUME NEW S, Forest(S)
  PROVE  \E h : /\ h \in [0 .. 2 * Cardinality(S) + 1 -> Walks]
                /\ h[0] = [stack |-> <<NoId>>, layers |-> Layers(S), result |-> <<>>]
                /\ \A k \in 1 .. 2 * Cardinality(S) + 1 :
                     h[k] = Turn(h[k - 1])
                /\ PopulateOrder(S) = h[2 * Cardinality(S) + 1].result
<1>. DEFINE n == 2 * Cardinality(S) + 1
            A == Walks
            base == [stack |-> <<NoId>>, layers |-> Layers(S), result |-> <<>>]
            F == [x \in A \X (1 .. n) |->
                    LET acc == x[1]
                        k == x[2]
                    IN  Turn(acc)]
            Eq(h) == h = [k \in 0 .. n |->
                            IF k = 0 THEN base
                            ELSE Turn(h[k - 1])]
            f == CHOOSE h : Eq(h)
<1>1. n \in Nat /\ base \in A
  <2>1. Cardinality(S) \in Nat
    BY FS_CardinalityType DEF Forest
  <2>2. Layers(S) \in [Nodes -> SUBSET Entries]
    BY DEF Layers, Nodes, Entries, Forest
  <2>. QED
    BY <2>1, <2>2 DEF Walks, Nodes
<1>2. F \in [A \X (1 .. n) -> A]
  BY TurnTyped
<1>3. PICK g : IsLoop(g, n, A, base, F)
  <2>. HIDE DEF F, n, A, base
  <2>. QED
    BY <1>1, <1>2, LoopExists
<1>4. Eq(g)
  <2>. HIDE DEF A, n, base
  <2>1. \A k \in 1 .. n : k # 0 /\ k - 1 \in 0 .. n /\ g[k - 1] \in A
    BY <1>1, <1>3 DEF IsLoop
  <2>2. \A k \in 0 .. n : k = 0 \/ k \in 1 .. n
    BY <1>1
  <2>3. \A k \in 0 .. n : g[k] = IF k = 0 THEN base
                              ELSE Turn(g[k - 1])
    BY <1>3, <2>1, <2>2 DEF IsLoop
  <2>. QED
    BY <1>3, <2>3 DEF IsLoop
<1>5. Eq(f)
  <2>. HIDE DEF Eq
  <2>. QED
    BY <1>4
<1>6. PopulateOrder(S) = f[2 * Cardinality(S) + 1].result
  BY DEF PopulateOrder
<1>. HIDE DEF f
<1>7. /\ f[0] = base
      /\ \A k \in 1 .. n : f[k] = Turn(f[k - 1])
  <2>1. \A k \in 1 .. n : k \in 0 .. n /\ k # 0
    BY <1>1
  <2>2. 0 \in 0 .. n
    BY <1>1
  <2>. HIDE DEF base
  <2>. QED
    BY <1>5, <2>1, <2>2
<1>8. f \in [0 .. n -> A]
  <2>. DEFINE R == {k \in 0 .. n : f[k] \in A}
  <2>1. 0 \in R
    <3>. HIDE DEF A, n, base
    <3>. QED
      BY <1>1, <1>7
  <2>2. ASSUME NEW k \in 1 .. n, k - 1 \in R PROVE k \in R
    <3>1. F[<<f[k - 1], k>>] \in A /\ f[k] = F[<<f[k - 1], k>>]
      <4>. HIDE DEF A, n
      <4>. QED
        BY <1>2, <1>7, <2>2
    <3>. HIDE DEF A, n, F
    <3>. QED
      BY <1>1, <3>1
  <2>3. \A k \in 0 .. n : k \in R
    <3>. HIDE DEF R
    <3>. QED
      BY <1>1, <2>1, <2>2, BoundedInduction
  <2>4. DOMAIN f = 0 .. n /\ f = [k \in 0 .. n |-> f[k]]
    BY <1>5
  <2>. QED
    BY <2>3, <2>4
<1>. QED
  BY <1>6, <1>7, <1>8

\* What the order is to be: each interaction once, and after the one it follows;
\* and all those that are first or follow one that is in it.
IsOrder(ids, S) ==
  /\ ids \in Seq(InteractionIds)
  /\ \A m, n \in 1 .. Len(ids) : ids[m] = ids[n] => m = n
  /\ \A n \in 1 .. Len(ids) : \E i \in S :
        /\ i.id = ids[n]
        /\ i.previous = NoId \/ \E m \in 1 .. n - 1 : ids[m] = i.previous
  /\ \A i \in S : (i.previous = NoId \/ i.previous \in ToSet(ids)) => i.id \in ToSet(ids)

\* The start of the walk.
LEMMA WalkStart ==
  ASSUME NEW S, Forest(S), NEW w,
         w = [stack |-> <<NoId>>, layers |-> Layers(S), result |-> <<>>], w \in Walks
  PROVE  WalkInv(w, 0, S)
<1>1. w.stack = <<NoId>> /\ w.layers = Layers(S) /\ w.result = <<>>
  OBVIOUS
<1>2. ToSet(w.stack) = {NoId} /\ Len(w.stack) = 1 /\ ToSet(w.result) = {} /\ Len(w.result) = 0
  BY <1>1 DEF ToSet
<1>3. ASSUME NEW p \in Nodes, NEW e \in Entries
      PROVE  e \in w.layers[p] <=>
               \E i \in S : i.previous = p /\ i.id \notin ToSet(w.result) /\ e = Entry(i)
  <2>1. w.layers[p] = {[time |-> i.time, id |-> i.id] : i \in {j \in S : j.previous = p}}
    BY <1>1 DEF Layers, Nodes
  <2>. QED
    BY <1>2, <2>1 DEF Entry
<1>. QED
  BY <1>2, <1>3 DEF WalkInv

\* When the stack is empty, the result is the order.
LEMMA WalkEnd ==
  ASSUME NEW S, Forest(S), NEW k \in Nat, NEW w, WalkInv(w, k, S), w.stack = <<>>
  PROVE  IsOrder(w.result, S)
<1>1. ToSet(w.stack) = {} /\ w.result \in Seq(InteractionIds)
  BY DEF ToSet, WalkInv, Walks
<1>2. ASSUME NEW i \in S, i.previous = NoId \/ i.previous \in ToSet(w.result),
             i.id \notin ToSet(w.result)
      PROVE  FALSE
  <2>1. w.layers[i.previous] = {}
    BY <1>1, <1>2 DEF WalkInv
  <2>2. Entry(i) \in Entries /\ i.previous \in Nodes
    BY DEF Entry, Entries, Forest
  <2>3. Entry(i) \in w.layers[i.previous]
    BY <1>2, <2>2 DEF WalkInv
  <2>. QED
    BY <2>1, <2>3
<1>. QED
  BY <1>1, <1>2 DEF IsOrder, WalkInv

\* The result has no more ids than there are interactions.
LEMMA ResultFits ==
  ASSUME NEW S, Forest(S), NEW k \in Nat, NEW w, WalkInv(w, k, S)
  PROVE  Len(w.result) <= Cardinality(S) /\ Len(w.result) \in Nat
<1>. DEFINE r == Len(w.result)
            f == [n \in 1 .. r |-> CHOOSE i \in S : i.id = w.result[n]]
<1>1. r \in Nat
  BY DEF WalkInv, Walks
<1>2. \A n \in 1 .. r : f[n] \in S /\ f[n].id = w.result[n]
  BY DEF WalkInv
<1>3. f \in Injection(1 .. r, S)
  <2>1. \A m, n \in 1 .. r : f[m] = f[n] => m = n
    <3>1. \A m, n \in 1 .. r : w.result[m] = w.result[n] => m = n
      BY DEF WalkInv
    <3>. HIDE DEF f, r
    <3>. QED
      BY <1>2, <3>1
  <2>2. f \in [1 .. r -> S]
    BY <1>2
  <2>. HIDE DEF f, r
  <2>. QED
    BY <2>1, <2>2 DEF Injection, IsInjective
<1>4. Cardinality(1 .. r) <= Cardinality(S)
  <2>. HIDE DEF f, r
  <2>. QED
    BY <1>3, FS_Injection DEF Forest
<1>5. Cardinality(1 .. r) = r
  <2>. HIDE DEF f, r
  <2>. QED
    BY <1>1, FS_Interval
<1>. QED
  BY <1>1, <1>4, <1>5

\* Whatever interactions arrived, with whatever times, gaps and cycles, the walk
\* of topo_sorter::get ends within its turns, and what it returns has each
\* interaction at most once and after the one it follows, and leaves out none
\* that is first or follows one that is in it.
THEOREM OrderIsRight ==
  ASSUME NEW S, Forest(S)
  PROVE  IsOrder(PopulateOrder(S), S)
<1>. DEFINE n == 2 * Cardinality(S) + 1
<1>1. PICK h : /\ h \in [0 .. n -> Walks]
               /\ h[0] = [stack |-> <<NoId>>, layers |-> Layers(S), result |-> <<>>]
               /\ \A k \in 1 .. n : h[k] = Turn(h[k - 1])
               /\ PopulateOrder(S) = h[n].result
  BY WalkSteps
<1>2. Cardinality(S) \in Nat /\ n \in Nat
  BY FS_CardinalityType DEF Forest
<1>. DEFINE R == {k \in 0 .. n : WalkInv(h[k], k, S)}
<1>3. 0 \in R
  <2>1. h[0] \in Walks /\ 0 \in 0 .. n
    <3>. HIDE DEF n
    <3>. QED
      BY <1>1, <1>2
  <2>2. WalkInv(h[0], 0, S)
    <3>. HIDE DEF n
    <3>. QED
      BY <1>1, <2>1, WalkStart
  <2>. QED
    BY <2>1, <2>2
<1>4. ASSUME NEW k \in 1 .. n, k - 1 \in R PROVE k \in R
  <2>1. k - 1 \in Nat /\ WalkInv(h[k - 1], k - 1, S) /\ (k - 1) + 1 = k /\ k \in 0 .. n
    BY <1>4
  <2>2. WalkInv(Turn(h[k - 1]), (k - 1) + 1, S)
    <3>. HIDE DEF n
    <3>. QED
      BY <2>1, TurnInv
  <2>3. WalkInv(h[k], k, S)
    <3>. HIDE DEF n
    <3>. QED
      BY <1>1, <2>1, <2>2
  <2>. QED
    BY <2>1, <2>3
<1>5. WalkInv(h[n], n, S)
  <2>1. \A k \in 0 .. n : k \in R
    <3>. HIDE DEF n, R
    <3>. QED
      BY <1>2, <1>3, <1>4, BoundedInduction
  <2>. QED
    BY <1>2, <2>1
<1>6. h[n].stack = <<>>
  <2>1. Len(h[n].result) <= Cardinality(S) /\ Len(h[n].result) \in Nat
    <3>. HIDE DEF n
    <3>. QED
      BY <1>2, <1>5, ResultFits
  <2>2. ASSUME h[n].stack # <<>> PROVE FALSE
    <3>1. n + Len(h[n].stack) = 2 * Len(h[n].result) + 1 /\ h[n].stack \in Seq(Nodes)
      BY <1>5, <2>2 DEF WalkInv, Walks
    <3>2. Len(h[n].stack) > 0 /\ Len(h[n].stack) \in Nat
      BY <2>2, <3>1
    <3>. QED
      BY <1>2, <2>1, <3>1, <3>2
  <2>. QED
    BY <2>2
<1>7. IsOrder(h[n].result, S)
  <2>. HIDE DEF n
  <2>. QED
    BY <1>2, <1>5, <1>6, WalkEnd
<1>. QED
  BY <1>1, <1>7

-----------------------------------------------------------------------------
(* Lines of interactions                                                   *)

\* PreviousOf, Received, LineOf and Rooted, of the interactions I that were
\* logged and those of them, S, that were received.
Prev(I, id) == (CHOOSE i \in I : i.id = id).previous
IdsOf(S) == {i.id : i \in S}
Closed(C, I, S) == \A i \in C : Prev(I, i) \in IdsOf(S) => Prev(I, i) \in C
LineIn(id, I, S) ==
  {j \in IdsOf(S) : \A C \in SUBSET IdsOf(S) : id \in C /\ Closed(C, I, S) => j \in C}
RootedIn(id, I, S) == \E first \in LineIn(id, I, S) : Prev(I, first) = NoId

\* An interaction follows the one it names.
LEMMA PrevIs ==
  ASSUME NEW I, Forest(I), NEW i \in I
  PROVE  Prev(I, i.id) = i.previous
<1>. DEFINE j == CHOOSE x \in I : x.id = i.id
<1>1. j \in I /\ j.id = i.id
  OBVIOUS
<1>. QED
  BY <1>1 DEF Prev, Forest

\* A line is the least closed set.
LEMMA LineIsClosed ==
  ASSUME NEW I, NEW S, NEW id \in IdsOf(S)
  PROVE  /\ id \in LineIn(id, I, S) /\ LineIn(id, I, S) \in SUBSET IdsOf(S)
         /\ Closed(LineIn(id, I, S), I, S)
         /\ \A C \in SUBSET IdsOf(S) : id \in C /\ Closed(C, I, S) => LineIn(id, I, S) \subseteq C
<1>1. id \in LineIn(id, I, S) /\ LineIn(id, I, S) \in SUBSET IdsOf(S)
  BY DEF LineIn
<1>2. ASSUME NEW i \in LineIn(id, I, S), Prev(I, i) \in IdsOf(S)
      PROVE  Prev(I, i) \in LineIn(id, I, S)
  <2>1. ASSUME NEW C \in SUBSET IdsOf(S), id \in C, Closed(C, I, S) PROVE Prev(I, i) \in C
    <3>1. i \in C
      BY <2>1 DEF LineIn
    <3>. QED
      BY <1>2, <2>1, <3>1 DEF Closed
  <2>. QED
    BY <1>2, <2>1 DEF LineIn
<1>3. \A C \in SUBSET IdsOf(S) : id \in C /\ Closed(C, I, S) => LineIn(id, I, S) \subseteq C
  BY DEF LineIn
<1>. QED
  BY <1>1, <1>2, <1>3 DEF Closed

\* The order has the interactions whose line goes back to a first one.
LEMMA OrderIsRooted ==
  ASSUME NEW I, Forest(I), NEW S, S \subseteq I, NEW ids, IsOrder(ids, S)
  PROVE  ToSet(ids) = {id \in IdsOf(S) : RootedIn(id, I, S)}
<1>. DEFINE n == Len(ids)
<1>1. n \in Nat /\ DOMAIN ids = 1 .. n /\ ids \in Seq(InteractionIds)
  BY DEF IsOrder
<1>2. \A k \in 1 .. n : /\ ids[k] \in IdsOf(S)
                        /\ Prev(I, ids[k]) = NoId \/ \E m \in 1 .. k - 1 : ids[m] = Prev(I, ids[k])
  <2>1. ASSUME NEW k \in 1 .. n
        PROVE  /\ ids[k] \in IdsOf(S)
               /\ Prev(I, ids[k]) = NoId \/ \E m \in 1 .. k - 1 : ids[m] = Prev(I, ids[k])
    <3>1. PICK i \in S : /\ i.id = ids[k]
                         /\ i.previous = NoId \/ \E m \in 1 .. k - 1 : ids[m] = i.previous
      BY DEF IsOrder
    <3>2. Prev(I, ids[k]) = i.previous
      BY <3>1, PrevIs
    <3>. QED
      BY <3>1, <3>2 DEF IdsOf
  <2>. QED
    BY <2>1
<1>3. \A k \in 1 .. n : RootedIn(ids[k], I, S)
  <2>. DEFINE R == {k \in 0 .. n : \A m \in 1 .. k : RootedIn(ids[m], I, S)}
  <2>. HIDE DEF n
  <2>1. 0 \in R
    BY <1>1
  <2>2. ASSUME NEW k \in 1 .. n, k - 1 \in R PROVE k \in R
    <3>1. ids[k] \in IdsOf(S) /\ ids[k] \in LineIn(ids[k], I, S)
      BY <1>2, LineIsClosed
    <3>2. CASE Prev(I, ids[k]) = NoId
      <4>1. RootedIn(ids[k], I, S)
        BY <3>1, <3>2 DEF RootedIn
      <4>. QED
        BY <1>1, <2>2, <4>1
    <3>3. CASE Prev(I, ids[k]) # NoId
      <4>1. PICK m \in 1 .. k - 1 : ids[m] = Prev(I, ids[k])
        BY <1>2, <3>3
      <4>2. m \in 1 .. n /\ RootedIn(ids[m], I, S) /\ ids[m] \in IdsOf(S)
        BY <1>1, <1>2, <2>2
      <4>3. LineIn(ids[m], I, S) \subseteq LineIn(ids[k], I, S)
        <5>. DEFINE C == LineIn(ids[k], I, S)
        <5>1. C \in SUBSET IdsOf(S) /\ Closed(C, I, S) /\ ids[k] \in C
          BY <3>1, LineIsClosed
        <5>2. ids[m] \in C
          BY <4>1, <4>2, <5>1 DEF Closed
        <5>. HIDE DEF C
        <5>3. LineIn(ids[m], I, S) \subseteq C
          BY <4>2, <5>1, <5>2, LineIsClosed
        <5>. QED
          BY <5>3 DEF C
      <4>4. RootedIn(ids[k], I, S)
        BY <4>2, <4>3 DEF RootedIn
      <4>. QED
        BY <1>1, <2>2, <4>4
    <3>. QED
      BY <3>2, <3>3
  <2>3. \A k \in 0 .. n : k \in R
    <3>. HIDE DEF R
    <3>. QED
      BY <1>1, <2>1, <2>2, BoundedInduction
  <2>4. n \in R
    BY <1>1, <2>3
  <2>. QED
    BY <2>4
<1>4. ASSUME NEW id \in IdsOf(S), RootedIn(id, I, S), id \notin ToSet(ids) PROVE FALSE
  <2>. DEFINE C == IdsOf(S) \ ToSet(ids)
  <2>1. ASSUME NEW i \in S, i.previous = NoId \/ i.previous \in ToSet(ids)
        PROVE  i.id \in ToSet(ids)
    BY <2>1 DEF IsOrder
  <2>2. ASSUME NEW x \in C
        PROVE  Prev(I, x) # NoId /\ Prev(I, x) \notin ToSet(ids)
    <3>1. PICK i \in S : i.id = x
      BY DEF IdsOf
    <3>2. Prev(I, x) = i.previous
      BY <3>1, PrevIs
    <3>. QED
      BY <2>1, <2>2, <3>1, <3>2
  <2>3. Closed(C, I, S)
    BY <2>2 DEF Closed
  <2>4. id \in C /\ C \in SUBSET IdsOf(S)
    BY <1>4
  <2>. HIDE DEF C
  <2>5. LineIn(id, I, S) \subseteq C
    BY <2>3, <2>4, LineIsClosed
  <2>. QED
    BY <1>4, <2>2, <2>5 DEF RootedIn
<1>5. \A x \in ToSet(ids) : \E k \in 1 .. n : x = ids[k]
  BY <1>1 DEF ToSet
<1>. HIDE DEF n
<1>. QED
  BY <1>2, <1>3, <1>4, <1>5

\* In the order, each comes after the one it follows.
LEMMA OrderFollows ==
  ASSUME NEW I, Forest(I), NEW S, S \subseteq I, NEW ids, IsOrder(ids, S)
  PROVE  /\ IsInjective(ids)
         /\ \A m, n \in DOMAIN ids : Prev(I, ids[n]) = ids[m] => m < n
<1>1. ids \in Seq(InteractionIds) /\ DOMAIN ids = 1 .. Len(ids) /\ Len(ids) \in Nat
  BY DEF IsOrder
<1>2. \A m, n \in 1 .. Len(ids) : ids[m] = ids[n] => m = n
  BY DEF IsOrder
<1>3. ASSUME NEW m \in DOMAIN ids, NEW n \in DOMAIN ids, Prev(I, ids[n]) = ids[m] PROVE m < n
  <2>1. PICK i \in S : /\ i.id = ids[n]
                       /\ i.previous = NoId \/ \E k \in 1 .. n - 1 : ids[k] = i.previous
    BY <1>1 DEF IsOrder
  <2>2. Prev(I, ids[n]) = i.previous
    BY <2>1, PrevIs
  <2>3. ids[m] # NoId
    BY <1>1, MultistepAssumption DEF NoId
  <2>4. PICK k \in 1 .. n - 1 : ids[k] = ids[m]
    BY <1>3, <2>1, <2>2, <2>3
  <2>5. k = m
    BY <1>1, <1>2, <2>4
  <2>. QED
    BY <1>1, <2>4, <2>5
<1>. QED
  BY <1>1, <1>2, <1>3 DEF IsInjective

\* The interactions are one line.
IsLineIn(I, S) ==
  /\ \A i, j \in IdsOf(S) : i # j => Prev(I, i) # Prev(I, j)
  /\ \A i \in IdsOf(S) : RootedIn(i, I, S)

\* The order of a line is the line, from its first interaction.
LEMMA LineInOrder ==
  ASSUME NEW I, Forest(I), NEW S, S \subseteq I, NEW ids, IsOrder(ids, S), IsLineIn(I, S)
  PROVE  /\ ToSet(ids) = IdsOf(S)
         /\ \A k \in 1 .. Len(ids) : Prev(I, ids[k]) = IF k = 1 THEN NoId ELSE ids[k - 1]
<1>. DEFINE n == Len(ids)
<1>1. n \in Nat /\ DOMAIN ids = 1 .. n /\ ids \in Seq(InteractionIds)
      /\ \A k, m \in 1 .. n : ids[k] = ids[m] => k = m
  BY DEF IsOrder
<1>2. ToSet(ids) = IdsOf(S)
  BY OrderIsRooted DEF IsLineIn
<1>3. ASSUME NEW k \in 1 .. n
      PROVE  Prev(I, ids[k]) = NoId \/ \E m \in 1 .. k - 1 : ids[m] = Prev(I, ids[k])
  <2>1. PICK i \in S : /\ i.id = ids[k]
                       /\ i.previous = NoId \/ \E m \in 1 .. k - 1 : ids[m] = i.previous
    BY DEF IsOrder
  <2>2. Prev(I, ids[k]) = i.previous
    BY <2>1, PrevIs
  <2>. QED
    BY <2>1, <2>2
<1>. DEFINE Is(k) == Prev(I, ids[k]) = IF k = 1 THEN NoId ELSE ids[k - 1]
            R == {k \in 0 .. n : \A m \in 1 .. k : Is(m)}
<1>. HIDE DEF n
<1>4. 0 \in R
  BY <1>1
<1>5. ASSUME NEW k \in 1 .. n, k - 1 \in R PROVE k \in R
  <2>1. \A m \in 1 .. k - 1 : Is(m)
    BY <1>5
  <2>2. \A m \in 1 .. k - 1 : ids[m] \in IdsOf(S) /\ ids[k] \in IdsOf(S) /\ ids[m] # ids[k]
    <3>1. \A m \in 1 .. n : ids[m] \in IdsOf(S)
      BY <1>1, <1>2 DEF ToSet
    <3>. QED
      BY <1>1, <3>1
  <2>3. \A m \in 1 .. k - 1 : Prev(I, ids[m]) # Prev(I, ids[k])
    BY <2>2 DEF IsLineIn
  <2>4. Is(k)
    <3>1. CASE k = 1
      BY <1>3, <3>1
    <3>2. CASE k # 1 /\ Prev(I, ids[k]) = NoId
      <4>1. 1 \in 1 .. k - 1
        BY <3>2
      <4>. QED
        BY <2>1, <2>3, <3>2, <4>1
    <3>3. CASE k # 1 /\ Prev(I, ids[k]) # NoId
      <4>1. PICK m \in 1 .. k - 1 : ids[m] = Prev(I, ids[k])
        BY <1>3, <3>3
      <4>2. ASSUME m # k - 1 PROVE FALSE
        <5>1. m + 1 \in 1 .. k - 1 /\ m + 1 # 1 /\ (m + 1) - 1 = m
          BY <4>2
        <5>2. Prev(I, ids[m + 1]) = ids[m]
          BY <2>1, <5>1
        <5>. QED
          BY <2>3, <4>1, <5>1, <5>2
      <4>. QED
        BY <3>3, <4>1, <4>2
    <3>. QED
      BY <3>1, <3>2, <3>3
  <2>. HIDE DEF Is
  <2>5. \A m \in 1 .. k : Is(m)
    BY <2>1, <2>4
  <2>. QED
    BY <2>5
<1>6. \A k \in 0 .. n : k \in R
  <2>. HIDE DEF R
  <2>. QED
    BY <1>1, <1>4, <1>5, BoundedInduction
<1>7. \A k \in 1 .. n : Is(k)
  <2>. HIDE DEF Is
  <2>. QED
    BY <1>1, <1>6
<1>. QED
  BY <1>2, <1>7 DEF n

\* The ids up to place k, and from it on.
UpTo(ids, k) == {ids[m] : m \in 1 .. k}
From(ids, k) == {ids[m] : m \in k .. Len(ids)}

\* The line of an interaction is the order up to it.
LEMMA LineIsPrefix ==
  ASSUME NEW I, Forest(I), NEW S, S \subseteq I, NEW ids, IsOrder(ids, S), IsLineIn(I, S),
         NEW n \in 1 .. Len(ids)
  PROVE  LineIn(ids[n], I, S) = UpTo(ids, n)
<1>. DEFINE C == {ids[m] : m \in 1 .. n}
            D == LineIn(ids[n], I, S)
<1>1. /\ Len(ids) \in Nat /\ DOMAIN ids = 1 .. Len(ids)
      /\ \A k \in 1 .. Len(ids) : ids[k] \in IdsOf(S)
      /\ \A k \in 1 .. Len(ids) : Prev(I, ids[k]) = IF k = 1 THEN NoId ELSE ids[k - 1]
  <2>1. ids \in Seq(InteractionIds) /\ ToSet(ids) = IdsOf(S)
        /\ \A k \in 1 .. Len(ids) : Prev(I, ids[k]) = IF k = 1 THEN NoId ELSE ids[k - 1]
    BY LineInOrder DEF IsOrder
  <2>. QED
    BY <2>1 DEF ToSet
<1>2. NoId \notin IdsOf(S)
  BY MultistepAssumption DEF IdsOf, Forest, NoId
<1>3. C \in SUBSET IdsOf(S) /\ ids[n] \in C
  BY <1>1
<1>4. Closed(C, I, S)
  <2>1. ASSUME NEW m \in 1 .. n, Prev(I, ids[m]) \in IdsOf(S) PROVE Prev(I, ids[m]) \in C
    <3>1. m \in 1 .. Len(ids)
      BY <1>1
    <3>2. m # 1 /\ Prev(I, ids[m]) = ids[m - 1]
      BY <1>1, <1>2, <2>1, <3>1
    <3>3. m - 1 \in 1 .. n
      BY <3>2
    <3>. QED
      BY <3>2, <3>3
  <2>. QED
    BY <2>1 DEF Closed
<1>5. D \subseteq C
  <2>. HIDE DEF C
  <2>. QED
    BY <1>1, <1>3, <1>4, LineIsClosed
<1>6. ids[n] \in D /\ Closed(D, I, S)
  BY <1>1, LineIsClosed
<1>. DEFINE R == {d \in 0 .. n - 1 : ids[n - d] \in D}
<1>7. \A d \in 0 .. n - 1 : d \in R
  <2>. HIDE DEF D
  <2>1. 0 \in R
    BY <1>6
  <2>2. ASSUME NEW d \in 1 .. n - 1, d - 1 \in R PROVE d \in R
    <3>1. /\ n - (d - 1) \in 1 .. Len(ids) /\ n - (d - 1) # 1 /\ (n - (d - 1)) - 1 = n - d
          /\ n - d \in 1 .. Len(ids)
      BY <1>1
    <3>2. Prev(I, ids[n - (d - 1)]) = ids[n - d] /\ ids[n - d] \in IdsOf(S)
      BY <1>1, <3>1
    <3>3. ids[n - d] \in D
      BY <1>6, <2>2, <3>2 DEF Closed
    <3>. QED
      BY <3>3
  <2>3. n - 1 \in Nat
    BY <1>1
  <2>. HIDE DEF R
  <2>. QED
    BY <2>1, <2>2, <2>3, BoundedInduction
<1>8. C \subseteq D
  <2>1. ASSUME NEW m \in 1 .. n PROVE ids[m] \in D
    <3>1. n - m \in 0 .. n - 1 /\ n - (n - m) = m
      OBVIOUS
    <3>2. ids[n - (n - m)] \in D
      <4>. HIDE DEF D
      <4>. QED
        BY <1>7, <3>1
    <3>. QED
      BY <3>1, <3>2
  <2>. HIDE DEF D
  <2>. QED
    BY <2>1
<1>. QED
  BY <1>5, <1>8 DEF UpTo

\* The interactions after one of a line, itself included.
LEMMA AfterIsSuffix ==
  ASSUME NEW I, Forest(I), NEW S, S \subseteq I, NEW ids, IsOrder(ids, S), IsLineIn(I, S),
         NEW n \in 1 .. Len(ids)
  PROVE  {j \in IdsOf(S) : ids[n] \in LineIn(j, I, S)} = From(ids, n)
<1>1. /\ Len(ids) \in Nat /\ DOMAIN ids = 1 .. Len(ids) /\ ToSet(ids) = IdsOf(S)
      /\ \A k, m \in 1 .. Len(ids) : ids[k] = ids[m] => k = m
  BY LineInOrder DEF IsOrder
<1>2. \A m \in 1 .. Len(ids) : LineIn(ids[m], I, S) = UpTo(ids, m)
  BY LineIsPrefix
<1>3. ASSUME NEW m \in 1 .. Len(ids) PROVE ids[n] \in LineIn(ids[m], I, S) <=> n <= m
  <2>1. \A k \in 1 .. m : k \in 1 .. Len(ids)
    BY <1>1
  <2>2. n <= m => n \in 1 .. m
    BY <1>1
  <2>3. ASSUME NEW k \in 1 .. m, ids[n] = ids[k] PROVE n <= m
    BY <1>1, <2>1, <2>3
  <2>4. ids[n] \in UpTo(ids, m) <=> n <= m
    BY <2>2, <2>3 DEF UpTo
  <2>. QED
    BY <1>2, <2>4
<1>4. \A j \in IdsOf(S) : \E m \in 1 .. Len(ids) : j = ids[m]
  BY <1>1 DEF ToSet
<1>5. \A m \in 1 .. Len(ids) : ids[m] \in IdsOf(S)
  BY <1>1 DEF ToSet
<1>6. \A m \in n .. Len(ids) : m \in 1 .. Len(ids) /\ n <= m
  BY <1>1
<1>7. \A m \in 1 .. Len(ids) : n <= m => m \in n .. Len(ids)
  BY <1>1
<1>. QED
  BY <1>3, <1>4, <1>5, <1>6, <1>7 DEF From

\* The sums from the back (multistep_reward_suffix_sum) are the sums over what
\* comes after.
LEMMA SuffixIsSum ==
  ASSUME NEW ids, Len(ids) \in Nat, \A k, m \in 1 .. Len(ids) : ids[k] = ids[m] => k = m,
         NEW own, \A k \in 1 .. Len(ids) : own[ids[k]].value \in Int,
         NEW s \in Seq(Int), Len(s) = Len(ids), \A k \in 1 .. Len(ids) : s[k] = own[ids[k]].value
  PROVE  /\ SuffixSum(s) \in [1 .. Len(ids) -> Int]
         /\ \A k \in 1 .. Len(ids) : /\ SuffixSum(s)[k] = Total(own, From(ids, k))
                                     /\ Cardinality(From(ids, k)) = Len(ids) - k + 1
<1>. DEFINE n == Len(ids)
<1>1. PICK h : /\ h \in [0 .. n -> Int] /\ h[0] = 0
               /\ \A k \in 1 .. n : h[k] = h[k - 1] + s[n - k + 1]
               /\ SuffixSum(s) = [k \in 1 .. n |-> h[n - k + 1]]
  <2>1. PICK h : /\ h \in [0 .. Len(s) -> Int] /\ h[0] = 0
                 /\ \A k \in 1 .. Len(s) : h[k] = h[k - 1] + s[Len(s) - k + 1]
                 /\ SuffixSum(s) = [k \in 1 .. Len(s) |-> h[Len(s) - k + 1]]
    BY SuffixSumSteps
  <2>2. Len(s) = n
    OBVIOUS
  <2>. HIDE DEF n
  <2>3. /\ h \in [0 .. n -> Int] /\ h[0] = 0
        /\ \A k \in 1 .. n : h[k] = h[k - 1] + s[n - k + 1]
        /\ SuffixSum(s) = [k \in 1 .. n |-> h[n - k + 1]]
    BY <2>1, <2>2
  <2>. QED
    BY <2>3
<1>. DEFINE Is(d) == LET F == From(ids, n - d + 1)
                     IN  IsFiniteSet(F) /\ Cardinality(F) = d /\ h[d] = Total(own, F)
            R == {d \in 0 .. n : Is(d)}
<1>2. 0 \in R
  <2>1. From(ids, n - 0 + 1) = {}
    <3>1. n - 0 + 1 = n + 1 /\ n + 1 .. n = {}
      OBVIOUS
    <3>. QED
      BY <3>1 DEF From
  <2>2. Total(own, {}) = 0
    <3>1. n = 0 \/ 1 \in 1 .. n
      OBVIOUS
    <3>2. PICK g : IsSum(g, own, {})
      BY FS_EmptySet, SumExists
    <3>. QED
      BY <3>2, FS_EmptySet, SumIsFold DEF IsSum
  <2>3. Is(0)
    BY <1>1, <2>1, <2>2, FS_EmptySet
  <2>. QED
    BY <2>3
<1>3. ASSUME NEW d \in 1 .. n, d - 1 \in R PROVE d \in R
  <2>. DEFINE k == n - d + 1
              F == From(ids, k + 1)
  <2>1. k \in 1 .. n /\ n - (d - 1) + 1 = k + 1 /\ d - 1 \in Nat /\ d \in 0 .. n
    OBVIOUS
  <2>2. IsFiniteSet(F) /\ Cardinality(F) = d - 1 /\ h[d - 1] = Total(own, F)
    <3>1. Is(d - 1)
      BY <1>3
    <3>2. n - (d - 1) + 1 = k + 1
      BY <2>1
    <3>. QED
      BY <3>1, <3>2
  <2>3. From(ids, k) = F \cup {ids[k]}
    <3>1. \A m \in k .. n : m = k \/ m \in k + 1 .. n
      OBVIOUS
    <3>2. \A m \in k + 1 .. n : m \in k .. n
      OBVIOUS
    <3>3. k \in k .. n
      BY <2>1
    <3>. QED
      BY <3>1, <3>2, <3>3 DEF From
  <2>4. ids[k] \notin F
    <3>1. \A m \in k + 1 .. n : m \in 1 .. n /\ m # k
      BY <2>1
    <3>. QED
      BY <2>1, <3>1 DEF From
  <2>5. /\ \A x \in F : own[x].value \in Int
        /\ own[ids[k]].value \in Int /\ s[k] = own[ids[k]].value
    <3>1. \A m \in k + 1 .. n : m \in 1 .. n
      BY <2>1
    <3>. QED
      BY <2>1, <3>1 DEF From
  <2>6. h[d] = h[d - 1] + s[k]
    BY <1>1
  <2>. HIDE DEF F
  <2>7. Total(own, F \cup {ids[k]}) = Total(own, F) + own[ids[k]].value
    <3>. HIDE DEF k
    <3>. QED
      BY <2>2, <2>4, <2>5, SumAdd
  <2>8. IsFiniteSet(F \cup {ids[k]}) /\ Cardinality(F \cup {ids[k]}) = (d - 1) + 1
    <3>. HIDE DEF k
    <3>. QED
      BY <2>2, <2>4, FS_AddElement
  <2>9. Is(d)
    <3>1. h[d] = Total(own, F \cup {ids[k]})
      BY <2>2, <2>5, <2>6, <2>7
    <3>2. Cardinality(F \cup {ids[k]}) = d
      BY <2>8
    <3>3. From(ids, n - d + 1) = F \cup {ids[k]}
      BY <2>3
    <3>. HIDE DEF k, n
    <3>. QED
      BY <2>8, <3>1, <3>2, <3>3
  <2>. QED
    BY <2>1, <2>9
<1>4. \A d \in 0 .. n : d \in R
  <2>. HIDE DEF R
  <2>. QED
    BY <1>2, <1>3, BoundedInduction
<1>5. ASSUME NEW k \in 1 .. n
      PROVE  /\ SuffixSum(s)[k] = Total(own, From(ids, k)) /\ SuffixSum(s)[k] \in Int
             /\ Cardinality(From(ids, k)) = n - k + 1
  <2>1. n - k + 1 \in 0 .. n /\ n - (n - k + 1) + 1 = k
    OBVIOUS
  <2>2. Is(n - k + 1)
    BY <1>4, <2>1
  <2>3. SuffixSum(s)[k] = h[n - k + 1] /\ h[n - k + 1] \in Int
    BY <1>1, <2>1
  <2>. QED
    BY <2>1, <2>2, <2>3
<1>. QED
  BY <1>1, <1>5

-----------------------------------------------------------------------------
(* Step rewards are numbers                                                *)

\* A reward is a number.
LEMMA RewardIsInt ==
  ASSUME NEW s, Len(s) \in Nat, DOMAIN s = 1 .. Len(s), Typed(s), NEW default \in Int,
         NEW fun \in RewardFunctions
  PROVE  RewardOf(fun, s, default) \in Int
<1>1. CASE fun = "sum"
  <2>1. RewardOf(fun, s, default) = RewardSum(s, default)
    BY <1>1 DEF RewardOf
  <2>. QED
    BY <2>1, SumAndNIsRight DEF RewardSum
<1>2. CASE fun = "average"
  <2>1. RewardOf(fun, s, default) = RewardAverage(s, default)
    BY <1>2 DEF RewardOf
  <2>2. SumAndN(s).sum \in Int /\ SumAndN(s).N \in Nat
    BY SumAndNIsRight
  <2>3. SumAndN(s).N # 0 => SumAndN(s).sum \div SumAndN(s).N \in Int
    BY <2>2, DivBounds
  <2>. QED
    BY <2>1, <2>2, <2>3 DEF RewardAverage
<1>3. CASE fun = "min"
  <2>1. RewardOf(fun, s, default) = RewardMin(s, default)
    BY <1>3 DEF RewardOf
  <2>. QED
    BY <2>1, MinIsRight DEF RewardMin
<1>4. CASE fun = "max"
  <2>1. RewardOf(fun, s, default) = RewardMax(s, default)
    BY <1>4 DEF RewardOf
  <2>. QED
    BY <2>1, MaxIsRight DEF RewardMax
<1>5. CASE fun = "median"
  <2>1. RewardOf(fun, s, default) = RewardMedian(s, default)
    BY <1>5 DEF RewardOf
  <2>2. CASE Observed(s) # {}
    BY <2>1, <2>2, MedianIsRight
  <2>3. CASE Observed(s) = {}
    BY <2>1, <2>3, FS_EmptySet DEF RewardMedian
  <2>. QED
    BY <2>2, <2>3
<1>6. CASE fun = "earliest"
  <2>1. RewardOf(fun, s, default) = EarliestLoop(s, default).value
    BY <1>6 DEF RewardOf, RewardEarliest
  <2>2. PICK h : /\ h[0] = [value |-> default, time |-> Never]
                 /\ \A k \in 1 .. Len(s) :
                      h[k] = IF ~s[k].taken /\ s[k].time < h[k - 1].time
                             THEN [value |-> s[k].value, time |-> s[k].time] ELSE h[k - 1]
                 /\ EarliestLoop(s, default) = h[Len(s)]
    <3>1. Int \subseteq Int
      OBVIOUS
    <3>. QED
      BY <3>1, EarliestSteps
  <2>. DEFINE R == {k \in 0 .. Len(s) : h[k].value \in Int}
  <2>3. 0 \in R
    BY <2>2
  <2>4. ASSUME NEW k \in 1 .. Len(s), k - 1 \in R PROVE k \in R
    <3>1. h[k - 1].value \in Int /\ s[k].value \in Int /\ k \in 0 .. Len(s)
      BY <2>4 DEF Typed
    <3>2. h[k] = IF ~s[k].taken /\ s[k].time < h[k - 1].time
                 THEN [value |-> s[k].value, time |-> s[k].time] ELSE h[k - 1]
      BY <2>2
    <3>3. h[k].value \in {s[k].value, h[k - 1].value}
      BY <3>2
    <3>. QED
      BY <3>1, <3>3
  <2>5. \A k \in 0 .. Len(s) : k \in R
    <3>. HIDE DEF R
    <3>. QED
      BY <2>3, <2>4, BoundedInduction
  <2>6. h[Len(s)].value \in Int
    BY <2>5
  <2>. QED
    BY <2>1, <2>2, <2>6
<1>. QED
  BY <1>1, <1>2, <1>3, <1>4, <1>5, <1>6 DEF RewardFunctions

-----------------------------------------------------------------------------
(* The rewards of an episode                                               *)

\* An outcome event, as the client logs it.
Reports == [primary : InteractionIds \cup {Episode}, index : InteractionIds \cup {NoId, Episode},
            about : InteractionIds \cup {Episode}, value : Int, taken : BOOLEAN]

\* What is picked of the outcomes are outcomes.
LEMMA PickedTyped ==
  ASSUME NEW V, NEW s \in Seq(V), NEW places
  PROVE  Picked(s, places) \in Seq(V)
<1>1. PICK h : /\ h \in [0 .. Len(s) -> Seq(V)]
               /\ Picked(s, places) = h[Len(s)]
  BY PickedSteps
<1>2. Len(s) \in 0 .. Len(s)
  OBVIOUS
<1>. QED
  BY <1>1, <1>2

\* The step reward of an interaction, for the reward functions f.
StepOf(f, id, os) ==
  RewardOf(f.step, OutcomesWith(NoId, os) \o OutcomesWith(id, os), DefaultReward)

\* It is a number.
LEMMA StepIsInt ==
  ASSUME NEW f \in [step : Functions, multi : MultiFunctions], NEW id, NEW os \in Seq(Reports)
  PROVE  StepOf(f, id, os) \in Int
<1>. DEFINE V == [value : Int, taken : BOOLEAN, time : Int]
            all == OutcomesWith(NoId, os) \o OutcomesWith(id, os)
<1>1. ASSUME NEW index PROVE OutcomesWith(index, os) \in Seq(V)
  <2>. DEFINE sel == Picked(os, {k \in DOMAIN os : os[k].index = index})
  <2>1. sel \in Seq(Reports)
    BY PickedTyped
  <2>2. OutcomesWith(index, os) = [k \in DOMAIN sel |-> Parsed(sel[k])]
    BY DEF OutcomesWith
  <2>. HIDE DEF sel
  <2>3. DOMAIN sel = 1 .. Len(sel) /\ Len(sel) \in Nat
    BY <2>1
  <2>4. \A k \in 1 .. Len(sel) : Parsed(sel[k]) \in V
    <3>1. \A k \in 1 .. Len(sel) : sel[k] \in Reports
      BY <2>1
    <3>2. \A r \in Reports : Parsed(r) \in V
      BY DEF Parsed, Reports
    <3>. HIDE DEF V
    <3>. QED
      BY <3>1, <3>2
  <2>5. OutcomesWith(index, os) \in [1 .. Len(sel) -> V]
    BY <2>2, <2>3, <2>4
  <2>. HIDE DEF V
  <2>. QED
    BY <2>3, <2>5
<1>2. all \in Seq(V)
  <2>. HIDE DEF V
  <2>. QED
    BY <1>1
<1>. HIDE DEF all
<1>3. Len(all) \in Nat /\ DOMAIN all = 1 .. Len(all) /\ \A k \in 1 .. Len(all) : all[k] \in V
  <2>. HIDE DEF V
  <2>. QED
    BY <1>2
<1>4. Typed(all)
  BY <1>3 DEF Typed
<1>5. f.step \in RewardFunctions /\ DefaultReward \in Int
  BY MultistepAssumption
<1>6. RewardOf(f.step, all, DefaultReward) \in Int
  BY <1>3, <1>4, <1>5, RewardIsInt
<1>. QED
  BY <1>6 DEF StepOf, all

\* r is the credit of the interaction id: IsCredit, for the reward functions f,
\* the interactions I that were logged, those received, S, and the outcomes os.
Owns(f, S, os) == [i \in IdsOf(S) |-> [value |-> StepOf(f, i, os)]]
AfterIn(id, I, S) == {j \in IdsOf(S) : id \in LineIn(j, I, S)}
CreditIn(id, r, f, I, S, os) ==
  CASE f.multi = "identity"    -> Value(r, Owns(f, S, os)[id].value)
    [] f.multi = "suffix_sum"  -> Value(r, Total(Owns(f, S, os), AfterIn(id, I, S)))
    [] f.multi = "suffix_mean" -> /\ r.num = Total(Owns(f, S, os), AfterIn(id, I, S))
                                  /\ r.den = Cardinality(AfterIn(id, I, S))

\* The ids of an order are of the interactions it orders.
LEMMA OrderTyped ==
  ASSUME NEW S, NEW ids, IsOrder(ids, S)
  PROVE  /\ Len(ids) \in Nat /\ DOMAIN ids = 1 .. Len(ids) /\ ids \in Seq(IdsOf(S))
         /\ \A k \in 1 .. Len(ids) : ids[k] \in IdsOf(S)
         /\ \A k, m \in 1 .. Len(ids) : ids[k] = ids[m] => k = m
<1>1. /\ ids \in Seq(InteractionIds) /\ Len(ids) \in Nat /\ DOMAIN ids = 1 .. Len(ids)
      /\ \A k, m \in 1 .. Len(ids) : ids[k] = ids[m] => k = m
  BY DEF IsOrder
<1>2. \A k \in 1 .. Len(ids) : ids[k] \in IdsOf(S)
  BY DEF IsOrder, IdsOf
<1>3. ids \in [1 .. Len(ids) -> IdsOf(S)]
  BY <1>1, <1>2
<1>. QED
  BY <1>1, <1>2, <1>3

\* populate_episodic_rewards gives every place of the order a reward, and those
\* of a line are credits.
LEMMA EpisodeRewards ==
  ASSUME function \in [step : Functions, multi : MultiFunctions],
         NEW I, Forest(I), NEW S, S \subseteq I, NEW ids, IsOrder(ids, S),
         NEW os \in Seq(Reports)
  PROVE  /\ EpisodicRewards(ids, os) \in Seq([num : Int, den : Nat])
         /\ Len(EpisodicRewards(ids, os)) = Len(ids)
         /\ IsLineIn(I, S) =>
              \A k \in 1 .. Len(ids) :
                 CreditIn(ids[k], EpisodicRewards(ids, os)[k], function, I, S, os)
<1>. DEFINE n == Len(ids)
            s == [k \in DOMAIN ids |-> StepReward(ids[k], os)]
            own == Owns(function, S, os)
            rs == EpisodicRewards(ids, os)
            R == [num : Int, den : Nat]
<1>1. /\ n \in Nat /\ DOMAIN ids = 1 .. n
      /\ \A k \in 1 .. n : ids[k] \in IdsOf(S)
      /\ \A k, m \in 1 .. n : ids[k] = ids[m] => k = m
  BY OrderTyped
<1>2. \A id : StepReward(id, os) = StepOf(function, id, os)
  BY DEF StepReward, StepOf
<1>3. \A id : StepOf(function, id, os) \in Int
  BY StepIsInt
<1>4. \A k \in 1 .. n : /\ s[k] = own[ids[k]].value /\ s[k] \in Int
                        /\ own[ids[k]].value \in Int
  BY <1>1, <1>2, <1>3 DEF Owns
<1>5. s \in Seq(Int) /\ Len(s) = n /\ DOMAIN s = 1 .. n
  <2>1. s \in [1 .. n -> Int]
    BY <1>1, <1>2, <1>3
  <2>. HIDE DEF s
  <2>. QED
    BY <1>1, <2>1
<1>6. /\ SuffixSum(s) \in [1 .. n -> Int]
      /\ \A k \in 1 .. n : /\ SuffixSum(s)[k] = Total(own, From(ids, k))
                           /\ Cardinality(From(ids, k)) = n - k + 1
  <2>. HIDE DEF s, own
  <2>. QED
    BY <1>1, <1>4, <1>5, SuffixIsSum
<1>7. ASSUME IsLineIn(I, S), NEW k \in 1 .. n
      PROVE  AfterIn(ids[k], I, S) = From(ids, k)
  BY <1>7, AfterIsSuffix DEF AfterIn
<1>8. ASSUME /\ rs \in [1 .. n -> R]
             /\ IsLineIn(I, S) =>
                  \A k \in 1 .. n : CreditIn(ids[k], rs[k], function, I, S, os)
      PROVE  /\ rs \in Seq(R) /\ Len(rs) = n
             /\ IsLineIn(I, S) =>
                  \A k \in 1 .. n : CreditIn(ids[k], rs[k], function, I, S, os)
  <2>. HIDE DEF n, R, rs
  <2>. QED
    BY <1>1, <1>8
<1>9. function.multi \in {"identity", "suffix_sum", "suffix_mean"}
  BY MultistepAssumption
<1>10. CASE function.multi = "identity"
  <2>1. rs = [k \in 1 .. n |-> [num |-> s[k], den |-> 1]]
    <3>1. rs = Fractions(s)
      BY <1>10 DEF EpisodicRewards
    <3>. HIDE DEF s
    <3>. QED
      BY <1>5, <3>1 DEF Fractions
  <2>2. \A k \in 1 .. n : rs[k] = [num |-> s[k], den |-> 1]
    <3>. HIDE DEF s, rs
    <3>. QED
      BY <2>1
  <2>3. rs \in [1 .. n -> R]
    <3>. HIDE DEF s, rs
    <3>. QED
      BY <1>4, <2>1
  <2>4. \A k \in 1 .. n : CreditIn(ids[k], rs[k], function, I, S, os)
    <3>1. ASSUME NEW k \in 1 .. n PROVE Value(rs[k], own[ids[k]].value)
      <4>1. rs[k].num = own[ids[k]].value /\ rs[k].den = 1 /\ own[ids[k]].value \in Int
        <5>1. rs[k] = [num |-> s[k], den |-> 1]
          BY <2>2
        <5>2. s[k] = own[ids[k]].value /\ own[ids[k]].value \in Int
          BY <1>4
        <5>. HIDE DEF s, rs, own
        <5>. QED
          BY <5>1, <5>2
      <4>. HIDE DEF s, rs, own
      <4>. QED
        BY <4>1 DEF Value
    <3>. QED
      BY <1>10, <3>1 DEF CreditIn
  <2>. QED
    BY <1>8, <2>3, <2>4
<1>11. CASE function.multi = "suffix_sum"
  <2>1. rs = [k \in 1 .. n |-> [num |-> SuffixSum(s)[k], den |-> 1]]
    <3>1. rs = Fractions(SuffixSum(s))
      BY <1>11 DEF EpisodicRewards
    <3>. HIDE DEF s
    <3>. QED
      BY <1>6, <3>1 DEF Fractions
  <2>2. \A k \in 1 .. n : rs[k] = [num |-> SuffixSum(s)[k], den |-> 1]
    <3>. HIDE DEF s, rs
    <3>. QED
      BY <2>1
  <2>3. rs \in [1 .. n -> R]
    <3>. HIDE DEF s, rs
    <3>. QED
      BY <1>6, <2>1
  <2>4. ASSUME IsLineIn(I, S), NEW k \in 1 .. n
        PROVE  CreditIn(ids[k], rs[k], function, I, S, os)
    <3>1. Value(rs[k], Total(own, AfterIn(ids[k], I, S)))
      <4>1. rs[k].num = Total(own, AfterIn(ids[k], I, S)) /\ rs[k].num \in Int /\ rs[k].den = 1
        <5>1. rs[k] = [num |-> SuffixSum(s)[k], den |-> 1]
          BY <2>2
        <5>2. SuffixSum(s)[k] = Total(own, From(ids, k)) /\ SuffixSum(s)[k] \in Int
          <6>. HIDE DEF s, own, n
          <6>. QED
            BY <1>6
        <5>3. AfterIn(ids[k], I, S) = From(ids, k)
          BY <1>7, <2>4
        <5>. HIDE DEF s, rs, own
        <5>. QED
          BY <5>1, <5>2, <5>3
      <4>. HIDE DEF s, rs, own
      <4>. QED
        BY <4>1 DEF Value
    <3>. QED
      BY <1>11, <3>1 DEF CreditIn
  <2>. QED
    BY <1>8, <2>3, <2>4
<1>12. CASE function.multi = "suffix_mean"
  <2>1. rs = [k \in 1 .. n |-> [num |-> SuffixSum(s)[k], den |-> n - k + 1]]
    <3>1. rs = SuffixMean(s)
      BY <1>12 DEF EpisodicRewards
    <3>. HIDE DEF s
    <3>. QED
      BY <1>5, <3>1 DEF SuffixMean
  <2>2. \A k \in 1 .. n : rs[k] = [num |-> SuffixSum(s)[k], den |-> n - k + 1]
    <3>. HIDE DEF s, rs
    <3>. QED
      BY <2>1
  <2>3. rs \in [1 .. n -> R]
    <3>1. \A k \in 1 .. n : n - k + 1 \in Nat
      BY <1>1
    <3>. HIDE DEF s, rs
    <3>. QED
      BY <1>6, <2>1, <3>1
  <2>4. ASSUME IsLineIn(I, S), NEW k \in 1 .. n
        PROVE  CreditIn(ids[k], rs[k], function, I, S, os)
    <3>1. /\ rs[k].num = Total(own, AfterIn(ids[k], I, S))
          /\ rs[k].den = Cardinality(AfterIn(ids[k], I, S))
      <4>1. rs[k] = [num |-> SuffixSum(s)[k], den |-> n - k + 1]
        BY <2>2
      <4>2. SuffixSum(s)[k] = Total(own, From(ids, k)) /\ Cardinality(From(ids, k)) = n - k + 1
        <5>. HIDE DEF s, own, n
        <5>. QED
          BY <1>6
      <4>3. AfterIn(ids[k], I, S) = From(ids, k)
        BY <1>7, <2>4
      <4>. HIDE DEF s, rs, own, n
      <4>. QED
        BY <4>1, <4>2, <4>3
    <3>. QED
      BY <1>12, <3>1 DEF CreditIn
  <2>. QED
    BY <1>8, <2>3, <2>4
<1>. QED
  BY <1>9, <1>10, <1>11, <1>12

-----------------------------------------------------------------------------
(* The invariant of an episode                                             *)

\* What the client keeps goes with what it logged.
ClientInv ==
  /\ function \in [step : Functions, multi : MultiFunctions]
  /\ Forest(interactions)
  /\ IsFiniteSet(DOMAIN depths) /\ Cardinality(DOMAIN depths) = Cardinality(interactions)
  /\ DOMAIN depths = IdsOf(interactions)
  /\ \A id \in DOMAIN depths : depths[id] \in 1 .. Cardinality(interactions)
  /\ \A i \in interactions :
        /\ depths[i.id] = i.depth
        /\ i.previous = NoId => i.depth = 1
        /\ i.depth > 1 => \E j \in interactions : j.id = i.previous /\ i.depth = j.depth + 1
  /\ announced = IF interactions = {} THEN <<>> ELSE <<0>>
  /\ outcomes \in Seq(Reports) /\ Len(outcomes) <= MaxOutcomes

\* A batch is of what was logged; what is left of the order, and what was given
\* to the learner, are interactions of it.
BatchTyped ==
  /\ batch.interactions \subseteq interactions
  /\ batch.outcomes \in Seq(Reports)
  /\ order \in Seq(IdsOf(batch.interactions))
  /\ Len(rewards) = Len(order)
  /\ rewards \in Seq([num : Int, den : Nat])
  /\ \A l \in credited : l.id \in IdsOf(batch.interactions)

\* The rewards of a line are credits, of those to be given and of those given.
BatchCredited ==
  IsLineIn(interactions, batch.interactions) =>
    /\ \A k \in 1 .. Len(order) :
          CreditIn(order[k], rewards[k], function, interactions, batch.interactions,
                   batch.outcomes)
    /\ \A l \in credited :
          CreditIn(l.id, l.reward, function, interactions, batch.interactions, batch.outcomes)

\* The inductive invariant of an episode and its joining.
EpisodeInv ==
  /\ ClientInv
  /\ batch = NoBatch => order = <<>> /\ rewards = <<>> /\ credited = {}
  /\ batch # NoBatch => BatchTyped /\ BatchCredited

\* A decision: its depth is one more than that of the interaction it follows.
LEMMA DecideKeeps ==
  ASSUME ClientInv, NEW id \in InteractionIds, NEW previous \in InteractionIds \cup {NoId},
         NEW time \in Times, Decide(id, previous, time)
  PROVE  ClientInv'
<1>. DEFINE new == [id |-> id, previous |-> previous, depth |-> DepthOf(previous) + 1,
                    deferred |-> id \in Deferred, time |-> time]
            n == Cardinality(interactions)
<1>1. /\ id \notin DOMAIN depths
      /\ depths' = [i \in DOMAIN depths \cup {id} |->
                      IF i = id THEN DepthOf(previous) + 1 ELSE depths[i]]
      /\ interactions' = interactions \cup {new}
      /\ announced' = IF Cardinality(DOMAIN depths') = 1
                      THEN Append(announced, n) ELSE announced
      /\ outcomes' = outcomes /\ function' = function
  BY DEF Decide, Updated
<1>2. n \in Nat /\ IsFiniteSet(interactions) /\ DOMAIN depths = IdsOf(interactions)
  BY FS_CardinalityType DEF ClientInv, Forest
<1>3. new \notin interactions /\ \A j \in interactions : j.id # new.id
  BY <1>1, <1>2 DEF IdsOf
<1>4. IsFiniteSet(interactions') /\ Cardinality(interactions') = n + 1
  <2>. HIDE DEF new
  <2>. QED
    BY <1>1, <1>2, <1>3, FS_AddElement
<1>5. /\ DOMAIN depths' = DOMAIN depths \cup {id}
      /\ IsFiniteSet(DOMAIN depths') /\ Cardinality(DOMAIN depths') = n + 1
  <2>1. IsFiniteSet(DOMAIN depths) /\ Cardinality(DOMAIN depths) = n
    BY DEF ClientInv
  <2>2. DOMAIN depths' = DOMAIN depths \cup {id}
    BY <1>1
  <2>. QED
    BY <1>1, <2>1, <2>2, FS_AddElement
<1>6. Forest(interactions')
  <2>1. new.id = id /\ new.previous = previous /\ new.time = time
    OBVIOUS
  <2>2. Forest(interactions)
    BY DEF ClientInv
  <2>. HIDE DEF new
  <2>. QED
    BY <1>1, <1>3, <1>4, <2>1, <2>2 DEF Forest, Nodes
<1>7. DOMAIN depths' = IdsOf(interactions')
  <2>1. new.id = id
    OBVIOUS
  <2>. HIDE DEF new
  <2>2. IdsOf(interactions') = IdsOf(interactions) \cup {id}
    BY <1>1, <2>1 DEF IdsOf
  <2>. QED
    BY <1>2, <1>5, <2>2
<1>8. /\ DepthOf(previous) \in 0 .. n
      /\ previous = NoId => DepthOf(previous) = 0
      /\ DepthOf(previous) # 0 => \E j \in interactions : j.id = previous
                                                       /\ j.depth = DepthOf(previous)
  <2>1. NoId \notin DOMAIN depths
    BY <1>2, MultistepAssumption DEF ClientInv, Forest, IdsOf, NoId
  <2>2. CASE previous \in DOMAIN depths
    <3>1. PICK j \in interactions : j.id = previous
      BY <1>2, <2>2 DEF IdsOf
    <3>2. depths[previous] = j.depth /\ depths[previous] \in 1 .. n
      BY <2>2, <3>1 DEF ClientInv
    <3>. QED
      BY <1>2, <2>1, <2>2, <3>1, <3>2 DEF DepthOf
  <2>3. CASE previous \notin DOMAIN depths
    BY <1>2, <2>3 DEF DepthOf
  <2>. QED
    BY <2>2, <2>3
<1>9. \A i \in DOMAIN depths' : depths'[i] \in 1 .. Cardinality(interactions')
  <2>1. \A i \in DOMAIN depths : depths[i] \in 1 .. n
    BY DEF ClientInv
  <2>. QED
    BY <1>1, <1>2, <1>4, <1>8, <2>1
<1>10. \A i \in interactions' :
         /\ depths'[i.id] = i.depth
         /\ i.previous = NoId => i.depth = 1
         /\ i.depth > 1 =>
              \E j \in interactions' : j.id = i.previous /\ i.depth = j.depth + 1
  <2>1. ASSUME NEW i \in interactions
        PROVE  /\ depths'[i.id] = i.depth
               /\ i.previous = NoId => i.depth = 1
               /\ i.depth > 1 =>
                    \E j \in interactions' : j.id = i.previous /\ i.depth = j.depth + 1
    <3>1. /\ depths[i.id] = i.depth
          /\ i.previous = NoId => i.depth = 1
          /\ i.depth > 1 =>
               \E j \in interactions : j.id = i.previous /\ i.depth = j.depth + 1
      BY DEF ClientInv
    <3>2. i.id \in DOMAIN depths /\ i.id # id
      BY <1>1, <1>2 DEF IdsOf
    <3>3. depths'[i.id] = depths[i.id]
      BY <1>1, <3>2
    <3>4. interactions \subseteq interactions'
      BY <1>1
    <3>. QED
      BY <3>1, <3>3, <3>4
  <2>2. /\ depths'[new.id] = new.depth
        /\ new.previous = NoId => new.depth = 1
        /\ new.depth > 1 =>
             \E j \in interactions' : j.id = new.previous /\ new.depth = j.depth + 1
    <3>1. depths'[id] = DepthOf(previous) + 1
      BY <1>1
    <3>2. interactions \subseteq interactions'
      BY <1>1
    <3>3. new.id = id /\ new.previous = previous /\ new.depth = DepthOf(previous) + 1
      OBVIOUS
    <3>. HIDE DEF new
    <3>. QED
      BY <1>8, <3>1, <3>2, <3>3
  <2>. HIDE DEF new
  <2>. QED
    BY <1>1, <2>1, <2>2
<1>11. announced' = IF interactions' = {} THEN <<>> ELSE <<0>>
  <2>1. interactions' # {}
    BY <1>1
  <2>2. CASE interactions = {}
    <3>1. n = 0 /\ announced = <<>>
      BY <2>2, FS_EmptySet DEF ClientInv
    <3>. QED
      BY <1>1, <1>5, <2>1, <3>1
  <2>3. CASE interactions # {}
    <3>1. n # 0 /\ announced = <<0>>
      BY <1>2, <2>3, FS_EmptySet DEF ClientInv
    <3>. QED
      BY <1>1, <1>2, <1>5, <2>1, <3>1
  <2>. QED
    BY <2>2, <2>3
<1>12. /\ function' \in [step : Functions, multi : MultiFunctions]
       /\ outcomes' \in Seq(Reports) /\ Len(outcomes') <= MaxOutcomes
  BY <1>1 DEF ClientInv
<1>. QED
  BY <1>5, <1>4, <1>6, <1>7, <1>9, <1>10, <1>11, <1>12 DEF ClientInv

\* An outcome is logged; the decisions and their depths stay.
LEMMA ReportKeeps ==
  ASSUME ClientInv, NEW primary \in InteractionIds \cup {Episode},
         NEW index \in InteractionIds \cup {NoId, Episode},
         NEW about \in InteractionIds \cup {Episode}, NEW value \in Int, NEW taken \in BOOLEAN,
         Report(primary, index, about, value, taken)
  PROVE  ClientInv'
<1>. DEFINE r == [primary |-> primary, index |-> index, about |-> about, value |-> value,
                  taken |-> taken]
<1>1. /\ outcomes' = Append(outcomes, r) /\ Len(outcomes) < MaxOutcomes
      /\ depths' = depths /\ interactions' = interactions /\ announced' = announced
      /\ function' = function
  BY DEF Report
<1>2. r \in Reports
  BY DEF Reports
<1>3. outcomes \in Seq(Reports)
  BY DEF ClientInv
<1>4. outcomes' \in Seq(Reports) /\ Len(outcomes') <= MaxOutcomes
  <2>1. Len(outcomes) \in Nat /\ MaxOutcomes \in Nat
    BY <1>3, MultistepAssumption
  <2>. HIDE DEF r
  <2>. QED
    BY <1>1, <1>2, <1>3, <2>1
<1>. QED
  BY <1>1, <1>4 DEF ClientInv

\* A batch is read: the order is of interactions of it, and if they are a line
\* its rewards are credits.
LEMMA ReadBatchCredits ==
  ASSUME ClientInv, credited = {}, NEW S \in SUBSET interactions, NEW repeated \in SUBSET S,
         NEW lost, ReadBatch(S, repeated, lost)
  PROVE  /\ batch'.interactions = S /\ batch' # NoBatch
         /\ interactions' = interactions
         /\ IsOrder(order', S)
         /\ BatchTyped' /\ BatchCredited'
<1>. DEFINE os == Picked(outcomes, {k \in DOMAIN outcomes :
                                      k # lost /\ outcomes[k].primary = Episode})
<1>1. /\ batch' = [read |-> TRUE, interactions |-> S, repeated |-> repeated, outcomes |-> os]
      /\ order' = PopulateOrder(S)
      /\ rewards' = EpisodicRewards(order', os)
      /\ interactions' = interactions /\ function' = function /\ credited' = {}
  BY DEF ReadBatch, clientVars
<1>2. os \in Seq(Reports)
  BY PickedTyped DEF ClientInv
<1>. HIDE DEF os
<1>3. batch'.interactions = S /\ batch'.outcomes = os /\ batch' # NoBatch
  BY <1>1 DEF NoBatch
<1>4. Forest(interactions) /\ Forest(S)
  <2>1. Forest(interactions)
    BY DEF ClientInv
  <2>. QED
    BY <2>1, FS_Subset DEF Forest
<1>5. IsOrder(order', S)
  BY <1>1, <1>4, OrderIsRight
<1>6. Len(order') \in Nat /\ order' \in Seq(IdsOf(S))
  BY <1>5, OrderTyped
<1>7. function \in [step : Functions, multi : MultiFunctions]
  BY DEF ClientInv
<1>8. /\ rewards' \in Seq([num : Int, den : Nat])
      /\ Len(rewards') = Len(order')
      /\ IsLineIn(interactions, S) =>
           \A k \in 1 .. Len(order') :
              CreditIn(order'[k], rewards'[k], function, interactions, S, os)
  BY <1>1, <1>2, <1>4, <1>5, <1>7, EpisodeRewards
<1>9. BatchTyped'
  BY <1>1, <1>2, <1>3, <1>6, <1>8 DEF BatchTyped
<1>10. BatchCredited'
  BY <1>1, <1>3, <1>8 DEF BatchCredited
<1>. QED
  BY <1>1, <1>3, <1>5, <1>9, <1>10

\* One interaction after the other is given to the learner, with its reward.
LEMMA ProcessJoinedCredits ==
  ASSUME ClientInv, BatchTyped, BatchCredited, ProcessJoinedStep
  PROVE  BatchTyped' /\ BatchCredited' /\ batch' = batch /\ batch # NoBatch
<1>. DEFINE S == batch.interactions
            new == [id |-> Head(order), reward |-> Head(rewards)]
<1>1. /\ order # <<>> /\ batch # NoBatch
      /\ order' = Tail(order) /\ rewards' = Tail(rewards)
      /\ batch' = batch /\ interactions' = interactions /\ function' = function
  BY DEF ProcessJoinedStep, clientVars
<1>2. /\ order \in Seq(IdsOf(S)) /\ rewards \in Seq([num : Int, den : Nat])
      /\ Len(rewards) = Len(order)
  BY DEF BatchTyped
<1>3. /\ Len(order) \in Nat \ {0}
      /\ Head(order) = order[1] /\ Head(rewards) = rewards[1]
      /\ order[1] \in IdsOf(S)
      /\ order' \in Seq(IdsOf(S)) /\ rewards' \in Seq([num : Int, den : Nat])
      /\ Len(order') = Len(order) - 1 /\ Len(rewards') = Len(order) - 1
      /\ \A k \in 1 .. Len(order) - 1 : order'[k] = order[k + 1] /\ rewards'[k] = rewards[k + 1]
  <2>1. Len(order) # 0
    BY <1>1, <1>2
  <2>2. rewards # <<>>
    BY <1>2, <2>1
  <2>. HIDE DEF S
  <2>. QED
    BY <1>1, <1>2, <2>1, <2>2
<1>4. credited' \in {credited, credited \cup {new}}
  <2>. DEFINE i == CHOOSE j \in batch.interactions : j.id = Head(order)
  <2>1. i.id = Head(order)
    BY <1>3 DEF IdsOf
  <2>2. credited' \in {credited, credited \cup {[id |-> i.id, reward |-> Head(rewards)]}}
    BY DEF ProcessJoinedStep
  <2>. HIDE DEF i
  <2>. QED
    BY <2>1, <2>2
<1>5. new.id = order[1] /\ new.reward = rewards[1]
  BY <1>3
<1>. HIDE DEF new
<1>6. BatchTyped'
  BY <1>1, <1>3, <1>4, <1>5 DEF BatchTyped
<1>7. BatchCredited'
  <2>1. SUFFICES ASSUME IsLineIn(interactions, S)
                 PROVE  /\ \A k \in 1 .. Len(order') :
                             CreditIn(order'[k], rewards'[k], function, interactions, S,
                                      batch.outcomes)
                        /\ \A l \in credited' :
                             CreditIn(l.id, l.reward, function, interactions, S,
                                      batch.outcomes)
    BY <1>1 DEF BatchCredited
  <2>2. /\ \A k \in 1 .. Len(order) :
             CreditIn(order[k], rewards[k], function, interactions, S, batch.outcomes)
        /\ \A l \in credited :
             CreditIn(l.id, l.reward, function, interactions, S, batch.outcomes)
    BY <2>1 DEF BatchCredited
  <2>. HIDE DEF S
  <2>3. \A k \in 1 .. Len(order) - 1 : k + 1 \in 1 .. Len(order)
    BY <1>3
  <2>4. 1 \in 1 .. Len(order)
    BY <1>3
  <2>5. CreditIn(new.id, new.reward, function, interactions, S, batch.outcomes)
    BY <1>5, <2>2, <2>4
  <2>. QED
    BY <1>3, <1>4, <2>2, <2>3, <2>5
<1>. QED
  BY <1>1, <1>6, <1>7

\* Every decision, report, batch and joined interaction keeps the invariant: the
\* history goes with the log, and what the joiner holds for a line, and what it
\* gave of it to the learner, are credits.
THEOREM EpisodeInvariant == EpisodeSpec => []EpisodeInv
<1>1. EpisodeInit => EpisodeInv
  <2>. SUFFICES ASSUME EpisodeInit PROVE EpisodeInv
    OBVIOUS
  <2>1. /\ depths = <<>> /\ interactions = {} /\ announced = <<>> /\ outcomes = <<>>
        /\ function \in [step : Functions, multi : MultiFunctions]
        /\ batch = NoBatch /\ order = <<>> /\ rewards = <<>> /\ credited = {}
    BY DEF EpisodeInit
  <2>2. DOMAIN depths = {} /\ IdsOf(interactions) = {}
    BY <2>1 DEF IdsOf
  <2>3. Forest(interactions)
    BY <2>1, FS_EmptySet DEF Forest
  <2>4. outcomes \in Seq(Reports) /\ Len(outcomes) <= MaxOutcomes
    BY <2>1, MultistepAssumption
  <2>5. ClientInv
    BY <2>1, <2>2, <2>3, <2>4, FS_EmptySet DEF ClientInv
  <2>. QED
    BY <2>1, <2>5 DEF EpisodeInv
<1>2. EpisodeInv /\ [EpisodeNext]_episodeVars => EpisodeInv'
  <2>. SUFFICES ASSUME EpisodeInv, [EpisodeNext]_episodeVars PROVE EpisodeInv'
    OBVIOUS
  <2>. USE DEF EpisodeInv
  <2>1. ASSUME NEW id \in InteractionIds, NEW previous \in InteractionIds \cup {NoId},
               NEW time \in Times, Decide(id, previous, time)
        PROVE  EpisodeInv'
    <3>1. ClientInv'
      BY <2>1, DecideKeeps
    <3>2. batch = NoBatch /\ UNCHANGED joinerVars
      BY <2>1 DEF Decide
    <3>. QED
      BY <3>1, <3>2 DEF joinerVars
  <2>2. ASSUME NEW primary \in InteractionIds \cup {Episode},
               NEW index \in InteractionIds \cup {NoId, Episode},
               NEW about \in InteractionIds \cup {Episode}, NEW value \in Int,
               NEW taken \in BOOLEAN, Report(primary, index, about, value, taken)
        PROVE  EpisodeInv'
    <3>1. ClientInv'
      BY <2>2, ReportKeeps
    <3>2. batch = NoBatch /\ UNCHANGED joinerVars
      BY <2>2 DEF Report
    <3>. QED
      BY <3>1, <3>2 DEF joinerVars
  <2>3. \A id \in DOMAIN depths : id \in InteractionIds
    BY DEF ClientInv, Forest, IdsOf
  <2>4. \A value \in Values : value \in Int
    BY MultistepAssumption
  <2>5. ASSUME NEW id \in DOMAIN depths, NEW value \in Values, ReportOutcome(id, value)
        PROVE  EpisodeInv'
    BY <2>2, <2>3, <2>4, <2>5 DEF ReportOutcome
  <2>6. ASSUME NEW id \in DOMAIN depths, NEW value \in Values, ReportOutcomeWithState(id, value)
        PROVE  EpisodeInv'
    BY <2>2, <2>3, <2>4, <2>6 DEF ReportOutcomeWithState
  <2>7. ASSUME NEW value \in Values, ReportEpisodeOutcome(value)
        PROVE  EpisodeInv'
    BY <2>2, <2>4, <2>7 DEF ReportEpisodeOutcome
  <2>8. ASSUME NEW id \in DOMAIN depths, ReportActionTaken(id)
        PROVE  EpisodeInv'
    <3>1. Report(Episode, id, id, 0, TRUE)
      BY <2>8 DEF ReportActionTaken
    <3>2. /\ Episode \in InteractionIds \cup {Episode} /\ id \in InteractionIds \cup {NoId, Episode}
          /\ id \in InteractionIds \cup {Episode} /\ 0 \in Int
      BY <2>3
    <3>. HIDE DEF EpisodeInv
    <3>. QED
      BY <2>2, <3>1, <3>2
  <2>9. ASSUME NEW S \in SUBSET interactions, NEW repeated \in SUBSET S,
               NEW lost \in 0 .. Len(outcomes), ReadBatch(S, repeated, lost)
        PROVE  EpisodeInv'
    <3>1. UNCHANGED <<clientVars, function>> /\ batch = NoBatch
      BY <2>9 DEF ReadBatch
    <3>2. ClientInv'
      BY <3>1 DEF ClientInv, clientVars
    <3>3. batch' # NoBatch /\ BatchTyped' /\ BatchCredited'
      BY <2>9, <3>1, ReadBatchCredits
    <3>. QED
      BY <3>2, <3>3
  <2>10. ASSUME ProcessJoinedStep PROVE EpisodeInv'
    <3>1. UNCHANGED <<clientVars, function>> /\ batch # NoBatch
      BY <2>10 DEF ProcessJoinedStep
    <3>2. ClientInv'
      BY <3>1 DEF ClientInv, clientVars
    <3>3. batch' # NoBatch /\ BatchTyped' /\ BatchCredited'
      BY <2>10, <3>1, ProcessJoinedCredits
    <3>. QED
      BY <3>2, <3>3
  <2>11. ASSUME UNCHANGED episodeVars PROVE EpisodeInv'
    <3>1. /\ depths' = depths /\ interactions' = interactions /\ announced' = announced
          /\ outcomes' = outcomes /\ function' = function /\ batch' = batch
          /\ order' = order /\ rewards' = rewards /\ credited' = credited
      BY <2>11 DEF episodeVars, clientVars, joinerVars
    <3>2. ClientInv'
      BY <3>1 DEF ClientInv
    <3>3. (BatchTyped' <=> BatchTyped) /\ (BatchCredited' <=> BatchCredited)
      BY <3>1 DEF BatchTyped, BatchCredited
    <3>. QED
      BY <3>1, <3>2, <3>3
  <2>. QED
    BY <2>1, <2>5, <2>6, <2>7, <2>8, <2>9, <2>10, <2>11 DEF EpisodeNext
<1>. QED
  BY <1>1, <1>2, PTL DEF EpisodeSpec

-----------------------------------------------------------------------------
(* The properties of an episode                                            *)

\* The history an episode keeps goes with what was logged of it: with depths
\* (episode_history) and with the announcement, whatever the order of calls.
THEOREM HistoryIsRight == EpisodeSpec => []HistoryMatchesLog
<1>1. ASSUME EpisodeInv PROVE HistoryMatchesLog
  <2>1. ClientInv
    BY <1>1 DEF EpisodeInv
  <2>2. Len(order) = Len(rewards)
    BY <1>1 DEF EpisodeInv, BatchTyped
  <2>3. \A l \in credited : l.id \in InteractionIds
    <3>1. \A i \in interactions : i.id \in InteractionIds
      BY <2>1 DEF ClientInv, Forest
    <3>. QED
      BY <1>1, <3>1 DEF EpisodeInv, BatchTyped, IdsOf
  <2>4. EpisodeTypeOK
    BY <2>1, <2>2, <2>3 DEF EpisodeTypeOK, ClientInv, IdsOf
  <2>5. DepthIsPath
    <3>1. ASSUME NEW i \in interactions, i.depth > 1
          PROVE  i.previous \in DOMAIN depths /\ i.depth = InteractionOf(i.previous).depth + 1
      <4>1. PICK j \in interactions : j.id = i.previous /\ i.depth = j.depth + 1
        BY <2>1, <3>1 DEF ClientInv
      <4>2. InteractionOf(i.previous) \in interactions /\ InteractionOf(i.previous).id = i.previous
        BY <4>1 DEF InteractionOf
      <4>3. InteractionOf(i.previous) = j
        BY <2>1, <4>1, <4>2 DEF ClientInv, Forest
      <4>. QED
        BY <2>1, <4>1, <4>3 DEF ClientInv, IdsOf
    <3>. QED
      BY <2>1, <3>1 DEF DepthIsPath, ClientInv
  <2>6. AnnouncedOnce
    BY <2>1 DEF AnnouncedOnce, ClientInv
  <2>. QED
    BY <2>4, <2>5, <2>6 DEF HistoryMatchesLog
<1>. QED
  BY <1>1, EpisodeInvariant, PTL

\* The lines of the model are those the lemmas are about.
LEMMA LinesAre ==
  /\ \A id : PreviousOf(id) = Prev(interactions, id)
  /\ \A id : LineOf(id) = LineIn(id, interactions, batch.interactions)
  /\ \A id : Rooted(id) <=> RootedIn(id, interactions, batch.interactions)
  /\ Received = IdsOf(batch.interactions)
<1>1. \A id : PreviousOf(id) = Prev(interactions, id)
  BY DEF PreviousOf, InteractionOf, Prev
<1>2. Received = IdsOf(batch.interactions)
  BY DEF Received, IdsOf
<1>3. \A id : LineOf(id) = LineIn(id, interactions, batch.interactions)
  BY <1>1, <1>2 DEF LineOf, LineIn, Closed
<1>4. \A id : Rooted(id) <=> RootedIn(id, interactions, batch.interactions)
  BY <1>1, <1>3 DEF Rooted, RootedIn
<1>. QED
  BY <1>1, <1>2, <1>3, <1>4

\* What an interaction of a line is given is made, as the multistep reward
\* function says, of its own step reward and of those that follow it: nothing of
\* an earlier step, and nothing of a later one is left out.
THEOREM CreditIsRight == EpisodeSpec => []LineIsCredited
<1>1. ASSUME EpisodeInv PROVE LineIsCredited
  <2>. DEFINE S == batch.interactions
              os == batch.outcomes
  <2>. SUFFICES ASSUME batch # NoBatch, IsLine, NEW l \in credited
                PROVE  IsCredit(l.id, l.reward)
    BY DEF LineIsCredited
  <2>1. IsLineIn(interactions, S)
    BY LinesAre DEF IsLine, IsLineIn
  <2>2. l.id \in Received /\ CreditIn(l.id, l.reward, function, interactions, S, os)
    BY <1>1, <2>1, LinesAre DEF EpisodeInv, BatchTyped, BatchCredited
  <2>3. \A id : StepReward(id, os) = StepOf(function, id, os)
    BY DEF StepReward, StepOf
  <2>4. [i \in Received |-> [value |-> StepReward(i, os)]] = Owns(function, S, os)
    BY <2>3, LinesAre DEF Owns
  <2>5. After(l.id) = AfterIn(l.id, interactions, S)
    BY LinesAre DEF After, AfterIn
  <2>. HIDE DEF S, os
  <2>6. function.multi \in {"identity", "suffix_sum", "suffix_mean"}
    BY <1>1, MultistepAssumption DEF EpisodeInv, ClientInv
  <2>. QED
    BY <2>2, <2>4, <2>5, <2>6 DEF IsCredit, CreditIn, os
<1>. QED
  BY <1>1, EpisodeInvariant, PTL

\* When a batch is read, the interactions whose line arrived whole are ordered,
\* each once and after the one it follows, whatever the times they carry; the
\* walk ends, and leaves out only what a missing or cyclic line leads to.
THEOREM OrderFollowsLines == EpisodeSpec => OrderFollowsPrevious
<1>1. ASSUME EpisodeInv, [EpisodeNext]_episodeVars, batch = NoBatch, batch' # NoBatch
      PROVE  /\ IsInjective(order')
             /\ ToSet(order') = {id \in Received : Rooted(id)}'
             /\ \A m, n \in DOMAIN order' : PreviousOf(order'[n]) = order'[m] => m < n
  <2>1. PICK S \in SUBSET interactions : \E repeated \in SUBSET S :
           \E lost \in 0 .. Len(outcomes) : ReadBatch(S, repeated, lost)
    <3>1. batch' # batch
      BY <1>1
    <3>2. \A id, previous, time : ~Decide(id, previous, time)
      BY <3>1 DEF Decide, joinerVars
    <3>3. \A primary, index, about, value, taken : ~Report(primary, index, about, value, taken)
      BY <3>1 DEF Report, joinerVars
    <3>4. ~ProcessJoinedStep /\ ~UNCHANGED episodeVars
      BY <3>1 DEF ProcessJoinedStep, episodeVars, joinerVars
    <3>. QED
      BY <1>1, <3>2, <3>3, <3>4
      DEF EpisodeNext, ReportOutcome, ReportOutcomeWithState, ReportEpisodeOutcome,
          ReportActionTaken
  <2>2. ClientInv /\ credited = {}
    BY <1>1 DEF EpisodeInv
  <2>3. batch'.interactions = S /\ interactions' = interactions /\ IsOrder(order', S)
    BY <2>1, <2>2, ReadBatchCredits
  <2>4. Forest(interactions)
    BY <2>2 DEF ClientInv
  <2>5. \A id : PreviousOf(id)' = Prev(interactions, id)
    BY <2>3 DEF PreviousOf, InteractionOf, Prev
  <2>6. Received' = IdsOf(S)
    BY <2>3 DEF Received, IdsOf
  <2>7. \A id : LineOf(id)' = LineIn(id, interactions, S)
    BY <2>5, <2>6 DEF LineOf, LineIn, Closed
  <2>8. \A id : Rooted(id)' <=> RootedIn(id, interactions, S)
    BY <2>5, <2>7 DEF Rooted, RootedIn
  <2>9. ToSet(order') = {id \in IdsOf(S) : RootedIn(id, interactions, S)}
    BY <2>3, <2>4, OrderIsRooted
  <2>10. /\ IsInjective(order')
         /\ \A m, n \in DOMAIN order' : Prev(interactions, order'[n]) = order'[m] => m < n
    BY <2>3, <2>4, OrderFollows
  <2>. QED
    BY <2>6, <2>8, <2>9, <2>10, LinesAre
<1>. QED
  BY <1>1, EpisodeInvariant, PTL DEF EpisodeSpec, OrderFollowsPrevious
=============================================================================
