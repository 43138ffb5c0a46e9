--------------------------- MODULE DBStateProofs ----------------------------
(***************************************************************************)
(* Replay computes what applying the records one by one does, and the      *)
(* operations of dbState keep the derived trees in step with the primary   *)
(* tree, for any keys, values, deadlines and indexes.                      *)
(***************************************************************************)
EXTENDS DBState, SequenceTheorems, FiniteSetTheorems, WellFoundedInduction, TLAPS

\* Induction, with a set for the predicate.
LEMMA SetInduction ==
  ASSUME NEW S, 0 \in S, \A n \in Nat : n \in S => n + 1 \in S
  PROVE  Nat \subseteq S
<1> DEFINE T == Nat \ S
           R == OpToRel(<, Nat)
<1> SUFFICES ASSUME T # {} PROVE FALSE
  OBVIOUS
<1>1. IsWellFoundedOn(R, Nat)
  BY NatLessThanWellFounded
<1>2. \A i, j \in Nat : i < j => <<i, j>> \in R
  BY DEF OpToRel
<1> HIDE DEF R
<1>3. PICK x \in T : \A y \in T : ~(<<y, x>> \in R)
  BY <1>1, WFMin
<1>4. x \in Nat /\ x # 0 /\ x - 1 \in Nat /\ x - 1 < x
  BY <1>3
<1>5. x - 1 \in S
  BY <1>2, <1>3, <1>4
<1> QED
  BY <1>3, <1>4, <1>5

-----------------------------------------------------------------------------
(***************************************************************************)
(* Replay.  A run has the states from the first to the last record.        *)
(***************************************************************************)
UpTo(f, s, recs, n) == f = [i \in 0 .. n |-> IF i = 0 THEN s ELSE apply(f[i - 1], recs[i])]

Run(f, s, recs, n) ==
  /\ f[0] = s
  /\ \A i \in 1 .. n : f[i] = apply(f[i - 1], recs[i])

\* There is a run over any log.
LEMMA RunExists ==
  ASSUME NEW s, NEW recs, NEW n \in Nat
  PROVE  \E f : UpTo(f, s, recs, n)
<1> DEFINE E(f, m) == f = [i \in 0 .. m |-> IF i = 0 THEN s ELSE apply(f[i - 1], recs[i])]
           S == {m \in Nat : \E f : E(f, m)}
<1>1. 0 \in S
  <2>1. E([i \in 0 .. 0 |-> s], 0)
    OBVIOUS
  <2> QED
    BY <2>1
<1>2. ASSUME NEW m \in Nat, m \in S PROVE m + 1 \in S
  <2>1. PICK f : E(f, m)
    BY <1>2
  <2> DEFINE g == [i \in 0 .. m + 1 |-> IF i <= m THEN f[i] ELSE apply(f[m], recs[m + 1])]
  <2>2. \A i \in 0 .. m + 1 : g[i] = IF i = 0 THEN s ELSE apply(g[i - 1], recs[i])
    <3> TAKE i \in 0 .. m + 1
    <3>1. CASE i = 0
      <4>1. f[0] = s
        BY <2>1
      <4> QED
        BY <3>1, <4>1
    <3>2. CASE i \in 1 .. m
      <4>1. f[i] = apply(f[i - 1], recs[i])
        BY <2>1, <3>2
      <4>2. g[i] = f[i] /\ g[i - 1] = f[i - 1]
        BY <3>2
      <4> QED
        BY <3>2, <4>1, <4>2
    <3>3. CASE i = m + 1
      <4>1. g[i] = apply(f[m], recs[m + 1]) /\ g[i - 1] = f[m]
        BY <3>3
      <4> QED
        BY <3>3, <4>1
    <3> QED
      BY <3>1, <3>2, <3>3
  <2>3. E(g, m + 1)
    <3> DEFINE h == [i \in 0 .. m + 1 |-> IF i = 0 THEN s ELSE apply(g[i - 1], recs[i])]
    <3>1. \A i \in 0 .. m + 1 : g[i] = h[i]
      BY <2>2
    <3>2. DOMAIN g = 0 .. m + 1 /\ DOMAIN h = 0 .. m + 1
      OBVIOUS
    <3>3. g = [i \in 0 .. m + 1 |-> g[i]] /\ h = [i \in 0 .. m + 1 |-> h[i]]
      OBVIOUS
    <3> HIDE DEF g, h
    <3>4. g = h
      BY <3>1, <3>3
    <3> QED
      BY <3>4 DEF h
  <2> HIDE DEF g
  <2> QED
    BY <2>3
<1> HIDE DEF S
<1>3. Nat \subseteq S
  BY <1>1, <1>2, SetInduction
<1> QED
  BY <1>3 DEF S, UpTo

\* replay is where a run ends.
LEMMA ReplayRun ==
  ASSUME NEW s, NEW recs, Len(recs) \in Nat
  PROVE  \E f : Run(f, s, recs, Len(recs)) /\ replay(s, recs) = f[Len(recs)]
<1> DEFINE n == Len(recs)
           upTo == CHOOSE f : UpTo(f, s, recs, n)
<1>1. UpTo(upTo, s, recs, n)
  BY RunExists
<1>2. upTo = [i \in 0 .. n |-> IF i = 0 THEN s ELSE apply(upTo[i - 1], recs[i])]
  BY <1>1 DEF UpTo
<1>3. replay(s, recs) = upTo[n]
  BY DEF replay, UpTo
<1> HIDE DEF upTo
<1>4. upTo[0] = s
  BY <1>2
<1>5. \A i \in 1 .. n : upTo[i] = apply(upTo[i - 1], recs[i])
  BY <1>2
<1> QED
  BY <1>3, <1>4, <1>5 DEF Run

\* What is true before the first record and kept by each is true in the end:
\* here of pairs of runs, over the same records.
LEMMA ReplayPairs ==
  ASSUME NEW P, NEW R, NEW s, NEW t, NEW recs, Len(recs) \in Nat,
         <<s, t>> \in P,
         \A i \in 1 .. Len(recs) : recs[i] \in R,
         \A x, y, r : <<x, y>> \in P /\ r \in R => <<apply(x, r), apply(y, r)>> \in P
  PROVE  <<replay(s, recs), replay(t, recs)>> \in P
<1> DEFINE n == Len(recs)
<1>1. PICK f : Run(f, s, recs, n) /\ replay(s, recs) = f[n]
  BY ReplayRun
<1>2. PICK g : Run(g, t, recs, n) /\ replay(t, recs) = g[n]
  BY ReplayRun
<1> DEFINE S == {i \in Nat : i <= n => <<f[i], g[i]>> \in P}
<1>3. 0 \in S
  BY <1>1, <1>2 DEF Run
<1>4. ASSUME NEW i \in Nat, i \in S PROVE i + 1 \in S
  <2> SUFFICES ASSUME i + 1 <= n PROVE <<f[i + 1], g[i + 1]>> \in P
    OBVIOUS
  <2>1. i + 1 \in 1 .. n /\ i + 1 - 1 = i /\ i <= n
    OBVIOUS
  <2>2. f[i + 1] = apply(f[i], recs[i + 1]) /\ g[i + 1] = apply(g[i], recs[i + 1])
    BY <1>1, <1>2, <2>1 DEF Run
  <2>3. <<f[i], g[i]>> \in P
    BY <1>4, <2>1
  <2> QED
    BY <2>1, <2>2, <2>3
<1> HIDE DEF S
<1>5. Nat \subseteq S
  BY <1>3, <1>4, SetInduction
<1> QED
  BY <1>1, <1>2, <1>5 DEF S

\* The same of one run.
LEMMA ReplayIn ==
  ASSUME NEW S, NEW R, NEW s \in S, NEW recs, Len(recs) \in Nat,
         \A i \in 1 .. Len(recs) : recs[i] \in R,
         \A x \in S, r \in R : apply(x, r) \in S
  PROVE  replay(s, recs) \in S
<1>1. <<s, s>> \in S \X S
  OBVIOUS
<1>2. \A x, y, r : <<x, y>> \in S \X S /\ r \in R => <<apply(x, r), apply(y, r)>> \in S \X S
  OBVIOUS
<1>3. <<replay(s, recs), replay(s, recs)>> \in S \X S
  BY <1>1, <1>2, ReplayPairs
<1> QED
  BY <1>3

\* Every run over the records ends where replay does.
LEMMA RunUnique ==
  ASSUME NEW f, NEW s, NEW recs, Len(recs) \in Nat, Run(f, s, recs, Len(recs))
  PROVE  replay(s, recs) = f[Len(recs)]
<1> DEFINE n == Len(recs)
<1>1. PICK g : Run(g, s, recs, n) /\ replay(s, recs) = g[n]
  BY ReplayRun
<1> DEFINE S == {i \in Nat : i <= n => f[i] = g[i]}
<1>2. 0 \in S
  BY <1>1 DEF Run
<1>3. ASSUME NEW i \in Nat, i \in S PROVE i + 1 \in S
  <2> SUFFICES ASSUME i + 1 <= n PROVE f[i + 1] = g[i + 1]
    OBVIOUS
  <2>1. i + 1 \in 1 .. n /\ i + 1 - 1 = i /\ i <= n
    OBVIOUS
  <2>2. f[i + 1] = apply(f[i], recs[i + 1]) /\ g[i + 1] = apply(g[i], recs[i + 1])
    BY <1>1, <2>1 DEF Run
  <2> QED
    BY <1>3, <2>1, <2>2
<1> HIDE DEF S
<1>4. Nat \subseteq S
  BY <1>2, <1>3, SetInduction
<1> QED
  BY <1>1, <1>4 DEF S

\* A log in two parts is replayed one after the other.
LEMMA ReplayConcat ==
  ASSUME NEW R, NEW s, NEW a \in Seq(R), NEW b \in Seq(R)
  PROVE  replay(s, a \o b) = replay(replay(s, a), b)
<1> DEFINE m == Len(a)
           n == Len(b)
           c == a \o b
<1>1. m \in Nat /\ n \in Nat
  BY LenProperties
<1>2. /\ Len(c) = m + n
      /\ \A i \in 1 .. m + n : c[i] = IF i <= m THEN a[i] ELSE b[i - m]
  BY ConcatProperties
<1> HIDE DEF c
<1>3. PICK f : Run(f, s, a, m) /\ replay(s, a) = f[m]
  BY <1>1, ReplayRun
<1>4. PICK g : Run(g, f[m], b, n) /\ replay(f[m], b) = g[n]
  BY <1>1, ReplayRun
<1> HIDE DEF m, n
<1> DEFINE h == [i \in 0 .. m + n |-> IF i <= m THEN f[i] ELSE g[i - m]]
<1>5. h[0] = s
  BY <1>1, <1>3 DEF Run
<1>6. ASSUME NEW i \in 1 .. m + n PROVE h[i] = apply(h[i - 1], c[i])
  <2>1. CASE i <= m
    <3>1. f[i] = apply(f[i - 1], a[i])
      BY <1>1, <1>3, <2>1 DEF Run
    <3>2. h[i] = f[i] /\ h[i - 1] = f[i - 1] /\ c[i] = a[i]
      BY <1>1, <1>2, <2>1
    <3> QED
      BY <3>1, <3>2
  <2>2. CASE i > m
    <3>1. i - m \in 1 .. n /\ (i - m) - 1 = (i - 1) - m
      BY <1>1, <2>2
    <3>2. g[i - m] = apply(g[(i - 1) - m], b[i - m])
      BY <1>4, <3>1 DEF Run
    <3>3. h[i] = g[i - m] /\ c[i] = b[i - m]
      BY <1>1, <1>2, <2>2
    <3>4. h[i - 1] = g[(i - 1) - m]
      <4>1. CASE i = m + 1
        <5>1. h[i - 1] = f[m] /\ (i - 1) - m = 0
          BY <1>1, <4>1
        <5> QED
          BY <1>4, <5>1 DEF Run
      <4>2. CASE i # m + 1
        BY <1>1, <2>2, <4>2
      <4> QED
        BY <4>1, <4>2
    <3> QED
      BY <3>2, <3>3, <3>4
  <2> QED
    BY <1>1, <2>1, <2>2
<1>7. h[m + n] = g[n]
  <2>1. CASE n = 0
    <3>1. h[m + n] = f[m]
      BY <1>1, <2>1
    <3> QED
      BY <1>4, <2>1, <3>1 DEF Run
  <2>2. CASE n # 0
    BY <1>1, <2>2
  <2> QED
    BY <2>1, <2>2
<1> HIDE DEF h
<1>8. Run(h, s, c, Len(c)) /\ Len(c) \in Nat
  BY <1>1, <1>2, <1>5, <1>6 DEF Run
<1>9. replay(s, c) = h[Len(c)]
  BY <1>8, RunUnique
<1> QED
  BY <1>2, <1>3, <1>4, <1>7, <1>9 DEF c

LEMMA ReplayEmpty ==
  ASSUME NEW s
  PROVE  replay(s, <<>>) = s
<1>1. Len(<<>>) = 0 /\ Len(<<>>) \in Nat
  OBVIOUS
<1>2. PICK f : Run(f, s, <<>>, Len(<<>>)) /\ replay(s, <<>>) = f[Len(<<>>)]
  BY <1>1, ReplayRun
<1> QED
  BY <1>1, <1>2 DEF Run

LEMMA ReplayOne ==
  ASSUME NEW s, NEW r
  PROVE  replay(s, <<r>>) = apply(s, r)
<1>1. Len(<<r>>) = 1 /\ Len(<<r>>) \in Nat /\ <<r>>[1] = r
  OBVIOUS
<1>2. PICK f : Run(f, s, <<r>>, Len(<<r>>)) /\ replay(s, <<r>>) = f[Len(<<r>>)]
  BY <1>1, ReplayRun
<1>3. f[1] = apply(f[1 - 1], <<r>>[1]) /\ f[0] = s
  BY <1>1, <1>2 DEF Run
<1>4. 1 - 1 = 0
  OBVIOUS
<1> QED
  BY <1>1, <1>2, <1>3, <1>4

LEMMA ReplayAppend ==
  ASSUME NEW R, NEW s, NEW a \in Seq(R), NEW r \in R
  PROVE  replay(s, Append(a, r)) = apply(replay(s, a), r)
<1> DEFINE b == <<r>>
<1>1. Append(a, r) = a \o b
  BY AppendIsConcat
<1>2. b \in Seq(R)
  OBVIOUS
<1>3. replay(replay(s, a), b) = apply(replay(s, a), r)
  BY ReplayOne
<1> HIDE DEF b
<1>4. replay(s, a \o b) = replay(replay(s, a), b)
  BY <1>2, ReplayConcat
<1> QED
  BY <1>1, <1>3, <1>4
-----------------------------------------------------------------------------
(***************************************************************************)
(* A finite set of keys has an order.                                      *)
(***************************************************************************)
LEMMA Greatest ==
  ASSUME NEW T \in SUBSET Nat, IsFiniteSet(T), T # {}
  PROVE  \E m \in T : \A x \in T : x <= m
<1> DEFINE HasMax(U) == \E m \in U : \A x \in U : x <= m
           S == {n \in Nat : \A U \in SUBSET Nat :
                   IsFiniteSet(U) /\ Cardinality(U) = n /\ U # {} => HasMax(U)}
<1>1. 0 \in S
  BY FS_EmptySet
<1>2. ASSUME NEW n \in Nat, n \in S PROVE n + 1 \in S
  <2> SUFFICES ASSUME NEW U \in SUBSET Nat,
                      IsFiniteSet(U), Cardinality(U) = n + 1, U # {}
               PROVE  HasMax(U)
    OBVIOUS
  <2>1. PICK x \in U : TRUE
    OBVIOUS
  <2>2. IsFiniteSet(U \ {x}) /\ Cardinality(U \ {x}) = n
    <3>1. IsFiniteSet(U \ {x}) /\ Cardinality(U \ {x}) = Cardinality(U) - 1
      BY <2>1, FS_RemoveElement
    <3> QED
      BY <3>1
  <2>3. CASE U \ {x} = {}
    BY <2>1, <2>3
  <2>4. CASE U \ {x} # {}
    <3>1. HasMax(U \ {x})
      BY <1>2, <2>2, <2>4
    <3>2. PICK m \in U \ {x} : \A y \in U \ {x} : y <= m
      BY <3>1
    <3>3. CASE x <= m
      BY <3>2, <3>3
    <3>4. CASE m < x
      BY <2>1, <3>2, <3>4
    <3> QED
      BY <2>1, <3>2, <3>3, <3>4
  <2> QED
    BY <2>3, <2>4
<1>3. Nat \subseteq S
  <2> HIDE DEF S
  <2> QED
    BY <1>1, <1>2, SetInduction
<1>4. Cardinality(T) \in Nat
  BY FS_CardinalityType
<1> QED
  BY <1>3, <1>4

LEMMA Sorted ==
  ASSUME NEW T \in SUBSET Nat, IsFiniteSet(T)
  PROVE  \E q \in [1 .. Cardinality(T) -> T] :
           \A i, j \in 1 .. Cardinality(T) : i < j => q[i] < q[j]
<1> DEFINE Order(U, n, q) == /\ q \in [1 .. n -> U]
                             /\ \A i, j \in 1 .. n : i < j => q[i] < q[j]
           S == {n \in Nat : \A U \in SUBSET Nat :
                   IsFiniteSet(U) /\ Cardinality(U) = n => \E q : Order(U, n, q)}
<1>1. 0 \in S
  <2> SUFFICES ASSUME NEW U \in SUBSET Nat PROVE \E q : Order(U, 0, q)
    OBVIOUS
  <2>1. Order(U, 0, [i \in 1 .. 0 |-> 0])
    OBVIOUS
  <2> QED
    BY <2>1
<1>2. ASSUME NEW n \in Nat, n \in S PROVE n + 1 \in S
  <2> SUFFICES ASSUME NEW U \in SUBSET Nat, IsFiniteSet(U), Cardinality(U) = n + 1
               PROVE  \E q : Order(U, n + 1, q)
    OBVIOUS
  <2>1. U # {}
    BY FS_EmptySet
  <2>2. PICK m \in U : \A x \in U : x <= m
    BY <2>1, Greatest
  <2>3. IsFiniteSet(U \ {m}) /\ Cardinality(U \ {m}) = n
    BY <2>2, FS_RemoveElement
  <2>4. PICK q : Order(U \ {m}, n, q)
    BY <1>2, <2>3
  <2> DEFINE p == [i \in 1 .. n + 1 |-> IF i = n + 1 THEN m ELSE q[i]]
  <2>5. \A i \in 1 .. n : q[i] \in U /\ q[i] < m
    <3> TAKE i \in 1 .. n
    <3>1. q[i] \in U \ {m}
      BY <2>4
    <3>2. q[i] \in Nat /\ m \in Nat /\ q[i] <= m /\ q[i] # m
      BY <2>2, <3>1
    <3> QED
      BY <3>1, <3>2
  <2>6. p \in [1 .. n + 1 -> U]
    BY <2>2, <2>5
  <2>7. \A i, j \in 1 .. n + 1 : i < j => p[i] < p[j]
    <3> SUFFICES ASSUME NEW i \in 1 .. n + 1, NEW j \in 1 .. n + 1, i < j
                 PROVE  p[i] < p[j]
      OBVIOUS
    <3>1. i \in 1 .. n /\ p[i] = q[i]
      OBVIOUS
    <3>2. CASE j = n + 1
      BY <2>5, <3>1, <3>2
    <3>3. CASE j # n + 1
      <4>1. j \in 1 .. n /\ p[j] = q[j]
        BY <3>3
      <4> QED
        BY <2>4, <3>1, <4>1
    <3> QED
      BY <3>2, <3>3
  <2> HIDE DEF p
  <2> QED
    BY <2>6, <2>7
<1>3. Nat \subseteq S
  <2> HIDE DEF S
  <2> QED
    BY <1>1, <1>2, SetInduction
<1>4. Cardinality(T) \in Nat
  BY FS_CardinalityType
<1>5. \E q : Order(T, Cardinality(T), q)
  BY <1>3, <1>4
<1> QED
  BY <1>5
-----------------------------------------------------------------------------
(***************************************************************************)
(* The types of the operations.                                            *)
(***************************************************************************)
IdxTypes == UNION {[N -> SUBSET (Keys \X Values)] : N \in SUBSET Names}

LEMMA Idx ==
  ASSUME NEW x
  PROVE  x \in IdxTypes <=>
           /\ x = [n \in DOMAIN x |-> x[n]]
           /\ DOMAIN x \subseteq Names
           /\ \A n \in DOMAIN x : x[n] \subseteq Keys \X Values
<1>1. ASSUME x \in IdxTypes
      PROVE  /\ x = [n \in DOMAIN x |-> x[n]]
             /\ DOMAIN x \subseteq Names
             /\ \A n \in DOMAIN x : x[n] \subseteq Keys \X Values
  <2>1. PICK N \in SUBSET Names : x \in [N -> SUBSET (Keys \X Values)]
    BY <1>1 DEF IdxTypes
  <2> QED
    BY <2>1
<1>2. ASSUME /\ x = [n \in DOMAIN x |-> x[n]]
             /\ DOMAIN x \subseteq Names
             /\ \A n \in DOMAIN x : x[n] \subseteq Keys \X Values
      PROVE  x \in IdxTypes
  <2>1. x \in [DOMAIN x -> SUBSET (Keys \X Values)]
    BY <1>2
  <2> QED
    BY <1>2, <2>1 DEF IdxTypes
<1> QED
  BY <1>1, <1>2

LEMMA StateParts ==
  ASSUME NEW s \in States
  PROVE  /\ s.data \in [Keys -> Values \union {NoValue}]
         /\ s.ttl \in [Keys -> Nat]
         /\ s.exp \in SUBSET (Nat \X Keys)
         /\ s.idx \in IdxTypes
BY DEF States, IdxTypes

LEMMA StateOf ==
  ASSUME NEW d \in [Keys -> Values \union {NoValue}], NEW t \in [Keys -> Nat],
         NEW e \in SUBSET (Nat \X Keys), NEW x \in IdxTypes
  PROVE  [data |-> d, ttl |-> t, exp |-> e, idx |-> x] \in States
BY DEF States, IdxTypes

LEMMA NewType == newDBState \in States
<1>1. [n \in {} |-> {}] \in IdxTypes
  BY Idx
<1> QED
  BY <1>1, StateOf DEF newDBState

LEMMA SetType ==
  ASSUME NEW s \in States, NEW k \in Keys, NEW v \in Values, NEW deadline \in Nat
  PROVE  set(s, k, v, deadline) \in States
<1> DEFINE d == [s.data EXCEPT ![k] = v]
           t == [s.ttl EXCEPT ![k] = deadline]
           e == (s.exp \ {<<s.ttl[k], k>>})
                  \union (IF deadline > 0 THEN {<<deadline, k>>} ELSE {})
           x == [n \in DOMAIN s.idx |-> (s.idx[n] \ {<<k, s.data[k]>>}) \union {<<k, v>>}]
<1>1. d \in [Keys -> Values \union {NoValue}]
  BY StateParts
<1>2. t \in [Keys -> Nat]
  BY StateParts
<1>3. e \in SUBSET (Nat \X Keys)
  BY StateParts
<1>4. DOMAIN s.idx \subseteq Names /\ \A n \in DOMAIN s.idx : s.idx[n] \subseteq Keys \X Values
  BY StateParts, Idx
<1>5. x \in IdxTypes
  <2>1. DOMAIN x \subseteq Names /\ x = [n \in DOMAIN x |-> x[n]]
    BY <1>4
  <2>2. \A n \in DOMAIN x : x[n] \subseteq Keys \X Values
    BY <1>4
  <2> HIDE DEF x
  <2> QED
    BY <2>1, <2>2, Idx
<1>6. set(s, k, v, deadline) = [data |-> d, ttl |-> t, exp |-> e, idx |-> x]
  BY DEF set
<1> HIDE DEF d, t, e, x
<1> QED
  BY <1>1, <1>2, <1>3, <1>5, <1>6, StateOf

LEMMA DeleteType ==
  ASSUME NEW s \in States, NEW k \in Keys
  PROVE  delete(s, k) \in States
<1> SUFFICES ASSUME Contains(s, k) PROVE delete(s, k) \in States
  BY DEF delete
<1> DEFINE d == [s.data EXCEPT ![k] = NoValue]
           t == [s.ttl EXCEPT ![k] = 0]
           e == s.exp \ {<<s.ttl[k], k>>}
           x == [n \in DOMAIN s.idx |-> s.idx[n] \ {<<k, s.data[k]>>}]
<1>1. d \in [Keys -> Values \union {NoValue}]
  BY StateParts
<1>2. t \in [Keys -> Nat]
  BY StateParts
<1>3. e \in SUBSET (Nat \X Keys)
  BY StateParts
<1>4. DOMAIN s.idx \subseteq Names /\ \A n \in DOMAIN s.idx : s.idx[n] \subseteq Keys \X Values
  BY StateParts, Idx
<1>5. x \in IdxTypes
  <2>1. DOMAIN x \subseteq Names /\ x = [n \in DOMAIN x |-> x[n]]
    BY <1>4
  <2>2. \A n \in DOMAIN x : x[n] \subseteq Keys \X Values
    BY <1>4
  <2> HIDE DEF x
  <2> QED
    BY <2>1, <2>2, Idx
<1>6. delete(s, k) = [data |-> d, ttl |-> t, exp |-> e, idx |-> x]
  BY DEF delete
<1> HIDE DEF d, t, e, x
<1>7. [data |-> d, ttl |-> t, exp |-> e, idx |-> x] \in States
  BY <1>1, <1>2, <1>3, <1>5, StateOf
<1> QED
  BY <1>6, <1>7
-----------------------------------------------------------------------------
(***************************************************************************)
(* The operations keep the derived trees in step.                          *)
(***************************************************************************)
\* set, the one mutation of a Put, a SetTTL and a replayed record.
LEMMA SetMirrors ==
  ASSUME NEW s \in States, Mirror(s),
         NEW k \in Keys, NEW v \in Values, NEW deadline \in Nat
  PROVE  Mirror(set(s, k, v, deadline))
<1> DEFINE t == set(s, k, v, deadline)
<1>1. /\ t.data = [s.data EXCEPT ![k] = v]
      /\ t.ttl = [s.ttl EXCEPT ![k] = deadline]
      /\ t.exp = (s.exp \ {<<s.ttl[k], k>>})
                   \union (IF deadline > 0 THEN {<<deadline, k>>} ELSE {})
      /\ DOMAIN t.idx = DOMAIN s.idx
      /\ \A n \in DOMAIN s.idx :
           t.idx[n] = (s.idx[n] \ {<<k, s.data[k]>>}) \union {<<k, v>>}
  BY DEF set
<1> HIDE DEF t
<1>2. /\ s.data \in [Keys -> Values \union {NoValue}]
      /\ s.ttl \in [Keys -> Nat]
  BY DEF States
<1>3. /\ t.data[k] = v /\ t.ttl[k] = deadline
      /\ \A j \in Keys : j # k => t.data[j] = s.data[j] /\ t.ttl[j] = s.ttl[j]
  BY <1>1, <1>2
<1>4. \A j \in Keys : t.ttl[j] > 0 => Contains(t, j)
  BY <1>3, NoValueAssumption DEF Contains, Mirror
<1>5. t.exp = {<<t.ttl[j], j>> : j \in {i \in Keys : t.ttl[i] > 0}}
  <2>1. s.exp = {<<s.ttl[j], j>> : j \in {i \in Keys : s.ttl[i] > 0}}
    BY DEF Mirror
  <2> QED
    BY <1>1, <1>2, <1>3, <2>1
<1>6. ASSUME NEW n \in DOMAIN t.idx
      PROVE  t.idx[n] = {<<j, t.data[j]>> : j \in {i \in Keys : Contains(t, i)}}
  <2>1. s.idx[n] = {<<j, s.data[j]>> : j \in {i \in Keys : s.data[i] # NoValue}}
    BY <1>1 DEF Mirror, Contains
  <2>2. t.idx[n] = (s.idx[n] \ {<<k, s.data[k]>>}) \union {<<k, v>>}
    BY <1>1
  <2> QED
    BY <1>3, <2>1, <2>2, NoValueAssumption DEF Contains
<1> QED
  BY <1>4, <1>5, <1>6 DEF Mirror, t

\* delete, of a Delete, a sweep and a replayed record.
LEMMA DeleteMirrors ==
  ASSUME NEW s \in States, Mirror(s), NEW k \in Keys
  PROVE  Mirror(delete(s, k))
<1> SUFFICES ASSUME Contains(s, k) PROVE Mirror(delete(s, k))
  BY DEF delete
<1> DEFINE t == delete(s, k)
<1>1. /\ t.data = [s.data EXCEPT ![k] = NoValue]
      /\ t.ttl = [s.ttl EXCEPT ![k] = 0]
      /\ t.exp = s.exp \ {<<s.ttl[k], k>>}
      /\ DOMAIN t.idx = DOMAIN s.idx
      /\ \A n \in DOMAIN s.idx : t.idx[n] = s.idx[n] \ {<<k, s.data[k]>>}
  BY DEF delete
<1> HIDE DEF t
<1>2. /\ s.data \in [Keys -> Values \union {NoValue}]
      /\ s.ttl \in [Keys -> Nat]
  BY DEF States
<1>3. /\ t.data[k] = NoValue /\ t.ttl[k] = 0
      /\ \A j \in Keys : j # k => t.data[j] = s.data[j] /\ t.ttl[j] = s.ttl[j]
  BY <1>1, <1>2
<1>4. \A j \in Keys : t.ttl[j] > 0 => Contains(t, j)
  BY <1>3 DEF Contains, Mirror
<1>5. t.exp = {<<t.ttl[j], j>> : j \in {i \in Keys : t.ttl[i] > 0}}
  <2>1. s.exp = {<<s.ttl[j], j>> : j \in {i \in Keys : s.ttl[i] > 0}}
    BY DEF Mirror
  <2> QED
    BY <1>1, <1>2, <1>3, <2>1
<1>6. ASSUME NEW n \in DOMAIN t.idx
      PROVE  t.idx[n] = {<<j, t.data[j]>> : j \in {i \in Keys : Contains(t, i)}}
  <2>1. s.idx[n] = {<<j, s.data[j]>> : j \in {i \in Keys : s.data[i] # NoValue}}
    BY <1>1 DEF Mirror, Contains
  <2>2. t.idx[n] = s.idx[n] \ {<<k, s.data[k]>>}
    BY <1>1
  <2> QED
    BY <1>3, <2>1, <2>2 DEF Contains
<1> QED
  BY <1>4, <1>5, <1>6 DEF Mirror, t

LEMMA NewMirrors == Mirror(newDBState)
BY DEF Mirror, newDBState, Contains

\* What both index registrations leave alone, and what they need to be states.
LEMMA Reindexed ==
  ASSUME NEW s \in States, Mirror(s), NEW x,
         x = [n \in DOMAIN x |-> x[n]], DOMAIN x \subseteq Names,
         \A n \in DOMAIN x : x[n] = {<<k, s.data[k]>> : k \in {j \in Keys : Contains(s, j)}}
  PROVE  LET t == [data |-> s.data, ttl |-> s.ttl, exp |-> s.exp, idx |-> x]
         IN  t \in States /\ Mirror(t)
<1> DEFINE t == [data |-> s.data, ttl |-> s.ttl, exp |-> s.exp, idx |-> x]
<1>1. \A n \in DOMAIN x : x[n] \subseteq Keys \X Values
  BY StateParts DEF Contains
<1>2. x \in IdxTypes
  BY <1>1, Idx
<1>3. t \in States
  BY <1>2, StateParts, StateOf
<1>4. t.data = s.data /\ t.ttl = s.ttl /\ t.exp = s.exp /\ t.idx = x
  OBVIOUS
<1> HIDE DEF t
<1>5. Mirror(t)
  BY <1>4 DEF Mirror, Contains
<1> QED
  BY <1>3, <1>5 DEF t

LEMMA AddIndexMirrors ==
  ASSUME NEW s \in States, Mirror(s), NEW n \in Names
  PROVE  addIndex(s, n) \in States /\ Mirror(addIndex(s, n))
<1> DEFINE pairs == {<<k, s.data[k]>> : k \in {j \in Keys : Contains(s, j)}}
           x == [m \in DOMAIN s.idx \union {n} |-> IF m = n THEN pairs ELSE s.idx[m]]
<1>1. DOMAIN s.idx \subseteq Names
  BY StateParts, Idx
<1>2. \A m \in DOMAIN s.idx : s.idx[m] = pairs
  BY DEF Mirror
<1>3. addIndex(s, n) = [data |-> s.data, ttl |-> s.ttl, exp |-> s.exp, idx |-> x]
  BY DEF addIndex
<1>4. DOMAIN x \subseteq Names /\ x = [m \in DOMAIN x |-> x[m]]
  BY <1>1
<1>5. \A m \in DOMAIN x : x[m] = pairs
  BY <1>2
<1> HIDE DEF x
<1> QED
  BY <1>3, <1>4, <1>5, Reindexed

LEMMA DropIndexMirrors ==
  ASSUME NEW s \in States, Mirror(s), NEW n
  PROVE  dropIndex(s, n) \in States /\ Mirror(dropIndex(s, n))
<1> DEFINE pairs == {<<k, s.data[k]>> : k \in {j \in Keys : Contains(s, j)}}
           x == [m \in DOMAIN s.idx \ {n} |-> s.idx[m]]
<1>1. DOMAIN s.idx \subseteq Names
  BY StateParts, Idx
<1>2. \A m \in DOMAIN s.idx : s.idx[m] = pairs
  BY DEF Mirror
<1>3. dropIndex(s, n) = [data |-> s.data, ttl |-> s.ttl, exp |-> s.exp, idx |-> x]
  BY DEF dropIndex
<1>4. DOMAIN x \subseteq Names /\ x = [m \in DOMAIN x |-> x[m]]
  BY <1>1
<1>5. \A m \in DOMAIN x : x[m] = pairs
  BY <1>2
<1> HIDE DEF x
<1> QED
  BY <1>3, <1>4, <1>5, Reindexed

\* States in step, and the records that keep them so.
Good == {s \in States : Mirror(s)}

LEMMA RecordKinds ==
  ASSUME NEW r \in Records
  PROVE  \/ r.op = "set" /\ r.key \in Keys /\ r.val \in Values /\ r.deadline \in Nat
         \/ r.op = "delete" /\ r.key \in Keys
BY DEF Records

LEMMA ApplyGood ==
  ASSUME NEW s \in Good, NEW r \in Records
  PROVE  apply(s, r) \in Good
<1>1. CASE r.op = "set" /\ r.key \in Keys /\ r.val \in Values /\ r.deadline \in Nat
  BY <1>1, SetType, SetMirrors DEF Good, apply
<1>2. CASE r.op = "delete" /\ r.key \in Keys
  BY <1>2, DeleteType, DeleteMirrors DEF Good, apply
<1> QED
  BY <1>1, <1>2, RecordKinds

LEMMA ReplayGood ==
  ASSUME NEW s \in Good, NEW recs \in Seq(Records)
  PROVE  replay(s, recs) \in Good
<1>1. Len(recs) \in Nat /\ \A i \in 1 .. Len(recs) : recs[i] \in Records
  BY LenProperties, ElementOfSeq
<1>2. \A x \in Good, r \in Records : apply(x, r) \in Good
  BY ApplyGood
<1> QED
  BY <1>1, <1>2, ReplayIn
-----------------------------------------------------------------------------
(***************************************************************************)
(* What readers see.                                                       *)
(***************************************************************************)
\* Keys with the same value and deadline look the same.
LEMMA SameView ==
  ASSUME NEW s \in States, NEW t \in States, NEW now \in Nat
  PROVE  SameAt(s, t, now) <=>
           \A k \in Keys : IF get(s, k, now) = NoValue THEN get(t, k, now) = NoValue
                          ELSE /\ get(t, k, now) # NoValue
                               /\ s.data[k] = t.data[k] /\ s.ttl[k] = t.ttl[k]
<1> DEFINE At(u, k) == IF get(u, k, now) = NoValue THEN <<NoValue, 0>>
                       ELSE <<u.data[k], u.ttl[k]>>
<1>1. View(s, now) = [k \in Keys |-> At(s, k)] /\ View(t, now) = [k \in Keys |-> At(t, k)]
  BY DEF View
<1>2. SameAt(s, t, now) <=> \A k \in Keys : At(s, k) = At(t, k)
  BY <1>1 DEF SameAt
<1>3. \A k \in Keys : /\ get(s, k, now) # NoValue => s.data[k] # NoValue
                      /\ get(t, k, now) # NoValue => t.data[k] # NoValue
  BY DEF get, Contains
<1> QED
  BY <1>2, <1>3

LEMMA ApplySame ==
  ASSUME NEW s \in Good, NEW t \in Good, NEW now \in Nat, SameAt(s, t, now),
         NEW r \in Records
  PROVE  SameAt(apply(s, r), apply(t, r), now)
<1> DEFINE k == r.key
           u == apply(s, r)
           w == apply(t, r)
<1>1. u \in States /\ w \in States /\ s \in States /\ t \in States
  BY ApplyGood DEF Good
<1>2. \A j \in Keys : IF get(s, j, now) = NoValue THEN get(t, j, now) = NoValue
                      ELSE /\ get(t, j, now) # NoValue
                           /\ s.data[j] = t.data[j] /\ s.ttl[j] = t.ttl[j]
  BY <1>1, SameView
<1>3. k \in Keys
  BY RecordKinds
<1>4. \A j \in Keys : j # k => /\ u.data[j] = s.data[j] /\ u.ttl[j] = s.ttl[j]
                               /\ w.data[j] = t.data[j] /\ w.ttl[j] = t.ttl[j]
  BY <1>1, <1>3, StateParts DEF apply, set, delete
<1>5. \/ u.data[k] = w.data[k] /\ u.ttl[k] = w.ttl[k]
      \/ u.data[k] = NoValue /\ w.data[k] = NoValue
  <2>1. CASE r.op = "set"
    BY <1>1, <1>3, <2>1, StateParts DEF apply, set
  <2>2. CASE r.op = "delete"
    BY <1>1, <1>3, <2>2, StateParts DEF apply, delete, Contains
  <2> QED
    BY <2>1, <2>2, RecordKinds
<1> HIDE DEF u, w, k
<1>6. ASSUME NEW j \in Keys
      PROVE  IF get(u, j, now) = NoValue THEN get(w, j, now) = NoValue
             ELSE /\ get(w, j, now) # NoValue
                  /\ u.data[j] = w.data[j] /\ u.ttl[j] = w.ttl[j]
  <2>1. CASE j = k
    BY <1>5, <2>1 DEF get, Contains, expired
  <2>2. CASE j # k
    <3>1. get(u, j, now) = get(s, j, now) /\ get(w, j, now) = get(t, j, now)
      BY <1>4, <2>2 DEF get, Contains, expired
    <3> QED
      BY <1>2, <1>4, <2>2, <3>1
  <2> QED
    BY <2>1, <2>2
<1>7. SameAt(u, w, now)
  BY <1>1, <1>6, SameView
<1> QED
  BY <1>7 DEF u, w

\* States no reader tells apart stay so when the same records are replayed.
LEMMA ReplaySame ==
  ASSUME NEW s \in Good, NEW t \in Good, NEW now \in Nat, SameAt(s, t, now),
         NEW recs \in Seq(Records)
  PROVE  SameAt(replay(s, recs), replay(t, recs), now)
<1> DEFINE P == {p \in Good \X Good : SameAt(p[1], p[2], now)}
<1>1. Len(recs) \in Nat /\ \A i \in 1 .. Len(recs) : recs[i] \in Records
  BY LenProperties, ElementOfSeq
<1>2. <<s, t>> \in P
  OBVIOUS
<1>3. ASSUME NEW x, NEW y, NEW r, <<x, y>> \in P, r \in Records
      PROVE  <<apply(x, r), apply(y, r)>> \in P
  <2>1. x \in Good /\ y \in Good /\ SameAt(x, y, now)
    BY <1>3
  <2>2. apply(x, r) \in Good /\ apply(y, r) \in Good
    BY <1>3, <2>1, ApplyGood
  <2>3. SameAt(apply(x, r), apply(y, r), now)
    BY <1>3, <2>1, ApplySame
  <2> QED
    BY <2>2, <2>3
<1> HIDE DEF P
<1>4. <<replay(s, recs), replay(t, recs)>> \in P
  BY <1>1, <1>2, <1>3, ReplayPairs
<1> QED
  BY <1>4 DEF P

\* Deleting keys that are expired changes nothing a reader sees.
LEMMA DeletesUnseen ==
  ASSUME NEW s \in Good, NEW now \in Nat, NEW recs \in Seq(Records),
         \A i \in 1 .. Len(recs) : recs[i].op = "delete" /\ expired(s, recs[i].key, now)
  PROVE  SameAt(s, replay(s, recs), now)
<1> DEFINE R == {r \in Records : r.op = "delete" /\ expired(s, r.key, now)}
           S == {x \in Good : \A k \in Keys :
                   IF expired(s, k, now) THEN get(x, k, now) = NoValue
                   ELSE x.data[k] = s.data[k] /\ x.ttl[k] = s.ttl[k]}
<1>1. Len(recs) \in Nat /\ \A i \in 1 .. Len(recs) : recs[i] \in R
  BY LenProperties, ElementOfSeq
<1>2. s \in S
  BY DEF get
<1>3. ASSUME NEW x \in S, NEW r \in R PROVE apply(x, r) \in S
  <2> DEFINE u == apply(x, r)
  <2>1. r \in Records /\ r.op = "delete" /\ r.key \in Keys /\ expired(s, r.key, now) /\ x \in Good
    BY RecordKinds
  <2>2. u \in Good
    BY <2>1, ApplyGood
  <2>3. u.data[r.key] = NoValue
    BY <2>1, StateParts DEF apply, delete, Contains, Good
  <2>4. \A k \in Keys : k # r.key => u.data[k] = x.data[k] /\ u.ttl[k] = x.ttl[k]
    BY <2>1, StateParts DEF apply, delete, Good
  <2> HIDE DEF u
  <2>5. ASSUME NEW k \in Keys
        PROVE  IF expired(s, k, now) THEN get(u, k, now) = NoValue
               ELSE u.data[k] = s.data[k] /\ u.ttl[k] = s.ttl[k]
    <3>1. CASE k = r.key
      BY <2>1, <2>3, <3>1 DEF get, Contains
    <3>2. CASE k # r.key
      BY <2>4, <3>2 DEF get, Contains, expired
    <3> QED
      BY <3>1, <3>2
  <2> QED
    BY <2>2, <2>5 DEF u
<1> HIDE DEF S, R
<1>4. replay(s, recs) \in S
  BY <1>1, <1>2, <1>3, ReplayIn
<1>5. \A k \in Keys : IF expired(s, k, now) THEN get(replay(s, recs), k, now) = NoValue
                      ELSE /\ replay(s, recs).data[k] = s.data[k]
                           /\ replay(s, recs).ttl[k] = s.ttl[k]
  BY <1>4 DEF S
<1>6. replay(s, recs) \in States /\ s \in States
  BY <1>4 DEF S, Good
<1> QED
  BY <1>5, <1>6, SameView DEF get, Contains, expired

=============================================================================
