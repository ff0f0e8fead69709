---------------------------- MODULE TraceProofs ----------------------------
(***************************************************************************)
(* Proofs about the reconstruction of traces, for every body of evidence   *)
(* and every fleet: the trace depends on the evidence and not on the order *)
(* of its arrival, it shows every change of authority, late evidence only  *)
(* adds to it, and percentiles, tail and tallies of the fleet are right.   *)
(*                                                                         *)
(* reconstruct_trace is a sort and some folds.  A fold of the community    *)
(* modules is a recursive function over the sets of positions of a         *)
(* sequence; the module first shows that such functions exist, then that a *)
(* fold is the last of the values its prefixes have.                       *)
(***************************************************************************)
EXTENDS Tail, FiniteSums, SequenceTheorems

-----------------------------------------------------------------------------
(* Folds *)

LEMMA MaxOfInterval ==
  ASSUME NEW n \in Nat, NEW S \in SUBSET (1..n), n \in S
  PROVE  Max(S) = n
<1>1. n \in S /\ \A y \in S : n >= y
  OBVIOUS
<1>2. \A x \in S : (\A y \in S : x >= y) => x = n
  OBVIOUS
<1> QED
  BY <1>1, <1>2 DEF Max

\* A fold takes the positions of a prefix one by one.
LEMMA IntervalFacts ==
  ASSUME NEW n \in Nat, NEW i \in 1..n
  PROVE  /\ 1..i \in SUBSET (1..n) /\ 1..i # {}
         /\ Max(1..i) = i
         /\ (1..i) \ {i} = 1..(i - 1)
<1>1. i \in Nat /\ i \in 1..i
  OBVIOUS
<1>2. Max(1..i) = i
  BY <1>1, MaxOfInterval
<1>3. (1..i) \ {i} = 1..(i - 1)
  <2>1. \A j : j \in (1..i) \ {i} <=> j \in 1..(i - 1)
    BY <1>1
  <2> QED
    BY <2>1
<1> QED
  BY <1>1, <1>2, <1>3

LEMMA MaxFacts ==
  ASSUME NEW n \in Nat, NEW S \in SUBSET (1..n), S # {}
  PROVE  Max(S) \in S /\ \A y \in S : y <= Max(S)
<1> DEFINE U == {k \in Nat : \A y \in S : y <= k}
<1>1. n \in U
  OBVIOUS
<1>2. PICK k \in U : \A u \in U : k <= u
  BY <1>1, LeastExists
<1>3. k \in S
  <2>1. SUFFICES ASSUME k \notin S PROVE FALSE
    OBVIOUS
  <2>2. PICK y \in S : TRUE
    OBVIOUS
  <2>3. k # 0 /\ k - 1 \in Nat
    BY <1>2, <2>1, <2>2
  <2>4. \A z \in S : z <= k - 1
    BY <1>2, <2>1
  <2>5. k - 1 \in U
    BY <2>3, <2>4
  <2> QED
    BY <1>2, <2>3, <2>5
<1>4. \A y \in S : k >= y
  BY <1>2
<1>5. \A x \in S : (\A y \in S : x >= y) => x = k
  BY <1>3, <1>4
<1>6. Max(S) = k
  BY <1>3, <1>4, <1>5 DEF Max
<1> QED
  BY <1>3, <1>4, <1>6

\* F is what one step of a fold makes of an accumulator in T and one of n
\* positions, g folds F over every set of positions.
IsStep(F, T, n) == \A t \in T : \A i \in 1..n : F[<<t, i>>] \in T

IsFoldOf(g, F, base, T, n) ==
  /\ g \in [SUBSET (1..n) -> T]
  /\ g[{}] = base
  /\ \A S \in SUBSET (1..n) : S # {} => g[S] = F[<<g[S \ {Max(S)}], Max(S)>>]

LEMMA FoldExists ==
  ASSUME NEW n \in Nat, NEW T, NEW base \in T, NEW F, IsStep(F, T, n)
  PROVE  \E g : IsFoldOf(g, F, base, T, n)
<1> USE DEF IsStep, IsFoldOf
<1> DEFINE IsFold(g, m) == IsFoldOf(g, F, base, T, m)
<1> DEFINE Foldable(m) == \E g : IsFold(g, m)
<1>1. Foldable(0)
  <2> DEFINE g == [S \in SUBSET (1..0) |-> base]
  <2>1. 1..0 = {}
    OBVIOUS
  <2>2. IsFold(g, 0)
    BY <2>1
  <2> QED
    BY <2>2
<1>2. ASSUME NEW m \in Nat, m + 1 <= n, Foldable(m) PROVE Foldable(m + 1)
  <2>2. m + 1 \in 1..n
    BY <1>2
  <2>3. PICK g : IsFold(g, m)
    BY <1>2
  <2> DEFINE h == [S \in SUBSET (1..(m + 1)) |->
                     IF m + 1 \in S THEN F[<<g[S \ {m + 1}], m + 1>>] ELSE g[S]]
  <2>4. \A S \in SUBSET (1..(m + 1)) : S \ {m + 1} \in SUBSET (1..m)
    <3>1. ASSUME NEW S \in SUBSET (1..(m + 1)), NEW i \in S \ {m + 1} PROVE i \in 1..m
      <4>1. i \in 1..(m + 1) /\ i # m + 1
        OBVIOUS
      <4> QED
        BY <4>1
    <3> QED
      BY <3>1
  <2>5. \A S \in SUBSET (1..(m + 1)) : m + 1 \notin S => S \in SUBSET (1..m)
    OBVIOUS
  <2>6. h \in [SUBSET (1..(m + 1)) -> T]
    <3>1. ASSUME NEW S \in SUBSET (1..(m + 1))
          PROVE  (IF m + 1 \in S THEN F[<<g[S \ {m + 1}], m + 1>>] ELSE g[S]) \in T
      <4>1. CASE m + 1 \in S
        <5>1. g[S \ {m + 1}] \in T
          BY <2>3, <2>4
        <5> QED
          BY <2>2, <4>1, <5>1
      <4>2. CASE m + 1 \notin S
        BY <2>3, <2>5, <4>2
      <4> QED
        BY <4>1, <4>2
    <3> QED
      BY <3>1
  <2>7. h[{}] = base
    BY <2>3
  <2>8. ASSUME NEW S \in SUBSET (1..(m + 1)), S # {}
        PROVE  h[S] = F[<<h[S \ {Max(S)}], Max(S)>>]
    <3>1. CASE m + 1 \in S
      <4>1. Max(S) = m + 1
        BY <3>1, MaxOfInterval
      <4>2. h[S \ {m + 1}] = g[S \ {m + 1}]
        BY <2>4
      <4>3. h[S] = F[<<g[S \ {m + 1}], m + 1>>]
        BY <3>1
      <4> QED
        BY <4>1, <4>2, <4>3
    <3>2. CASE m + 1 \notin S
      <4>1. S \in SUBSET (1..m) /\ S \ {Max(S)} \in SUBSET (1..m)
        BY <2>5, <3>2
      <4>2. h[S] = g[S] /\ h[S \ {Max(S)}] = g[S \ {Max(S)}]
        BY <3>2, <4>1
      <4>3. g[S] = F[<<g[S \ {Max(S)}], Max(S)>>]
        BY <2>3, <2>8, <4>1
      <4> QED
        BY <4>2, <4>3
    <3> QED
      BY <3>1, <3>2
  <2> HIDE DEF h
  <2> QED
    BY <2>6, <2>7, <2>8
<1>3. Foldable(n)
  <2> DEFINE C == {m \in Nat : m <= n => Foldable(m)}
  <2> HIDE DEF Foldable
  <2>1. 0 \in C
    BY <1>1
  <2>2. \A m \in Nat : m \in C => m + 1 \in C
    BY <1>2
  <2>3. Nat \subseteq C
    <3> HIDE DEF C
    <3> QED
      BY <2>1, <2>2, SetInduction
  <2> QED
    BY <2>3
<1> QED
  BY <1>3

-----------------------------------------------------------------------------
(* Sorting *)

\* v with o in between its first n elements and the others.
Inserted(v, o, n) == SubSeq(v, 1, n) \o <<o>> \o SubSeq(v, n + 1, Len(v))

LEMMA InsertFacts ==
  ASSUME NEW S, NEW v \in Seq(S), NEW o \in S, NEW n \in 0..Len(v)
  PROVE  /\ Inserted(v, o, n) \in Seq(S)
         /\ Len(Inserted(v, o, n)) = Len(v) + 1
         /\ \A i \in 1..(Len(v) + 1) :
              Inserted(v, o, n)[i] = IF i <= n THEN v[i] ELSE IF i = n + 1 THEN o ELSE v[i - 1]
<1> DEFINE l == SubSeq(v, 1, n)
<1> DEFINE r == SubSeq(v, n + 1, Len(v))
<1>1. Len(v) \in Nat /\ n \in Nat /\ n <= Len(v)
  OBVIOUS
<1>2. /\ l \in Seq(S) /\ Len(l) = n
      /\ \A i \in 1..n : l[i] = v[i]
  <2>1. \A i \in 1..n : v[i] \in S
    BY <1>1, ElementOfSeq
  <2>2. /\ l \in Seq(S) /\ Len(l) = IF 1 <= n THEN n - 1 + 1 ELSE 0
        /\ \A i \in 1..(n - 1 + 1) : l[i] = v[1 + i - 1]
    BY <1>1, <2>1, SubSeqProperties
  <2> HIDE DEF l
  <2> QED
    BY <1>1, <2>2
<1>3. /\ r \in Seq(S) /\ Len(r) = Len(v) - n
      /\ \A i \in 1..(Len(v) - n) : r[i] = v[n + i]
  <2>1. \A i \in (n + 1)..Len(v) : v[i] \in S
    BY <1>1, ElementOfSeq
  <2>2. /\ r \in Seq(S) /\ Len(r) = IF n + 1 <= Len(v) THEN Len(v) - (n + 1) + 1 ELSE 0
        /\ \A i \in 1..(Len(v) - (n + 1) + 1) : r[i] = v[n + 1 + i - 1]
    BY <1>1, <2>1, SubSeqProperties
  <2> HIDE DEF r
  <2>3. \A i \in 1..(Len(v) - n) : n + 1 + i - 1 = n + i /\ i \in 1..(Len(v) - (n + 1) + 1)
    BY <1>1
  <2> QED
    BY <1>1, <2>2, <2>3
<1> HIDE DEF l, r
<1> DEFINE m == l \o <<o>>
<1>4. /\ m \in Seq(S) /\ Len(m) = n + 1
      /\ \A i \in 1..(n + 1) : m[i] = IF i <= n THEN v[i] ELSE o
  <2>1. <<o>> \in Seq(S) /\ Len(<<o>>) = 1 /\ <<o>>[1] = o
    OBVIOUS
  <2>2. /\ m \in Seq(S) /\ Len(m) = n + 1
        /\ \A i \in 1..(n + 1) : m[i] = IF i <= n THEN l[i] ELSE <<o>>[i - n]
    BY <1>2, <2>1, ConcatProperties
  <2> HIDE DEF m
  <2>3. ASSUME NEW i \in 1..(n + 1), ~(i <= n) PROVE <<o>>[i - n] = o
    <3>1. i - n = 1
      BY <1>1, <2>3
    <3> QED
      BY <2>1, <3>1
  <2> QED
    BY <1>1, <1>2, <2>2, <2>3
<1> HIDE DEF m
<1>5. Inserted(v, o, n) = m \o r
  BY DEF Inserted, l, r, m
<1>6. /\ m \o r \in Seq(S) /\ Len(m \o r) = n + 1 + (Len(v) - n)
      /\ \A i \in 1..(n + 1 + (Len(v) - n)) :
           (m \o r)[i] = IF i <= n + 1 THEN m[i] ELSE r[i - (n + 1)]
  <2>1. m \in Seq(S) /\ r \in Seq(S) /\ Len(m) = n + 1 /\ Len(r) = Len(v) - n
    BY <1>3, <1>4
  <2>2. /\ m \o r \in Seq(S) /\ Len(m \o r) = Len(m) + Len(r)
        /\ \A i \in 1..(Len(m) + Len(r)) :
             (m \o r)[i] = IF i <= Len(m) THEN m[i] ELSE r[i - Len(m)]
    BY <2>1, ConcatProperties
  <2> QED
    BY <2>1, <2>2
<1>7. n + 1 + (Len(v) - n) = Len(v) + 1
  BY <1>1
<1>8. ASSUME NEW i \in 1..(Len(v) + 1)
      PROVE  (m \o r)[i] = IF i <= n THEN v[i] ELSE IF i = n + 1 THEN o ELSE v[i - 1]
  <2>1. CASE i <= n + 1
    <3>1. i \in 1..(n + 1)
      BY <1>1, <2>1
    <3>2. (m \o r)[i] = m[i]
      BY <1>6, <1>7, <2>1
    <3> QED
      BY <1>1, <1>4, <3>1, <3>2
  <2>2. CASE ~(i <= n + 1)
    <3>1. i - (n + 1) \in 1..(Len(v) - n) /\ n + (i - (n + 1)) = i - 1
      BY <1>1, <2>2
    <3>2. (m \o r)[i] = r[i - (n + 1)]
      BY <1>6, <1>7, <2>2
    <3>3. r[i - (n + 1)] = v[i - 1]
      BY <1>3, <3>1
    <3> QED
      BY <1>1, <2>2, <3>2, <3>3
  <2> QED
    BY <2>1, <2>2
<1> QED
  BY <1>5, <1>6, <1>7, <1>8

\* Where the sorts put the next observation.
Place(v, o) == Cardinality({i \in 1..Len(v) : ~Before(o, v[i])})
PlaceById(v, o) == Cardinality({i \in 1..Len(v) : ~(o.id < v[i].id)})

LEMMA SomePlace ==
  ASSUME NEW n \in Nat, NEW I \in SUBSET (1..n)
  PROVE  Cardinality(I) \in 0..n
<1>1. IsFiniteSet(1..n) /\ Cardinality(1..n) = n
  BY FirstNumbers
<1>2. IsFiniteSet(I) /\ Cardinality(I) <= n
  BY <1>1, FS_Subset
<1> QED
  BY <1>2, FS_CardinalityType

LEMMA PlaceFacts ==
  ASSUME NEW S, NEW v \in Seq(S), NEW o
  PROVE  Place(v, o) \in 0..Len(v) /\ PlaceById(v, o) \in 0..Len(v)
BY SomePlace DEF Place, PlaceById

\* The sort that makes the timeline puts one observation after the other in
\* its place.
LEMMA TimelineSteps ==
  ASSUME NEW S, NEW s \in Seq(S)
  PROVE  \E P : /\ P[0] = <<>>
                /\ \A i \in 1..Len(s) :
                     P[i] = Inserted(P[i - 1], s[i], Place(P[i - 1], s[i]))
                /\ Timeline(s) = P[Len(s)]
<1> DEFINE n == Len(s)
<1> DEFINE Step(t, o) == Inserted(t, o, Place(t, o))
<1> DEFINE F == [x \in Seq(S) \X (1..n) |-> Step(x[1], s[x[2]])]
<1> DEFINE Body(h) == [I \in SUBSET DOMAIN s |->
                         IF I = {} THEN <<>> ELSE Step(h[I \ {Max(I)}], s[Max(I)])]
<1> DEFINE Iter == CHOOSE h : h = Body(h)
<1>1. Timeline(s) = Iter[DOMAIN s]
  BY DEF Timeline, Sorted, FoldLeft, MapThenFoldSet, Inserted, Place
<1> HIDE DEF Step
<1>2. n \in Nat /\ DOMAIN s = 1..n /\ \A i \in 1..n : s[i] \in S
  BY LenProperties, ElementOfSeq
<1> HIDE DEF n
<1>3. \A t \in Seq(S) : \A i \in 1..n : F[<<t, i>>] = Step(t, s[i]) /\ F[<<t, i>>] \in Seq(S)
  <2>1. ASSUME NEW t \in Seq(S), NEW i \in 1..n PROVE Step(t, s[i]) \in Seq(S)
    BY <1>2, PlaceFacts, InsertFacts DEF Step
  <2> QED
    BY <2>1
<1> HIDE DEF F
<1>4. PICK g : IsFoldOf(g, F, <<>>, Seq(S), n)
  <2>1. IsStep(F, Seq(S), n) /\ <<>> \in Seq(S)
    BY <1>3 DEF IsStep
  <2> QED
    BY <1>2, <2>1, FoldExists
<1>5. \A I \in SUBSET (1..n) : I # {} => Max(I) \in 1..n
  BY <1>2, MaxFacts
<1>6. g = Body(g)
  <2>1. ASSUME NEW I \in SUBSET (1..n)
        PROVE  g[I] = IF I = {} THEN <<>> ELSE Step(g[I \ {Max(I)}], s[Max(I)])
    BY <1>3, <1>4, <1>5 DEF IsFoldOf
  <2> QED
    BY <1>2, <1>4, <2>1 DEF IsFoldOf
<1>7. Iter = Body(Iter)
  <2> HIDE DEF Body
  <2> QED
    BY <1>6
<1> HIDE DEF Iter
<1>8. Iter[{}] = <<>>
  BY <1>7
<1>9. ASSUME NEW i \in 1..n PROVE Iter[1..i] = Step(Iter[1..(i - 1)], s[i])
  <2>1. 1..i \in SUBSET (1..n) /\ 1..i # {} /\ Max(1..i) = i /\ (1..i) \ {i} = 1..(i - 1)
    BY <1>2, IntervalFacts
  <2> QED
    BY <1>2, <1>7, <2>1
<1> DEFINE P == [i \in 0..n |-> Iter[1..i]]
<1>10. P[0] = <<>> /\ P[n] = Iter[1..n] /\ \A i \in 1..n : P[i] = Step(P[i - 1], s[i])
  <2>1. 1..0 = {} /\ 0 \in 0..n /\ n \in 0..n /\ \A i \in 1..n : i \in 0..n /\ i - 1 \in 0..n
    BY <1>2
  <2> QED
    BY <1>8, <1>9, <2>1
<1> QED
  BY <1>1, <1>2, <1>10 DEF Step, n

\* The sort by id, and its steps.
ById(s) == Sorted(s, LAMBDA a, b : a.id < b.id)

LEMMA ByIdSteps ==
  ASSUME NEW S, NEW s \in Seq(S)
  PROVE  \E P : /\ P[0] = <<>>
                /\ \A i \in 1..Len(s) :
                     P[i] = Inserted(P[i - 1], s[i], PlaceById(P[i - 1], s[i]))
                /\ ById(s) = P[Len(s)]
<1> DEFINE n == Len(s)
<1> DEFINE Step(t, o) == Inserted(t, o, PlaceById(t, o))
<1> DEFINE F == [x \in Seq(S) \X (1..n) |-> Step(x[1], s[x[2]])]
<1> DEFINE Body(h) == [I \in SUBSET DOMAIN s |->
                         IF I = {} THEN <<>> ELSE Step(h[I \ {Max(I)}], s[Max(I)])]
<1> DEFINE Iter == CHOOSE h : h = Body(h)
<1>1. ById(s) = Iter[DOMAIN s]
  BY DEF ById, Sorted, FoldLeft, MapThenFoldSet, Inserted, PlaceById
<1> HIDE DEF Step
<1>2. n \in Nat /\ DOMAIN s = 1..n /\ \A i \in 1..n : s[i] \in S
  BY LenProperties, ElementOfSeq
<1> HIDE DEF n
<1>3. \A t \in Seq(S) : \A i \in 1..n : F[<<t, i>>] = Step(t, s[i]) /\ F[<<t, i>>] \in Seq(S)
  <2>1. ASSUME NEW t \in Seq(S), NEW i \in 1..n PROVE Step(t, s[i]) \in Seq(S)
    BY <1>2, PlaceFacts, InsertFacts DEF Step
  <2> QED
    BY <2>1
<1> HIDE DEF F
<1>4. PICK g : IsFoldOf(g, F, <<>>, Seq(S), n)
  <2>1. IsStep(F, Seq(S), n) /\ <<>> \in Seq(S)
    BY <1>3 DEF IsStep
  <2> QED
    BY <1>2, <2>1, FoldExists
<1>5. \A I \in SUBSET (1..n) : I # {} => Max(I) \in 1..n
  BY <1>2, MaxFacts
<1>6. g = Body(g)
  <2>1. ASSUME NEW I \in SUBSET (1..n)
        PROVE  g[I] = IF I = {} THEN <<>> ELSE Step(g[I \ {Max(I)}], s[Max(I)])
    BY <1>3, <1>4, <1>5 DEF IsFoldOf
  <2> QED
    BY <1>2, <1>4, <2>1 DEF IsFoldOf
<1>7. Iter = Body(Iter)
  <2> HIDE DEF Body
  <2> QED
    BY <1>6
<1> HIDE DEF Iter
<1>8. Iter[{}] = <<>>
  BY <1>7
<1>9. ASSUME NEW i \in 1..n PROVE Iter[1..i] = Step(Iter[1..(i - 1)], s[i])
  <2>1. 1..i \in SUBSET (1..n) /\ 1..i # {} /\ Max(1..i) = i /\ (1..i) \ {i} = 1..(i - 1)
    BY <1>2, IntervalFacts
  <2> QED
    BY <1>2, <1>7, <2>1
<1> DEFINE P == [i \in 0..n |-> Iter[1..i]]
<1>10. P[0] = <<>> /\ P[n] = Iter[1..n] /\ \A i \in 1..n : P[i] = Step(P[i - 1], s[i])
  <2>1. 1..0 = {} /\ 0 \in 0..n /\ n \in 0..n /\ \A i \in 1..n : i \in 0..n /\ i - 1 \in 0..n
    BY <1>2
  <2> QED
    BY <1>8, <1>9, <2>1
<1> QED
  BY <1>1, <1>2, <1>10 DEF Step, n

\* p takes each of 1..k to another one.
Shuffles(p, k) ==
  /\ p \in [1..k -> 1..k]
  /\ \A i, j \in 1..k : p[i] = p[j] => i = j
  /\ \A j \in 1..k : \E i \in 1..k : p[i] = j

\* v has the first k elements of s in another order.
IsPermutation(v, s, k) ==
  /\ Len(v) = k
  /\ \E p : Shuffles(p, k) /\ \A i \in 1..k : v[i] = s[p[i]]

\* Wherever the next element is put.
LEMMA InsertPermutes ==
  ASSUME NEW S, NEW s \in Seq(S), NEW k \in 1..Len(s), NEW v \in Seq(S), NEW n \in 0..Len(v),
         IsPermutation(v, s, k - 1)
  PROVE  IsPermutation(Inserted(v, s[k], n), s, k)
<1> DEFINE w == Inserted(v, s[k], n)
<1>1. PICK p : Shuffles(p, k - 1) /\ \A i \in 1..(k - 1) : v[i] = s[p[i]]
  BY DEF IsPermutation
<1>2. k \in Nat /\ k # 0 /\ Len(v) = k - 1 /\ n \in 0..(k - 1) /\ s[k] \in S
  BY ElementOfSeq DEF IsPermutation
<1>3. /\ Len(w) = k
      /\ \A i \in 1..k : w[i] = IF i <= n THEN v[i] ELSE IF i = n + 1 THEN s[k] ELSE v[i - 1]
  <2>1. Len(v) + 1 = k
    BY <1>2
  <2>2. /\ Len(w) = Len(v) + 1
        /\ \A i \in 1..(Len(v) + 1) :
             w[i] = IF i <= n THEN v[i] ELSE IF i = n + 1 THEN s[k] ELSE v[i - 1]
    <3>1. PICK o \in S : o = s[k]
      BY <1>2
    <3>2. /\ Len(Inserted(v, o, n)) = Len(v) + 1
          /\ \A i \in 1..(Len(v) + 1) : Inserted(v, o, n)[i] =
               IF i <= n THEN v[i] ELSE IF i = n + 1 THEN o ELSE v[i - 1]
      BY InsertFacts
    <3> QED
      BY <3>1, <3>2
  <2> HIDE DEF w
  <2> QED
    BY <2>1, <2>2
<1> HIDE DEF w
<1> DEFINE q == [i \in 1..k |-> IF i <= n THEN p[i] ELSE IF i = n + 1 THEN k ELSE p[i - 1]]
<1>4. /\ \A i \in 1..(k - 1) : p[i] \in 1..(k - 1)
      /\ \A i, j \in 1..(k - 1) : p[i] = p[j] => i = j
      /\ \A j \in 1..(k - 1) : \E i \in 1..(k - 1) : p[i] = j
  BY <1>1 DEF Shuffles
<1>5. \A i \in 1..k : /\ i <= n => i \in 1..(k - 1) /\ q[i] = p[i]
                      /\ i = n + 1 => q[i] = k
                      /\ i > n + 1 => i - 1 \in 1..(k - 1) /\ q[i] = p[i - 1]
  BY <1>2
<1>6. \A i \in 1..k : i <= n \/ i = n + 1 \/ i > n + 1
  BY <1>2
<1>7. \A i \in 1..(k - 1) : p[i] \in 1..k /\ p[i] # k
  <2>1. ASSUME NEW i \in 1..(k - 1) PROVE p[i] \in 1..k /\ p[i] # k
    <3>1. p[i] \in 1..(k - 1)
      BY <1>4
    <3> QED
      BY <1>2, <3>1
  <2> QED
    BY <2>1
<1>8. q \in [1..k -> 1..k]
  <2>1. k \in 1..k
    BY <1>2
  <2>2. ASSUME NEW i \in 1..k
        PROVE  (IF i <= n THEN p[i] ELSE IF i = n + 1 THEN k ELSE p[i - 1]) \in 1..k
    <3> HIDE DEF q
    <3>1. /\ i <= n => i \in 1..(k - 1)
          /\ i > n + 1 => i - 1 \in 1..(k - 1)
      BY <1>5
    <3> QED
      BY <1>6, <1>7, <2>1, <3>1
  <2> QED
    BY <2>2
<1> HIDE DEF q
<1>9. ASSUME NEW i \in 1..k, NEW j \in 1..k, q[i] = q[j] PROVE i = j
  <2>2. i = n + 1 <=> j = n + 1
    BY <1>5, <1>6, <1>7, <1>9
  <2>3. CASE i = n + 1
    BY <2>2, <2>3
  <2>4. CASE i <= n /\ j <= n
    BY <1>4, <1>5, <1>9, <2>4
  <2>5. CASE i > n + 1 /\ j > n + 1
    <3>1. i - 1 = j - 1
      BY <1>4, <1>5, <1>9, <2>5
    <3> QED
      BY <3>1
  <2>6. CASE i <= n /\ j > n + 1
    <3>1. i = j - 1
      BY <1>4, <1>5, <1>9, <2>6
    <3> QED
      BY <1>2, <2>6, <3>1
  <2>7. CASE i > n + 1 /\ j <= n
    <3>1. i - 1 = j
      BY <1>4, <1>5, <1>9, <2>7
    <3> QED
      BY <1>2, <2>7, <3>1
  <2> QED
    BY <1>6, <2>2, <2>3, <2>4, <2>5, <2>6, <2>7
<1>10. ASSUME NEW j \in 1..k PROVE \E i \in 1..k : q[i] = j
  <2>1. CASE j = k
    <3>1. n + 1 \in 1..k
      BY <1>2
    <3> QED
      BY <1>5, <2>1, <3>1
  <2>2. CASE j # k
    <3>1. j \in 1..(k - 1)
      BY <1>2, <2>2
    <3>2. PICK h \in 1..(k - 1) : p[h] = j
      BY <1>4, <3>1
    <3>3. CASE h <= n
      <4>1. h \in 1..k
        BY <1>2
      <4> QED
        BY <1>5, <3>2, <3>3, <4>1
    <3>4. CASE h > n
      <4>1. h + 1 \in 1..k /\ h + 1 > n + 1 /\ (h + 1) - 1 = h
        BY <1>2, <3>4
      <4>2. q[h + 1] = p[(h + 1) - 1]
        BY <1>5, <4>1
      <4> QED
        BY <3>2, <4>1, <4>2
    <3> QED
      BY <1>2, <3>3, <3>4
  <2> QED
    BY <2>1, <2>2
<1>11. \A i \in 1..k : w[i] = s[q[i]]
  BY <1>1, <1>2, <1>3, <1>5, <1>6, SMTT(60)
<1>12. Shuffles(q, k)
  BY <1>8, <1>9, <1>10 DEF Shuffles
<1> QED
  BY <1>3, <1>11, <1>12 DEF IsPermutation, w

\* What is true of all elements of a sequence is true of its permutations.
LEMMA PermutationFacts ==
  ASSUME NEW S, NEW s \in Seq(S), NEW v \in Seq(S), IsPermutation(v, s, Len(s))
  PROVE  /\ Len(v) = Len(s)
         /\ ToSet(v) = ToSet(s)
         /\ (\A i, j \in 1..Len(s) : s[i] = s[j] => i = j)
            => \A i, j \in 1..Len(v) : v[i] = v[j] => i = j
<1>1. PICK p : Shuffles(p, Len(s)) /\ \A i \in 1..Len(s) : v[i] = s[p[i]]
  BY DEF IsPermutation
<1>2. Len(v) = Len(s)
  BY DEF IsPermutation
<1>3. /\ \A i \in 1..Len(s) : p[i] \in 1..Len(s)
      /\ \A i, j \in 1..Len(s) : p[i] = p[j] => i = j
      /\ \A j \in 1..Len(s) : \E i \in 1..Len(s) : p[i] = j
  BY <1>1 DEF Shuffles
<1>4. DOMAIN v = 1..Len(s) /\ DOMAIN s = 1..Len(s)
  BY <1>2, LenProperties
<1>5. ToSet(v) = ToSet(s)
  <2>1. ToSet(v) = {v[i] : i \in 1..Len(s)} /\ ToSet(s) = {s[i] : i \in 1..Len(s)}
    BY <1>4 DEF ToSet
  <2>2. ASSUME NEW i \in 1..Len(s) PROVE v[i] \in ToSet(s)
    <3>1. v[i] = s[p[i]] /\ p[i] \in 1..Len(s)
      BY <1>1, <1>3
    <3> QED
      BY <2>1, <3>1
  <2>3. ASSUME NEW j \in 1..Len(s) PROVE s[j] \in ToSet(v)
    <3>1. PICK i \in 1..Len(s) : p[i] = j
      BY <1>3
    <3> QED
      BY <1>1, <2>1, <3>1
  <2>4. ToSet(v) \subseteq ToSet(s)
    BY <2>1, <2>2
  <2>5. ToSet(s) \subseteq ToSet(v)
    BY <2>1, <2>3
  <2> QED
    BY <2>4, <2>5
<1>6. ASSUME \A i, j \in 1..Len(s) : s[i] = s[j] => i = j,
             NEW i \in 1..Len(s), NEW j \in 1..Len(s), v[i] = v[j]
      PROVE  i = j
  <2>1. s[p[i]] = s[p[j]]
    BY <1>1, <1>6
  <2>2. p[i] = p[j]
    <3>1. p[i] \in 1..Len(s) /\ p[j] \in 1..Len(s)
      BY <1>3
    <3> QED
      BY <1>6, <2>1, <3>1
  <2> QED
    BY <1>3, <2>2
<1> QED
  BY <1>2, <1>5, <1>6

\* A set of positions that holds every one before its own is an initial part.
LEMMA InitialPart ==
  ASSUME NEW n \in Nat, NEW I \in SUBSET (1..n),
         \A i \in I : \A j \in 1..n : j < i => j \in I
  PROVE  I = 1..Cardinality(I)
<1> DEFINE U == {k \in Nat : k # 0 /\ k \notin I}
<1>1. n + 1 \in U
  OBVIOUS
<1>2. PICK k \in U : \A u \in U : k <= u
  BY <1>1, LeastExists
<1>3. k - 1 \in Nat /\ k <= n + 1
  BY <1>1, <1>2
<1>4. ASSUME NEW i \in 1..(k - 1) PROVE i \in I
  <2>1. i \in Nat /\ i # 0 /\ ~(k <= i)
    BY <1>3
  <2> QED
    BY <1>2, <2>1
<1>5. ASSUME NEW i \in I PROVE i \in 1..(k - 1)
  <2>1. i \in 1..n /\ k \notin I /\ k # 0 /\ k \in Nat
    BY <1>2
  <2>2. ~(k < i)
    <3>1. k < i => k \in 1..n
      BY <2>1
    <3> QED
      BY <2>1, <3>1
  <2> QED
    BY <2>1, <2>2
<1>6. I = 1..(k - 1)
  BY <1>4, <1>5
<1>7. Cardinality(1..(k - 1)) = k - 1
  BY <1>3, FS_Interval
<1> QED
  BY <1>6, <1>7

LEMMA EmptyPermutation ==
  ASSUME NEW S, NEW s
  PROVE  <<>> \in Seq(S) /\ IsPermutation(<<>>, s, 0)
<1> DEFINE p == [i \in 1..0 |-> 1]
<1>1. 1..0 = {}
  OBVIOUS
<1>2. p \in [1..0 -> 1..0]
  BY <1>1
<1> HIDE DEF p
<1>3. Shuffles(p, 0)
  BY <1>1, <1>2 DEF Shuffles
<1>4. Len(<<>>) = 0 /\ <<>> \in Seq(S)
  OBVIOUS
<1> QED
  BY <1>1, <1>3, <1>4 DEF IsPermutation

\* One step of a sort.
LEMMA InsertStep ==
  ASSUME NEW S, NEW s \in Seq(S), NEW i \in Nat, i + 1 <= Len(s), NEW v \in Seq(S),
         IsPermutation(v, s, i), NEW n \in 0..Len(v)
  PROVE  /\ Inserted(v, s[i + 1], n) \in Seq(S)
         /\ IsPermutation(Inserted(v, s[i + 1], n), s, i + 1)
<1>1. i + 1 \in 1..Len(s) /\ (i + 1) - 1 = i
  OBVIOUS
<1>2. PICK o \in S : o = s[i + 1]
  BY <1>1, ElementOfSeq
<1>3. Inserted(v, o, n) \in Seq(S)
  BY InsertFacts
<1>4. PICK k \in 1..Len(s) : k = i + 1
  BY <1>1
<1>5. IsPermutation(v, s, k - 1)
  BY <1>1, <1>4
<1>6. IsPermutation(Inserted(v, s[k], n), s, k)
  BY <1>5, InsertPermutes
<1> QED
  BY <1>2, <1>3, <1>4, <1>6

-----------------------------------------------------------------------------
(* The order of the timeline *)

\* Evidence as the coordinator holds it: one observation per id, with times.
Comparable(S) ==
  /\ \A o \in S : o.id \in Nat /\ o.seq \in Nat /\ Ts(o) \in Nat
  /\ \A a, b \in S : a.id = b.id => a = b

\* The comparator is a strict total order of evidence.
LEMMA BeforeFacts ==
  ASSUME NEW S, Comparable(S)
  PROVE  /\ \A a \in S : ~Before(a, a)
         /\ \A a, b \in S : a = b \/ Before(a, b) \/ Before(b, a)
         /\ \A a, b, c \in S : Before(a, b) /\ Before(b, c) => Before(a, c)
<1> HIDE DEF Ts
<1> DEFINE R(o) == InRecvDomain(o)
<1> HIDE DEF R
<1>1. \A o \in S : o.id \in Nat /\ o.seq \in Nat /\ Ts(o) \in Nat
  BY DEF Comparable
<1>2. \A a, b \in S : Before(a, b) <=>
        \/ Ts(a) < Ts(b)
        \/ Ts(a) = Ts(b) /\ R(a) /\ ~R(b)
        \/ Ts(a) = Ts(b) /\ (R(a) <=> R(b)) /\ a.seq < b.seq
        \/ Ts(a) = Ts(b) /\ (R(a) <=> R(b)) /\ a.seq = b.seq /\ a.id < b.id
  BY <1>1 DEF Before, R, InRecvDomain
<1>3. \A a \in S : ~Before(a, a)
  BY <1>1, <1>2
<1>4. ASSUME NEW a \in S, NEW b \in S, a # b PROVE Before(a, b) \/ Before(b, a)
  <2>1. a.id # b.id
    BY <1>4 DEF Comparable
  <2> QED
    BY <1>1, <1>2, <2>1
<1>5. ASSUME NEW a \in S, NEW b \in S, NEW c \in S, Before(a, b), Before(b, c)
      PROVE  Before(a, c)
  BY <1>1, <1>2, <1>5
<1> QED
  BY <1>3, <1>4, <1>5

Ordered(v) == \A i, j \in 1..Len(v) : i < j => Before(v[i], v[j])

LEMMA InsertOrdered ==
  ASSUME NEW S, Comparable(S), NEW v \in Seq(S), Ordered(v), NEW o \in S,
         \A i \in 1..Len(v) : v[i] # o
  PROVE  Ordered(Inserted(v, o, Place(v, o)))
<1> DEFINE n == Place(v, o)
<1> DEFINE w == Inserted(v, o, n)
<1> DEFINE I == {i \in 1..Len(v) : ~Before(o, v[i])}
<1>1. Len(v) \in Nat /\ \A i \in 1..Len(v) : v[i] \in S
  BY ElementOfSeq
<1>2. \A i \in I : Before(v[i], o)
  <2>1. ASSUME NEW i \in I PROVE Before(v[i], o)
    <3>1. v[i] \in S /\ v[i] # o /\ ~Before(o, v[i])
      BY <1>1
    <3> QED
      BY <3>1, BeforeFacts
  <2> QED
    BY <2>1
<1>3. ASSUME NEW i \in I, NEW j \in 1..Len(v), j < i PROVE j \in I
  <2>1. i \in 1..Len(v) /\ v[i] \in S /\ v[j] \in S
    BY <1>1
  <2>2. Before(v[j], v[i]) /\ Before(v[i], o)
    BY <1>2, <1>3, <2>1 DEF Ordered
  <2>3. Before(v[j], o)
    BY <2>1, <2>2, BeforeFacts
  <2>4. ~Before(o, v[j])
    BY <2>1, <2>3, BeforeFacts
  <2> QED
    BY <2>4
<1>4. I = 1..n
  <2>1. n = Cardinality(I)
    BY DEF Place
  <2>2. I \in SUBSET (1..Len(v)) /\ \A i \in I : \A j \in 1..Len(v) : j < i => j \in I
    BY <1>3
  <2> HIDE DEF I, n
  <2> QED
    BY <1>1, <2>1, <2>2, InitialPart
<1>5. n \in 0..Len(v)
  BY PlaceFacts
<1>6. \A i \in 1..n : i \in 1..Len(v) /\ Before(v[i], o)
  BY <1>2, <1>4
<1>7. \A i \in 1..Len(v) : i > n => Before(o, v[i])
  <2>1. ASSUME NEW i \in 1..Len(v), i > n PROVE Before(o, v[i])
    <3>1. i \notin 1..n
      BY <1>5, <2>1
    <3>2. i \notin I
      BY <1>4, <3>1
    <3> QED
      BY <3>2
  <2> QED
    BY <2>1
<1> HIDE DEF n, I
<1>8. /\ Len(w) = Len(v) + 1
      /\ \A i \in 1..(Len(v) + 1) :
           w[i] = IF i <= n THEN v[i] ELSE IF i = n + 1 THEN o ELSE v[i - 1]
  BY <1>5, InsertFacts
<1> HIDE DEF w
<1>9. \A i \in 1..(Len(v) + 1) : /\ i <= n => i \in 1..n /\ w[i] = v[i]
                                 /\ i = n + 1 => w[i] = o
                                 /\ i > n + 1 => i - 1 \in 1..Len(v) /\ i - 1 > n /\ w[i] = v[i - 1]
  BY <1>1, <1>5, <1>8
<1>10. \A i \in 1..(Len(v) + 1) : i <= n \/ i = n + 1 \/ i > n + 1
  BY <1>1, <1>5
<1>11. ASSUME NEW i \in 1..(Len(v) + 1), NEW j \in 1..(Len(v) + 1), i < j
       PROVE  Before(w[i], w[j])
  <2>1. CASE i <= n /\ j <= n
    <3>1. i \in 1..Len(v) /\ j \in 1..Len(v) /\ w[i] = v[i] /\ w[j] = v[j]
      BY <1>6, <1>9, <2>1
    <3> QED
      BY <1>11, <3>1 DEF Ordered
  <2>2. CASE i <= n /\ j = n + 1
    BY <1>6, <1>9, <2>2
  <2>3. CASE i <= n /\ j > n + 1
    <3>1. i \in 1..Len(v) /\ j - 1 \in 1..Len(v) /\ w[i] = v[i] /\ w[j] = v[j - 1]
      BY <1>6, <1>9, <2>3
    <3>2. i < j - 1
      BY <1>5, <2>3
    <3> QED
      BY <3>1, <3>2 DEF Ordered
  <2>4. CASE i = n + 1 /\ j > n + 1
    BY <1>7, <1>9, <2>4
  <2>5. CASE i > n + 1 /\ j > n + 1
    <3>1. i - 1 \in 1..Len(v) /\ j - 1 \in 1..Len(v) /\ w[i] = v[i - 1] /\ w[j] = v[j - 1]
      BY <1>9, <2>5
    <3>2. i - 1 < j - 1
      BY <1>11
    <3> QED
      BY <3>1, <3>2 DEF Ordered
  <2>6. ~(i = n + 1 /\ j <= n) /\ ~(i > n + 1 /\ j <= n + 1) /\ ~(i = n + 1 /\ j = n + 1)
    BY <1>5, <1>11
  <2> QED
    BY <1>5, <1>10, <2>1, <2>2, <2>3, <2>4, <2>5, <2>6
<1> QED
  BY <1>8, <1>11 DEF Ordered, w, n

-----------------------------------------------------------------------------
(* What the sorts return *)

LEMMA TimelinePermutes ==
  ASSUME NEW S, NEW s \in Seq(S)
  PROVE  Timeline(s) \in Seq(S) /\ IsPermutation(Timeline(s), s, Len(s))
<1>1. PICK P : /\ P[0] = <<>>
               /\ \A i \in 1..Len(s) :
                    P[i] = Inserted(P[i - 1], s[i], Place(P[i - 1], s[i]))
               /\ Timeline(s) = P[Len(s)]
  BY TimelineSteps
<1> DEFINE T == {i \in Nat : i <= Len(s) => P[i] \in Seq(S) /\ IsPermutation(P[i], s, i)}
<1>2. 0 \in T
  <2>1. <<>> \in Seq(S) /\ IsPermutation(<<>>, s, 0)
    BY EmptyPermutation
  <2> QED
    BY <1>1, <2>1
<1>3. ASSUME NEW i \in Nat, i \in T PROVE i + 1 \in T
  <2>1. ASSUME i + 1 <= Len(s)
        PROVE  P[i + 1] \in Seq(S) /\ IsPermutation(P[i + 1], s, i + 1)
    <3>1. i + 1 \in 1..Len(s) /\ (i + 1) - 1 = i /\ i <= Len(s)
      BY <2>1
    <3>2. P[i] \in Seq(S) /\ IsPermutation(P[i], s, i)
      BY <1>3, <3>1
    <3>3. P[i + 1] = Inserted(P[i], s[i + 1], Place(P[i], s[i + 1]))
      BY <1>1, <3>1
    <3>4. Place(P[i], s[i + 1]) \in 0..Len(P[i])
      BY <3>2, PlaceFacts
    <3> QED
      BY <3>1, <3>2, <3>3, <3>4, InsertStep
  <2> QED
    BY <2>1
<1>4. Nat \subseteq T
  <2> HIDE DEF T
  <2> QED
    BY <1>2, <1>3, SetInduction
<1>5. Len(s) \in T
  BY <1>4
<1> QED
  BY <1>1, <1>5

LEMMA ByIdPermutes ==
  ASSUME NEW S, NEW s \in Seq(S)
  PROVE  ById(s) \in Seq(S) /\ IsPermutation(ById(s), s, Len(s))
<1>1. PICK P : /\ P[0] = <<>>
               /\ \A i \in 1..Len(s) :
                    P[i] = Inserted(P[i - 1], s[i], PlaceById(P[i - 1], s[i]))
               /\ ById(s) = P[Len(s)]
  BY ByIdSteps
<1> DEFINE T == {i \in Nat : i <= Len(s) => P[i] \in Seq(S) /\ IsPermutation(P[i], s, i)}
<1>2. 0 \in T
  <2>1. <<>> \in Seq(S) /\ IsPermutation(<<>>, s, 0)
    BY EmptyPermutation
  <2> QED
    BY <1>1, <2>1
<1>3. ASSUME NEW i \in Nat, i \in T PROVE i + 1 \in T
  <2>1. ASSUME i + 1 <= Len(s)
        PROVE  P[i + 1] \in Seq(S) /\ IsPermutation(P[i + 1], s, i + 1)
    <3>1. i + 1 \in 1..Len(s) /\ (i + 1) - 1 = i /\ i <= Len(s)
      BY <2>1
    <3>2. P[i] \in Seq(S) /\ IsPermutation(P[i], s, i)
      BY <1>3, <3>1
    <3>3. P[i + 1] = Inserted(P[i], s[i + 1], PlaceById(P[i], s[i + 1]))
      BY <1>1, <3>1
    <3>4. PlaceById(P[i], s[i + 1]) \in 0..Len(P[i])
      BY <3>2, PlaceFacts
    <3> QED
      BY <3>1, <3>2, <3>3, <3>4, InsertStep
  <2> QED
    BY <2>1
<1>4. Nat \subseteq T
  <2> HIDE DEF T
  <2> QED
    BY <1>2, <1>3, SetInduction
<1>5. Len(s) \in T
  BY <1>4
<1> QED
  BY <1>1, <1>5

Distinguished(s) == \A i, j \in 1..Len(s) : s[i] = s[j] => i = j

\* The timeline of evidence without repetitions is in strict order.
LEMMA TimelineOrdered ==
  ASSUME NEW S, Comparable(S), NEW s \in Seq(S), Distinguished(s)
  PROVE  Ordered(Timeline(s))
<1>1. PICK P : /\ P[0] = <<>>
               /\ \A i \in 1..Len(s) :
                    P[i] = Inserted(P[i - 1], s[i], Place(P[i - 1], s[i]))
               /\ Timeline(s) = P[Len(s)]
  BY TimelineSteps
<1> DEFINE Good(i) == P[i] \in Seq(S) /\ IsPermutation(P[i], s, i) /\ Ordered(P[i])
<1> DEFINE T == {i \in Nat : i <= Len(s) => Good(i)}
<1>2. 0 \in T
  <2>1. <<>> \in Seq(S) /\ IsPermutation(<<>>, s, 0)
    BY EmptyPermutation
  <2>2. Ordered(<<>>)
    BY DEF Ordered
  <2> QED
    BY <1>1, <2>1, <2>2
<1>3. ASSUME NEW i \in Nat, i \in T PROVE i + 1 \in T
  <2>1. ASSUME i + 1 <= Len(s) PROVE Good(i + 1)
    <3>1. i + 1 \in 1..Len(s) /\ (i + 1) - 1 = i /\ i <= Len(s)
      BY <2>1
    <3>2. P[i] \in Seq(S) /\ IsPermutation(P[i], s, i) /\ Ordered(P[i])
      BY <1>3, <3>1
    <3>3. P[i + 1] = Inserted(P[i], s[i + 1], Place(P[i], s[i + 1]))
      BY <1>1, <3>1
    <3>4. Place(P[i], s[i + 1]) \in 0..Len(P[i])
      BY <3>2, PlaceFacts
    <3>5. P[i + 1] \in Seq(S) /\ IsPermutation(P[i + 1], s, i + 1)
      BY <3>1, <3>2, <3>3, <3>4, InsertStep
    <3>6. s[i + 1] \in S
      BY <3>1, ElementOfSeq
    <3>7. ASSUME NEW j \in 1..Len(P[i]) PROVE P[i][j] # s[i + 1]
      <4>1. PICK p : Shuffles(p, i) /\ \A h \in 1..i : P[i][h] = s[p[h]]
        BY <3>2 DEF IsPermutation
      <4>2. j \in 1..i
        BY <3>2 DEF IsPermutation
      <4>3. p[j] \in 1..i /\ P[i][j] = s[p[j]]
        BY <4>1, <4>2 DEF Shuffles
      <4>4. p[j] \in 1..Len(s) /\ p[j] # i + 1
        BY <3>1, <4>3
      <4> QED
        BY <3>1, <4>3, <4>4 DEF Distinguished
    <3>8. Ordered(Inserted(P[i], s[i + 1], Place(P[i], s[i + 1])))
      BY <3>2, <3>6, <3>7, InsertOrdered
    <3> QED
      BY <3>3, <3>5, <3>8
  <2> QED
    BY <2>1
<1>4. Nat \subseteq T
  <2> HIDE DEF T
  <2> QED
    BY <1>2, <1>3, SetInduction
<1>5. Len(s) \in T
  BY <1>4
<1> QED
  BY <1>1, <1>5

\* A prefix of v is a prefix of w.
LEMMA SamePrefix ==
  ASSUME NEW S, Comparable(S), NEW v \in Seq(S), NEW w \in Seq(S),
         ToSet(v) = ToSet(w), Ordered(v), Ordered(w)
  PROVE  \A i \in 1..Len(v) : i \in 1..Len(w) /\ w[i] = v[i]
<1> DEFINE Agrees(i) == i \in 1..Len(v) => i \in 1..Len(w) /\ w[i] = v[i]
<1> DEFINE Fails == {i \in Nat : ~Agrees(i)}
<1> SUFFICES ASSUME Fails # {} PROVE FALSE
  OBVIOUS
<1>1. PICK i \in Fails : \A j \in Fails : i <= j
  BY LeastExists
<1>2. \A j \in Nat : j < i => Agrees(j)
  BY <1>1
<1>3. i \in 1..Len(v) /\ ~(i \in 1..Len(w) /\ w[i] = v[i])
  BY <1>1
<1>4. /\ \A j \in 1..Len(v) : v[j] \in S /\ \E m \in 1..Len(w) : w[m] = v[j]
      /\ \A m \in 1..Len(w) : w[m] \in S /\ \E j \in 1..Len(v) : v[j] = w[m]
  <2>1. DOMAIN v = 1..Len(v) /\ DOMAIN w = 1..Len(w)
    BY LenProperties
  <2>2. {v[j] : j \in 1..Len(v)} = {w[m] : m \in 1..Len(w)}
    BY <2>1 DEF ToSet
  <2> QED
    BY <2>2, ElementOfSeq
<1>5. \A j, m \in 1..Len(v) : j < m => v[j] # v[m]
  BY <1>4, BeforeFacts DEF Ordered
<1>6. \A j, m \in 1..Len(w) : j < m => w[j] # w[m]
  BY <1>4, BeforeFacts DEF Ordered
<1> HIDE DEF Fails
<1>7. PICK m \in 1..Len(w) : w[m] = v[i]
  BY <1>3, <1>4
<1>8. m > i
  <2>1. ~(m < i)
    <3>1. SUFFICES ASSUME m < i PROVE FALSE
      OBVIOUS
    <3>2. m \in 1..Len(v) /\ w[m] = v[m]
      BY <1>2, <1>3, <3>1
    <3> QED
      BY <1>3, <1>5, <1>7, <3>1, <3>2
  <2>2. m # i
    BY <1>3, <1>7
  <2> QED
    BY <1>3, <2>1, <2>2
<1>9. i \in 1..Len(w)
  BY <1>3, <1>8
<1>10. PICK l \in 1..Len(v) : v[l] = w[i]
  BY <1>4, <1>9
<1>11. l > i
  <2>1. ~(l < i)
    <3>1. SUFFICES ASSUME l < i PROVE FALSE
      OBVIOUS
    <3>2. l \in 1..Len(w) /\ w[l] = v[l]
      BY <1>2, <3>1
    <3> QED
      BY <1>6, <1>9, <1>10, <3>1, <3>2
  <2>2. l # i
    BY <1>3, <1>9, <1>10
  <2> QED
    BY <1>3, <2>1, <2>2
<1>12. Before(v[i], v[l]) /\ Before(w[i], w[m])
  BY <1>3, <1>8, <1>9, <1>11 DEF Ordered
<1>13. Before(v[i], w[i]) /\ Before(w[i], v[i]) /\ v[i] \in S /\ w[i] \in S
  BY <1>3, <1>4, <1>7, <1>9, <1>10, <1>12
<1> QED
  BY <1>13, BeforeFacts

\* There is one ordered sequence of the same observations only.
LEMMA OrderedUnique ==
  ASSUME NEW S, Comparable(S), NEW v \in Seq(S), NEW w \in Seq(S),
         ToSet(v) = ToSet(w), Ordered(v), Ordered(w)
  PROVE  v = w
<1>1. \A i \in 1..Len(v) : i \in 1..Len(w) /\ w[i] = v[i]
  BY SamePrefix
<1>2. \A i \in 1..Len(w) : i \in 1..Len(v) /\ v[i] = w[i]
  BY SamePrefix
<1>3. Len(v) = Len(w)
  <2>1. Len(v) \in Nat /\ Len(w) \in Nat
    OBVIOUS
  <2>2. Len(v) # 0 => Len(v) \in 1..Len(w)
    BY <1>1, <2>1
  <2>3. Len(w) # 0 => Len(w) \in 1..Len(v)
    BY <1>2, <2>1
  <2> QED
    BY <2>1, <2>2, <2>3
<1> QED
  BY <1>1, <1>3, SeqEqual

-----------------------------------------------------------------------------
(* Evidence that arrives in any order *)

TraceInv ==
  /\ pool \in Pools
  /\ arrived \in Seq(pool)
  /\ Distinguished(arrived)

LEMMA PoolComparable ==
  ASSUME NEW S \in Pools
  PROVE  Comparable(S)
<1>1. ASSUME NEW o \in S PROVE o.id \in Nat /\ o.seq \in Nat /\ Ts(o) \in Nat
  <2>1. o.recv_ts \in Nat \cup {None} /\ o.obs_ts \in Nat \cup {None}
    BY PoolAssumption
  <2>2. o.id \in Nat /\ o.seq \in Nat
    BY PoolAssumption
  <2> QED
    BY <2>1, <2>2 DEF Ts
<1>2. \A a, b \in S : a.id = b.id => a = b
  BY PoolAssumption
<1> QED
  BY <1>1, <1>2 DEF Comparable

LEMMA TraceInvariant == TailSpec => []TraceInv
<1>1. TailInit => TraceInv
  BY DEF TailInit, TraceInit, TraceInv, Distinguished
<1>2. ASSUME TraceInv, [TailNext]_tailvars PROVE TraceInv'
  <2>1. CASE TailNext
    <3>1. PICK o \in pool : Arrive(o)
      BY <2>1 DEF TailNext, TraceNext
    <3>2. o \notin ToSet(arrived) /\ arrived' = Append(arrived, o) /\ pool' = pool
      BY <3>1 DEF Arrive
    <3>3. arrived \in Seq(pool) /\ Len(arrived) \in Nat
      BY <1>2 DEF TraceInv
    <3>4. \A i \in 1..Len(arrived) : arrived[i] # o
      <4>1. DOMAIN arrived = 1..Len(arrived)
        BY <3>3, LenProperties
      <4> QED
        BY <3>2, <4>1 DEF ToSet
    <3>5. /\ arrived' \in Seq(pool) /\ Len(arrived') = Len(arrived) + 1
          /\ \A i \in 1..Len(arrived) : arrived'[i] = arrived[i]
          /\ arrived'[Len(arrived) + 1] = o
      BY <3>2, <3>3
    <3>6. ASSUME NEW i \in 1..(Len(arrived) + 1), NEW j \in 1..(Len(arrived) + 1),
                 arrived'[i] = arrived'[j]
          PROVE  i = j
      <4>1. \A h \in 1..(Len(arrived) + 1) : h \in 1..Len(arrived) \/ h = Len(arrived) + 1
        BY <3>3
      <4>2. \A h, g \in 1..Len(arrived) : arrived[h] = arrived[g] => h = g
        BY <1>2 DEF TraceInv, Distinguished
      <4> QED
        BY <3>4, <3>5, <3>6, <4>1, <4>2
    <3> QED
      BY <1>2, <3>2, <3>5, <3>6 DEF TraceInv, Distinguished
  <2>2. CASE UNCHANGED tailvars
    BY <1>2, <2>2 DEF TraceInv, Distinguished, tailvars
  <2> QED
    BY <1>2, <2>1, <2>2
<1> QED
  BY <1>1, <1>2, PTL DEF TailSpec

\* In whatever order threads, sources and connections deliver a body of
\* evidence, its trace is that of the same evidence listed by id, which is the
\* order replay and load_archive see it in.
THEOREM OrderIndependentCorrect == TailSpec => []OrderIndependent
<1>1. ASSUME TraceInv PROVE OrderIndependent
  <2>1. Comparable(pool) /\ arrived \in Seq(pool) /\ Distinguished(arrived)
    BY <1>1, PoolComparable DEF TraceInv
  <2> DEFINE v == Timeline(arrived)
  <2> DEFINE d == ById(arrived)
  <2> DEFINE w == Timeline(d)
  <2>2. v \in Seq(pool) /\ ToSet(v) = ToSet(arrived) /\ Ordered(v)
    BY <2>1, TimelinePermutes, PermutationFacts, TimelineOrdered
  <2>3. d \in Seq(pool) /\ ToSet(d) = ToSet(arrived) /\ Distinguished(d)
    BY <2>1, ByIdPermutes, PermutationFacts DEF Distinguished
  <2> HIDE DEF d
  <2>4. w \in Seq(pool) /\ ToSet(w) = ToSet(d) /\ Ordered(w)
    BY <2>1, <2>3, TimelinePermutes, PermutationFacts, TimelineOrdered
  <2> HIDE DEF v, w
  <2>5. v = w
    BY <2>1, <2>2, <2>3, <2>4, OrderedUnique
  <2>6. Timeline(arrived) = Timeline(ById(arrived))
    BY <2>5 DEF v, w, d
  <2>7. Reconstruct(arrived) = Reconstruct(ById(arrived))
    BY <2>6 DEF Reconstruct
  <2> QED
    BY <2>7 DEF OrderIndependent, ById
<1> QED
  BY <1>1, TraceInvariant, PTL

-----------------------------------------------------------------------------
(* Boots, generations and epochs of a timeline *)

\* min_epoch, one observation after the other.
LEMMA MinEpochSteps ==
  ASSUME NEW S, NEW s \in Seq(S), \A o \in S : o.epoch \in Nat
  PROVE  \E P : /\ P[0] = 0
                /\ \A i \in 1..Len(s) : P[i] = IF P[i - 1] = 0 \/ s[i].epoch < P[i - 1]
                                               THEN s[i].epoch ELSE P[i - 1]
                /\ MinEpoch(s) = P[Len(s)]
<1> DEFINE n == Len(s)
<1> DEFINE Step(t, o) == IF t = 0 \/ o.epoch < t THEN o.epoch ELSE t
<1> DEFINE F == [x \in Nat \X (1..n) |-> Step(x[1], s[x[2]])]
<1> DEFINE Body(h) == [I \in SUBSET DOMAIN s |->
                         IF I = {} THEN 0 ELSE Step(h[I \ {Max(I)}], s[Max(I)])]
<1> DEFINE Iter == CHOOSE h : h = Body(h)
<1>1. MinEpoch(s) = Iter[DOMAIN s]
  BY DEF MinEpoch, FoldLeft, MapThenFoldSet
<1>2. n \in Nat /\ DOMAIN s = 1..n /\ \A i \in 1..n : s[i] \in S
  BY LenProperties, ElementOfSeq
<1> HIDE DEF n
<1>3. \A t \in Nat : \A i \in 1..n : Step(t, s[i]) \in Nat
  <2>1. ASSUME NEW t \in Nat, NEW i \in 1..n PROVE Step(t, s[i]) \in Nat
    BY <1>2, <2>1
  <2> QED
    BY <2>1
<1> HIDE DEF Step
<1>4. \A t \in Nat : \A i \in 1..n : F[<<t, i>>] = Step(t, s[i]) /\ F[<<t, i>>] \in Nat
  BY <1>3
<1> HIDE DEF F
<1>5. PICK g : IsFoldOf(g, F, 0, Nat, n)
  <2>1. IsStep(F, Nat, n) /\ 0 \in Nat
    BY <1>4 DEF IsStep
  <2> QED
    BY <1>2, <2>1, FoldExists
<1>6. \A I \in SUBSET (1..n) : I # {} => Max(I) \in 1..n
  BY <1>2, MaxFacts
<1>7. g = Body(g)
  <2>1. ASSUME NEW I \in SUBSET (1..n)
        PROVE  g[I] = IF I = {} THEN 0 ELSE Step(g[I \ {Max(I)}], s[Max(I)])
    BY <1>4, <1>5, <1>6 DEF IsFoldOf
  <2> QED
    BY <1>2, <1>5, <2>1 DEF IsFoldOf
<1>8. Iter = Body(Iter)
  <2> HIDE DEF Body
  <2> QED
    BY <1>7
<1> HIDE DEF Iter
<1>9. Iter[{}] = 0
  BY <1>8
<1>10. ASSUME NEW i \in 1..n PROVE Iter[1..i] = Step(Iter[1..(i - 1)], s[i])
  <2>1. 1..i \in SUBSET (1..n) /\ 1..i # {} /\ Max(1..i) = i /\ (1..i) \ {i} = 1..(i - 1)
    BY <1>2, IntervalFacts
  <2> QED
    BY <1>2, <1>8, <2>1
<1> DEFINE P == [i \in 0..n |-> Iter[1..i]]
<1>11. P[0] = 0 /\ P[n] = Iter[1..n] /\ \A i \in 1..n : P[i] = Step(P[i - 1], s[i])
  <2>1. 1..0 = {} /\ 0 \in 0..n /\ n \in 0..n /\ \A i \in 1..n : i \in 0..n /\ i - 1 \in 0..n
    BY <1>2
  <2> QED
    BY <1>9, <1>10, <2>1
<1> QED
  BY <1>1, <1>2, <1>11 DEF Step, n

\* max_epoch, one observation after the other.
LEMMA MaxEpochSteps ==
  ASSUME NEW S, NEW s \in Seq(S), \A o \in S : o.epoch \in Nat
  PROVE  \E P : /\ P[0] = 0
                /\ \A i \in 1..Len(s) :
                     P[i] = IF s[i].epoch > P[i - 1] THEN s[i].epoch ELSE P[i - 1]
                /\ MaxEpoch(s) = P[Len(s)]
<1> DEFINE n == Len(s)
<1> DEFINE Step(t, o) == IF o.epoch > t THEN o.epoch ELSE t
<1> DEFINE F == [x \in Nat \X (1..n) |-> Step(x[1], s[x[2]])]
<1> DEFINE Body(h) == [I \in SUBSET DOMAIN s |->
                         IF I = {} THEN 0 ELSE Step(h[I \ {Max(I)}], s[Max(I)])]
<1> DEFINE Iter == CHOOSE h : h = Body(h)
<1>1. MaxEpoch(s) = Iter[DOMAIN s]
  BY DEF MaxEpoch, FoldLeft, MapThenFoldSet
<1>2. n \in Nat /\ DOMAIN s = 1..n /\ \A i \in 1..n : s[i] \in S
  BY LenProperties, ElementOfSeq
<1> HIDE DEF n
<1>3. \A t \in Nat : \A i \in 1..n : Step(t, s[i]) \in Nat
  <2>1. ASSUME NEW t \in Nat, NEW i \in 1..n PROVE Step(t, s[i]) \in Nat
    BY <1>2, <2>1
  <2> QED
    BY <2>1
<1> HIDE DEF Step
<1>4. \A t \in Nat : \A i \in 1..n : F[<<t, i>>] = Step(t, s[i]) /\ F[<<t, i>>] \in Nat
  BY <1>3
<1> HIDE DEF F
<1>5. PICK g : IsFoldOf(g, F, 0, Nat, n)
  <2>1. IsStep(F, Nat, n) /\ 0 \in Nat
    BY <1>4 DEF IsStep
  <2> QED
    BY <1>2, <2>1, FoldExists
<1>6. \A I \in SUBSET (1..n) : I # {} => Max(I) \in 1..n
  BY <1>2, MaxFacts
<1>7. g = Body(g)
  <2>1. ASSUME NEW I \in SUBSET (1..n)
        PROVE  g[I] = IF I = {} THEN 0 ELSE Step(g[I \ {Max(I)}], s[Max(I)])
    BY <1>4, <1>5, <1>6 DEF IsFoldOf
  <2> QED
    BY <1>2, <1>5, <2>1 DEF IsFoldOf
<1>8. Iter = Body(Iter)
  <2> HIDE DEF Body
  <2> QED
    BY <1>7
<1> HIDE DEF Iter
<1>9. Iter[{}] = 0
  BY <1>8
<1>10. ASSUME NEW i \in 1..n PROVE Iter[1..i] = Step(Iter[1..(i - 1)], s[i])
  <2>1. 1..i \in SUBSET (1..n) /\ 1..i # {} /\ Max(1..i) = i /\ (1..i) \ {i} = 1..(i - 1)
    BY <1>2, IntervalFacts
  <2> QED
    BY <1>2, <1>8, <2>1
<1> DEFINE P == [i \in 0..n |-> Iter[1..i]]
<1>11. P[0] = 0 /\ P[n] = Iter[1..n] /\ \A i \in 1..n : P[i] = Step(P[i - 1], s[i])
  <2>1. 1..0 = {} /\ 0 \in 0..n /\ n \in 0..n /\ \A i \in 1..n : i \in 0..n /\ i - 1 \in 0..n
    BY <1>2
  <2> QED
    BY <1>9, <1>10, <2>1
<1> QED
  BY <1>1, <1>2, <1>11 DEF Step, n

\* add_boot and its like, one observation after the other.
LEMMA DistinctSteps ==
  ASSUME NEW S, NEW s \in Seq(S), NEW attr, NEW X, \A o \in S : o[attr] \in X
  PROVE  \E P : /\ P[0] = <<>>
                /\ \A i \in 1..Len(s) : P[i] = IF Contains(P[i - 1], s[i][attr])
                                               THEN P[i - 1] ELSE Append(P[i - 1], s[i][attr])
                /\ Distinct(s, attr) = P[Len(s)]
<1> DEFINE n == Len(s)
<1> DEFINE Step(t, o) == IF Contains(t, o[attr]) THEN t ELSE Append(t, o[attr])
<1> DEFINE F == [x \in Seq(X) \X (1..n) |-> Step(x[1], s[x[2]])]
<1> DEFINE Body(h) == [I \in SUBSET DOMAIN s |->
                         IF I = {} THEN <<>> ELSE Step(h[I \ {Max(I)}], s[Max(I)])]
<1> DEFINE Iter == CHOOSE h : h = Body(h)
<1>1. Distinct(s, attr) = Iter[DOMAIN s]
  BY DEF Distinct, FoldLeft, MapThenFoldSet
<1>2. n \in Nat /\ DOMAIN s = 1..n /\ \A i \in 1..n : s[i] \in S
  BY LenProperties, ElementOfSeq
<1> HIDE DEF n
<1>3. \A t \in Seq(X) : \A i \in 1..n : Step(t, s[i]) \in Seq(X)
  <2>1. ASSUME NEW t \in Seq(X), NEW i \in 1..n PROVE Step(t, s[i]) \in Seq(X)
    <3>1. s[i][attr] \in X
      BY <1>2
    <3>2. Append(t, s[i][attr]) \in Seq(X)
      BY <3>1
    <3> QED
      BY <3>2
  <2> QED
    BY <2>1
<1> HIDE DEF Step
<1>4. \A t \in Seq(X) : \A i \in 1..n : F[<<t, i>>] = Step(t, s[i]) /\ F[<<t, i>>] \in Seq(X)
  BY <1>3
<1> HIDE DEF F
<1>5. PICK g : IsFoldOf(g, F, <<>>, Seq(X), n)
  <2>1. IsStep(F, Seq(X), n) /\ <<>> \in Seq(X)
    BY <1>4 DEF IsStep
  <2> QED
    BY <1>2, <2>1, FoldExists
<1>6. \A I \in SUBSET (1..n) : I # {} => Max(I) \in 1..n
  BY <1>2, MaxFacts
<1>7. g = Body(g)
  <2>1. ASSUME NEW I \in SUBSET (1..n)
        PROVE  g[I] = IF I = {} THEN <<>> ELSE Step(g[I \ {Max(I)}], s[Max(I)])
    BY <1>4, <1>5, <1>6 DEF IsFoldOf
  <2> QED
    BY <1>2, <1>5, <2>1 DEF IsFoldOf
<1>8. Iter = Body(Iter)
  <2> HIDE DEF Body
  <2> QED
    BY <1>7
<1> HIDE DEF Iter
<1>9. Iter[{}] = <<>>
  BY <1>8
<1>10. ASSUME NEW i \in 1..n PROVE Iter[1..i] = Step(Iter[1..(i - 1)], s[i])
  <2>1. 1..i \in SUBSET (1..n) /\ 1..i # {} /\ Max(1..i) = i /\ (1..i) \ {i} = 1..(i - 1)
    BY <1>2, IntervalFacts
  <2> QED
    BY <1>2, <1>8, <2>1
<1> DEFINE P == [i \in 0..n |-> Iter[1..i]]
<1>11. P[0] = <<>> /\ P[n] = Iter[1..n] /\ \A i \in 1..n : P[i] = Step(P[i - 1], s[i])
  <2>1. 1..0 = {} /\ 0 \in 0..n /\ n \in 0..n /\ \A i \in 1..n : i \in 0..n /\ i - 1 \in 0..n
    BY <1>2
  <2> QED
    BY <1>9, <1>10, <2>1
<1> QED
  BY <1>1, <1>2, <1>11 DEF Step, n

\* min_epoch and max_epoch are the least and the greatest epoch, if there is
\* no epoch 0, which min_epoch takes for "not set yet".
LEMMA EpochFacts ==
  ASSUME NEW S, NEW s \in Seq(S), \A o \in S : o.epoch \in Nat /\ o.epoch # 0, Len(s) # 0
  PROVE  /\ \E i \in 1..Len(s) : MinEpoch(s) = s[i].epoch
         /\ \E i \in 1..Len(s) : MaxEpoch(s) = s[i].epoch
         /\ \A i \in 1..Len(s) : MinEpoch(s) <= s[i].epoch /\ s[i].epoch <= MaxEpoch(s)
<1> DEFINE n == Len(s)
<1>1. n \in Nat /\ \A i \in 1..n : s[i].epoch \in Nat /\ s[i].epoch # 0
  BY ElementOfSeq
<1>2. PICK P : /\ P[0] = 0
               /\ \A i \in 1..n : P[i] = IF P[i - 1] = 0 \/ s[i].epoch < P[i - 1]
                                         THEN s[i].epoch ELSE P[i - 1]
               /\ MinEpoch(s) = P[n]
  BY MinEpochSteps
<1>3. PICK Q : /\ Q[0] = 0
               /\ \A i \in 1..n : Q[i] = IF s[i].epoch > Q[i - 1] THEN s[i].epoch ELSE Q[i - 1]
               /\ MaxEpoch(s) = Q[n]
  BY MaxEpochSteps
<1> DEFINE Least(k) ==
      /\ k = 0 => P[k] = 0 /\ Q[k] = 0
      /\ k # 0 => /\ \E i \in 1..k : P[k] = s[i].epoch
                  /\ \E i \in 1..k : Q[k] = s[i].epoch
                  /\ \A i \in 1..k : P[k] <= s[i].epoch /\ s[i].epoch <= Q[k]
<1> DEFINE T == {k \in Nat : k <= n => Least(k)}
<1> HIDE DEF n
<1>4. 0 \in T
  BY <1>2, <1>3
<1>5. ASSUME NEW k \in Nat, k \in T PROVE k + 1 \in T
  <2>1. ASSUME k + 1 <= n PROVE Least(k + 1)
    <3>1. k + 1 \in 1..n /\ (k + 1) - 1 = k /\ k <= n /\ k + 1 # 0 /\ k + 1 \in 1..(k + 1)
      BY <1>1, <2>1
    <3>2. Least(k)
      BY <1>5, <3>1
    <3>3. /\ P[k + 1] = IF P[k] = 0 \/ s[k + 1].epoch < P[k] THEN s[k + 1].epoch ELSE P[k]
          /\ Q[k + 1] = IF s[k + 1].epoch > Q[k] THEN s[k + 1].epoch ELSE Q[k]
      BY <1>2, <1>3, <3>1
    <3>4. s[k + 1].epoch \in Nat /\ s[k + 1].epoch # 0
      BY <1>1, <3>1
    <3>5. CASE k = 0
      <4>1. P[k + 1] = s[k + 1].epoch /\ Q[k + 1] = s[k + 1].epoch /\ 1..(k + 1) = {k + 1}
        BY <3>2, <3>3, <3>4, <3>5
      <4> QED
        BY <3>1, <3>4, <4>1
    <3>6. CASE k # 0
      <4>1. PICK i \in 1..k : P[k] = s[i].epoch
        BY <3>2, <3>6
      <4>2. PICK j \in 1..k : Q[k] = s[j].epoch
        BY <3>2, <3>6
      <4>3. i \in 1..(k + 1) /\ j \in 1..(k + 1) /\ i \in 1..n /\ j \in 1..n
        BY <1>1, <3>1
      <4>4. P[k] \in Nat /\ P[k] # 0 /\ Q[k] \in Nat
        BY <1>1, <4>1, <4>2, <4>3
      <4>5. /\ \E h \in 1..(k + 1) : P[k + 1] = s[h].epoch
            /\ \E h \in 1..(k + 1) : Q[k + 1] = s[h].epoch
        BY <3>1, <3>3, <4>1, <4>2, <4>3
      <4>6. /\ P[k + 1] \in Nat /\ P[k + 1] <= P[k] /\ P[k + 1] <= s[k + 1].epoch
            /\ Q[k + 1] \in Nat /\ Q[k] <= Q[k + 1] /\ s[k + 1].epoch <= Q[k + 1]
        BY <3>3, <3>4, <4>4
      <4>7. ASSUME NEW h \in 1..(k + 1)
            PROVE  P[k + 1] <= s[h].epoch /\ s[h].epoch <= Q[k + 1]
        <5>1. CASE h = k + 1
          BY <4>6, <5>1
        <5>2. CASE h # k + 1
          <6>1. h \in 1..k /\ h \in 1..n
            BY <1>1, <3>1, <5>2
          <6>2. P[k] <= s[h].epoch /\ s[h].epoch <= Q[k] /\ s[h].epoch \in Nat
            BY <1>1, <3>2, <3>6, <6>1
          <6> QED
            BY <4>4, <4>6, <6>2
        <5> QED
          BY <5>1, <5>2
      <4> QED
        BY <3>1, <4>5, <4>7
    <3> QED
      BY <3>5, <3>6
  <2> HIDE DEF Least
  <2> QED
    BY <2>1
<1>6. Nat \subseteq T
  <2> HIDE DEF T
  <2> QED
    BY <1>4, <1>5, SetInduction
<1>7. Least(n)
  <2> HIDE DEF Least
  <2> QED
    BY <1>1, <1>6
<1>8. n # 0
  BY DEF n
<1> QED
  BY <1>2, <1>3, <1>7, <1>8 DEF n

LEMMA AppendSet ==
  ASSUME NEW X, NEW v \in Seq(X), NEW x \in X
  PROVE  /\ Append(v, x) \in Seq(X) /\ ToSet(Append(v, x)) = ToSet(v) \cup {x}
         /\ Distinguished(v) /\ x \notin ToSet(v) => Distinguished(Append(v, x))
<1> DEFINE w == Append(v, x)
<1>1. /\ w \in Seq(X) /\ Len(v) \in Nat /\ Len(w) = Len(v) + 1
      /\ \A i \in 1..Len(v) : w[i] = v[i]
      /\ w[Len(v) + 1] = x
  OBVIOUS
<1>2. DOMAIN v = 1..Len(v) /\ DOMAIN w = 1..(Len(v) + 1)
  BY <1>1, LenProperties
<1> HIDE DEF w
<1>3. ASSUME NEW i \in 1..(Len(v) + 1) PROVE w[i] \in ToSet(v) \cup {x}
  <2>1. i \in 1..Len(v) \/ i = Len(v) + 1
    BY <1>1
  <2> QED
    BY <1>1, <1>2, <2>1 DEF ToSet
<1>4. ASSUME NEW i \in 1..Len(v) PROVE v[i] \in ToSet(w)
  <2>1. i \in 1..(Len(v) + 1)
    BY <1>1
  <2> QED
    BY <1>1, <1>2, <2>1 DEF ToSet
<1>5. x \in ToSet(w)
  <2>1. Len(v) + 1 \in 1..(Len(v) + 1)
    BY <1>1
  <2> QED
    BY <1>1, <1>2, <2>1 DEF ToSet
<1>6. ToSet(w) \subseteq ToSet(v) \cup {x}
  BY <1>2, <1>3 DEF ToSet
<1>7. ToSet(v) \cup {x} \subseteq ToSet(w)
  BY <1>2, <1>4, <1>5 DEF ToSet
<1>8. ASSUME Distinguished(v), x \notin ToSet(v),
             NEW i \in 1..(Len(v) + 1), NEW j \in 1..(Len(v) + 1), w[i] = w[j]
      PROVE  i = j
  <2>1. \A k \in 1..(Len(v) + 1) : k \in 1..Len(v) \/ k = Len(v) + 1
    BY <1>1
  <2>2. \A k \in 1..Len(v) : w[k] # x
    BY <1>1, <1>2, <1>8 DEF ToSet
  <2>3. \A k, m \in 1..Len(v) : v[k] = v[m] => k = m
    BY <1>8 DEF Distinguished
  <2> QED
    BY <1>1, <1>8, <2>1, <2>2, <2>3
<1>9. Distinguished(v) /\ x \notin ToSet(v) => Distinguished(w)
  BY <1>1, <1>8 DEF Distinguished
<1> QED
  BY <1>1, <1>6, <1>7, <1>9 DEF w

\* The list of boots, or of generations, has all of them, each once.
LEMMA DistinctFacts ==
  ASSUME NEW S, NEW s \in Seq(S), NEW attr
  PROVE  /\ Distinct(s, attr) \in Seq({o[attr] : o \in S}) /\ Distinguished(Distinct(s, attr))
         /\ ToSet(Distinct(s, attr)) = {s[i][attr] : i \in 1..Len(s)}
<1> DEFINE n == Len(s)
<1> DEFINE X == {o[attr] : o \in S}
<1>1. n \in Nat /\ \A i \in 1..n : s[i][attr] \in X
  BY ElementOfSeq
<1>2. \A o \in S : o[attr] \in X
  OBVIOUS
<1> HIDE DEF X
<1>3. PICK P : /\ P[0] = <<>>
               /\ \A i \in 1..n : P[i] = IF Contains(P[i - 1], s[i][attr])
                                         THEN P[i - 1] ELSE Append(P[i - 1], s[i][attr])
               /\ Distinct(s, attr) = P[n]
  BY <1>2, DistinctSteps
<1> HIDE DEF n
<1> DEFINE Seen(k) ==
      P[k] \in Seq(X) /\ Distinguished(P[k]) /\ ToSet(P[k]) = {s[i][attr] : i \in 1..k}
<1> DEFINE T == {k \in Nat : k <= n => Seen(k)}
<1>4. 0 \in T
  <2>1. 1..0 = {} /\ <<>> \in Seq(X) /\ ToSet(<<>>) = {} /\ Distinguished(<<>>)
    BY DEF ToSet, Distinguished
  <2> QED
    BY <1>3, <2>1
<1>5. ASSUME NEW k \in Nat, k \in T PROVE k + 1 \in T
  <2>1. ASSUME k + 1 <= n PROVE Seen(k + 1)
    <3>1. k + 1 \in 1..n /\ (k + 1) - 1 = k /\ k <= n
      BY <1>1, <2>1
    <3>2. /\ P[k] \in Seq(X) /\ Distinguished(P[k])
          /\ ToSet(P[k]) = {s[i][attr] : i \in 1..k}
      BY <1>5, <3>1
    <3>3. PICK x \in X : x = s[k + 1][attr]
      BY <1>1, <3>1
    <3>4. P[k + 1] = IF Contains(P[k], x) THEN P[k] ELSE Append(P[k], x)
      BY <1>3, <3>1, <3>3
    <3>5. {s[i][attr] : i \in 1..(k + 1)} = {s[i][attr] : i \in 1..k} \cup {x}
      <4>1. \A i : i \in 1..(k + 1) <=> i \in 1..k \/ i = k + 1
        OBVIOUS
      <4> QED
        BY <3>3, <4>1
    <3>6. CASE Contains(P[k], x)
      <4>1. x \in ToSet(P[k])
        <5>1. DOMAIN P[k] = 1..Len(P[k])
          BY <3>2, LenProperties
        <5> QED
          BY <3>6, <5>1 DEF Contains, ToSet
      <4> QED
        BY <3>2, <3>4, <3>5, <3>6, <4>1
    <3>7. CASE ~Contains(P[k], x)
      <4>1. P[k + 1] = Append(P[k], x)
        BY <3>4, <3>7
      <4>2. x \notin ToSet(P[k])
        <5>1. DOMAIN P[k] = 1..Len(P[k])
          BY <3>2, LenProperties
        <5> QED
          BY <3>7, <5>1 DEF Contains, ToSet
      <4>3. /\ P[k + 1] \in Seq(X) /\ ToSet(P[k + 1]) = ToSet(P[k]) \cup {x}
            /\ Distinguished(P[k + 1])
        BY <3>2, <4>1, <4>2, AppendSet
      <4> QED
        BY <3>2, <3>5, <4>3
    <3> QED
      BY <3>6, <3>7
  <2> HIDE DEF Seen
  <2> QED
    BY <2>1
<1>6. Nat \subseteq T
  <2> HIDE DEF T
  <2> QED
    BY <1>4, <1>5, SetInduction
<1>7. Seen(n)
  <2> HIDE DEF Seen
  <2> QED
    BY <1>1, <1>6
<1> QED
  BY <1>3, <1>7 DEF n, X

-----------------------------------------------------------------------------
(* Changes of authority *)

\* A finite set of numbers with a least and a greatest element has two
\* elements exactly when the two differ.
LEMMA TwoElements ==
  ASSUME NEW E \in SUBSET Nat, NEW l \in E, NEW h \in E, \A e \in E : l <= e /\ e <= h
  PROVE  l # h <=> Cardinality(E) > 1
<1>1. IsFiniteSet(E)
  <2>1. E \in SUBSET (0..h) /\ IsFiniteSet(0..h)
    BY FS_Interval
  <2> QED
    BY <2>1, FS_Subset
<1>2. Cardinality(E) \in Nat /\ Cardinality(E) # 0
  BY <1>1, FS_CardinalityType, FS_EmptySet
<1>3. CASE l = h
  <2>1. \A e \in E : e = l
    BY <1>3
  <2>2. E = {l}
    BY <2>1
  <2>3. Cardinality(E) = 1
    BY <2>2, FS_Singleton
  <2> QED
    BY <1>3, <2>3
<1>4. CASE l # h
  <2>1. Cardinality(E) # 1
    BY <1>1, <1>4, FS_Singleton
  <2> QED
    BY <1>2, <1>4, <2>1
<1> QED
  BY <1>3, <1>4

LEMMA LeastAndGreatest ==
  ASSUME NEW E \in SUBSET Nat, NEW l \in E, NEW h \in E, \A e \in E : l <= e /\ e <= h
  PROVE  Min(E) = l /\ Max(E) = h
<1>1. \A x \in E : (\A y \in E : x <= y) => x = l
  OBVIOUS
<1>2. \A x \in E : (\A y \in E : x >= y) => x = h
  OBVIOUS
<1>3. \A e \in E : l <= e /\ h >= e
  OBVIOUS
<1> QED
  BY <1>1, <1>2, <1>3 DEF Min, Max

\* Coordinators and sources start at epoch 1 unless an option says otherwise
\* (coordinator.hpp:79, source.hpp:27, cli.cpp).  reconstruct_trace takes a
\* min_epoch of 0 for "not set yet" (trace.cpp:99), so evidence of an epoch 0
\* would be forgotten when later evidence has another epoch.
PositiveEpochs == \A S \in Pools : \A o \in S : o.epoch # 0

\* The trace names every boot and generation that fed it, says that it spans
\* epochs exactly when it does, and has the first and the last of them,
\* whatever the evidence and the order of its arrival.
THEOREM AuthorityTransitionsShownCorrect ==
  ASSUME PositiveEpochs
  PROVE  TailSpec => []AuthorityTransitionsShown
<1>1. ASSUME TraceInv PROVE AuthorityTransitionsShown
  <2> DEFINE v == Timeline(arrived)
  <2> DEFINE epochs == {o.epoch : o \in ToSet(arrived)}
  <2>1. pool \in Pools /\ arrived \in Seq(pool)
    BY <1>1 DEF TraceInv
  <2>2. v \in Seq(pool) /\ ToSet(v) = ToSet(arrived) /\ Len(v) \in Nat
    BY <2>1, TimelinePermutes, PermutationFacts
  <2> HIDE DEF v
  <2>3. ToSet(v) = {v[i] : i \in 1..Len(v)}
    BY <2>2, LenProperties DEF ToSet
  <2>4. \A o \in pool : o.epoch \in Nat /\ o.epoch # 0
    BY <2>1, PoolAssumption DEF PositiveEpochs
  <2>5. \A i \in 1..Len(v) : v[i] \in pool
    BY <2>2, ElementOfSeq
  <2>6. \A attr : ToSet(Distinct(v, attr)) = {o[attr] : o \in ToSet(arrived)}
    <3>1. SUFFICES ASSUME NEW attr
                   PROVE  ToSet(Distinct(v, attr)) = {o[attr] : o \in ToSet(arrived)}
      OBVIOUS
    <3>2. ToSet(Distinct(v, attr)) = {v[i][attr] : i \in 1..Len(v)}
      BY <2>2, DistinctFacts
    <3> QED
      BY <2>2, <2>3, <3>2
  <2>7. epochs = {v[i].epoch : i \in 1..Len(v)}
    BY <2>2, <2>3
  <2> HIDE DEF epochs
  <2>8. CASE Len(v) = 0
    <3>1. epochs = {} /\ v = <<>>
      <4>1. 1..Len(v) = {}
        BY <2>8
      <4> QED
        BY <2>2, <2>7, <2>8, <4>1, EmptySeq
    <3>2. Cardinality(epochs) = 0
      BY <3>1, FS_EmptySet
    <3>3. MinEpoch(v) = 0 /\ MaxEpoch(v) = 0
      <4>1. MinEpoch(v) = 0
        BY <2>2, <2>4, <2>8, MinEpochSteps
      <4>2. MaxEpoch(v) = 0
        BY <2>2, <2>4, <2>8, MaxEpochSteps
      <4> QED
        BY <4>1, <4>2
    <3>4. epochs = {} /\ (MinEpoch(v) # MaxEpoch(v) <=> Cardinality(epochs) > 1)
      BY <3>1, <3>2, <3>3
    <3> QED
      BY <2>6, <3>4 DEF AuthorityTransitionsShown, Reconstruct, v, epochs
  <2>9. CASE Len(v) # 0
    <3>1. /\ MinEpoch(v) \in epochs /\ MaxEpoch(v) \in epochs
          /\ \A e \in epochs : MinEpoch(v) <= e /\ e <= MaxEpoch(v)
      BY <2>2, <2>4, <2>7, <2>9, EpochFacts
    <3>2. epochs \in SUBSET Nat
      BY <2>4, <2>5, <2>7
    <3>3. /\ MinEpoch(v) # MaxEpoch(v) <=> Cardinality(epochs) > 1
          /\ MinEpoch(v) = Min(epochs) /\ MaxEpoch(v) = Max(epochs)
      BY <3>1, <3>2, TwoElements, LeastAndGreatest
    <3> QED
      BY <2>6, <3>3 DEF AuthorityTransitionsShown, Reconstruct, v, epochs
  <2> QED
    BY <2>8, <2>9
<1> QED
  BY <1>1, TraceInvariant, PTL

-----------------------------------------------------------------------------
(* The first and the last observation of a type *)

LEMMA MinFacts ==
  ASSUME NEW S \in SUBSET Nat, S # {}
  PROVE  Min(S) \in S /\ \A y \in S : Min(S) <= y
<1>1. PICK k \in S : \A y \in S : k <= y
  BY LeastExists
<1>2. \A x \in S : (\A y \in S : x <= y) => x = k
  BY <1>1
<1>3. Min(S) = k
  BY <1>1, <1>2 DEF Min
<1> QED
  BY <1>1, <1>3

LEMMA BeforeLater ==
  ASSUME NEW S, Comparable(S), NEW a \in S, NEW b \in S, a = b \/ Before(a, b)
  PROVE  Ts(a) <= Ts(b)
<1> HIDE DEF Ts
<1>1. Ts(a) \in Nat /\ Ts(b) \in Nat
  BY DEF Comparable
<1> QED
  BY <1>1 DEF Before

\* v lists the evidence A, taken from S, in the order of the timeline.
IsTimeline(v, A, S) == v \in Seq(S) /\ ToSet(v) = A /\ Ordered(v)

LEMMA ArrivedTimeline ==
  ASSUME TraceInv
  PROVE  Comparable(pool) /\ IsTimeline(Timeline(arrived), ToSet(arrived), pool)
<1>1. Comparable(pool) /\ arrived \in Seq(pool) /\ Distinguished(arrived)
  BY PoolComparable DEF TraceInv
<1> QED
  BY <1>1, TimelinePermutes, PermutationFacts, TimelineOrdered DEF IsTimeline

\* o is in evidence A, of type t, and not after (before) any other such.
FirstIn(o, A, t) == o \in A /\ o.type = t /\ \A q \in A : q.type = t => o = q \/ Before(o, q)
LastIn(o, A, t) == o \in A /\ o.type = t /\ \A q \in A : q.type = t => o = q \/ Before(q, o)

LEMMA EndsOfType ==
  ASSUME NEW S, NEW A, NEW v, IsTimeline(v, A, S), NEW t
  PROVE  /\ HasType(v, t) <=> \E o \in A : o.type = t
         /\ HasType(v, t) => FirstIn(FirstObs(v, t), A, t) /\ LastIn(LastObs(v, t), A, t)
<1> DEFINE n == Len(v)
<1> DEFINE I == Positions(v, t)
<1>1. n \in Nat /\ DOMAIN v = 1..n /\ A = {v[i] : i \in 1..n}
  BY LenProperties DEF IsTimeline, ToSet
<1>2. \A i, j \in 1..n : i < j => Before(v[i], v[j])
  BY DEF IsTimeline, Ordered
<1> HIDE DEF n
<1>3. I \in SUBSET (1..n) /\ \A i \in 1..n : i \in I <=> v[i].type = t
  BY <1>1 DEF Positions
<1>4. HasType(v, t) <=> I # {}
  BY DEF HasType
<1> HIDE DEF I
<1>5. ASSUME I # {}
      PROVE  /\ Min(I) \in I /\ \A j \in I : Min(I) <= j
             /\ Max(I) \in I /\ \A j \in I : j <= Max(I)
  <2>1. I \in SUBSET Nat
    BY <1>1, <1>3
  <2> QED
    BY <1>1, <1>3, <1>5, <2>1, MinFacts, MaxFacts
<1>6. HasType(v, t) <=> \E o \in A : o.type = t
  BY <1>1, <1>3, <1>4
<1>7. ASSUME NEW i \in I, \A j \in I : i <= j PROVE FirstIn(v[i], A, t)
  <2>1. i \in 1..n /\ v[i] \in A /\ v[i].type = t
    BY <1>1, <1>3
  <2>2. ASSUME NEW j \in 1..n, v[j].type = t PROVE v[i] = v[j] \/ Before(v[i], v[j])
    <3>1. j \in I /\ i <= j /\ i \in Nat /\ j \in Nat
      BY <1>1, <1>3, <1>7, <2>1, <2>2
    <3> QED
      BY <1>2, <2>1, <3>1
  <2> QED
    BY <1>1, <2>1, <2>2 DEF FirstIn
<1>8. ASSUME NEW i \in I, \A j \in I : j <= i PROVE LastIn(v[i], A, t)
  <2>1. i \in 1..n /\ v[i] \in A /\ v[i].type = t
    BY <1>1, <1>3
  <2>2. ASSUME NEW j \in 1..n, v[j].type = t PROVE v[i] = v[j] \/ Before(v[j], v[i])
    <3>1. j \in I /\ j <= i /\ i \in Nat /\ j \in Nat
      BY <1>1, <1>3, <1>8, <2>1, <2>2
    <3> QED
      BY <1>2, <2>1, <3>1
  <2> QED
    BY <1>1, <2>1, <2>2 DEF LastIn
<1>9. I # {} => FirstIn(FirstObs(v, t), A, t) /\ LastIn(LastObs(v, t), A, t)
  BY <1>5, <1>7, <1>8 DEF FirstObs, LastObs, I
<1> QED
  BY <1>4, <1>6, <1>9

LEMMA OneEnd ==
  ASSUME NEW S, Comparable(S), NEW A \in SUBSET S, NEW t, NEW a, NEW b
  PROVE  /\ FirstIn(a, A, t) /\ FirstIn(b, A, t) => a = b
         /\ LastIn(a, A, t) /\ LastIn(b, A, t) => a = b
<1> SUFFICES ASSUME a \in A, b \in A, a.type = t, b.type = t,
                    a = b \/ Before(a, b), a = b \/ Before(b, a)
             PROVE  a = b
  BY DEF FirstIn, LastIn
<1>1. \A x \in S : ~Before(x, x)
  BY BeforeFacts
<1>2. \A x, y, z \in S : Before(x, y) /\ Before(y, z) => Before(x, z)
  BY BeforeFacts
<1> QED
  BY <1>1, <1>2

-----------------------------------------------------------------------------
(* Late evidence *)

\* The instants of a timeline are natural; without an observation of the type
\* they are 0.
LEMMA InstantFacts ==
  ASSUME NEW S, Comparable(S), NEW A \in SUBSET S, NEW v, IsTimeline(v, A, S), NEW t
  PROVE  /\ FirstOf(v, t).ts = IF HasType(v, t) THEN Ts(FirstObs(v, t)) ELSE 0
         /\ LastOf(v, t).ts = IF HasType(v, t) THEN Ts(LastObs(v, t)) ELSE 0
         /\ FirstOf(v, t).ts \in Nat /\ LastOf(v, t).ts \in Nat
<1>1. /\ FirstOf(v, t).ts = IF HasType(v, t) THEN Ts(FirstObs(v, t)) ELSE 0
      /\ LastOf(v, t).ts = IF HasType(v, t) THEN Ts(LastObs(v, t)) ELSE 0
  BY DEF FirstOf, LastOf, Instant, NoInstant
<1>2. HasType(v, t) => FirstObs(v, t) \in S /\ LastObs(v, t) \in S
  BY EndsOfType DEF FirstIn, LastIn
<1> QED
  BY <1>1, <1>2 DEF Comparable

\* One more timed observation leaves the first one of a type or comes before
\* it, and leaves the last one or comes after it.
LEMMA EndsWiden ==
  ASSUME NEW S, Comparable(S), NEW A \in SUBSET S, NEW o \in S, Ts(o) # 0,
         NEW v, IsTimeline(v, A, S), NEW w, IsTimeline(w, A \cup {o}, S), NEW t
  PROVE  /\ FirstOf(v, t).ts # 0 =>
              FirstOf(w, t).ts # 0 /\ FirstOf(w, t).ts <= FirstOf(v, t).ts
         /\ LastOf(v, t).ts # 0 =>
              LastOf(w, t).ts # 0 /\ LastOf(w, t).ts >= LastOf(v, t).ts
<1> DEFINE B == A \cup {o}
<1>1. B \in SUBSET S /\ A \subseteq B /\ IsTimeline(w, B, S)
  OBVIOUS
<1>2. \A q \in B : q \in A \/ q = o
  OBVIOUS
<1> HIDE DEF B
<1>3. CASE ~HasType(v, t)
  BY <1>3, InstantFacts
<1>4. CASE HasType(v, t)
  <2> DEFINE a == FirstObs(v, t)
  <2> DEFINE b == FirstObs(w, t)
  <2> DEFINE c == LastObs(v, t)
  <2> DEFINE d == LastObs(w, t)
  <2>1. FirstIn(a, A, t) /\ LastIn(c, A, t)
    BY <1>4, EndsOfType
  <2>2. HasType(w, t)
    <3>1. \E q \in B : q.type = t
      BY <1>1, <2>1 DEF FirstIn
    <3> QED
      BY <1>1, <3>1, EndsOfType
  <2>3. FirstIn(b, B, t) /\ LastIn(d, B, t)
    BY <1>1, <2>2, EndsOfType
  <2>4. /\ FirstOf(v, t).ts = Ts(a) /\ LastOf(v, t).ts = Ts(c)
        /\ FirstOf(w, t).ts = Ts(b) /\ LastOf(w, t).ts = Ts(d)
    BY <1>1, <1>4, <2>2, InstantFacts
  <2> HIDE DEF a, b, c, d
  <2>5. a \in S /\ b \in S /\ c \in S /\ d \in S
    BY <1>1, <2>1, <2>3 DEF FirstIn, LastIn
  <2>6. Ts(a) \in Nat /\ Ts(b) \in Nat /\ Ts(c) \in Nat /\ Ts(d) \in Nat
    BY <2>5 DEF Comparable
  <2>7. Ts(b) <= Ts(a)
    <3>1. b = a \/ Before(b, a)
      BY <1>1, <2>1, <2>3 DEF FirstIn
    <3> QED
      BY <2>5, <3>1, BeforeLater
  <2>8. Ts(c) <= Ts(d)
    <3>1. c = d \/ Before(c, d)
      BY <1>1, <2>1, <2>3 DEF LastIn
    <3> QED
      BY <2>5, <3>1, BeforeLater
  <2>9. b = o \/ Ts(a) <= Ts(b)
    <3>1. CASE b \in A
      <4>1. a = b \/ Before(a, b)
        BY <2>1, <2>3, <3>1 DEF FirstIn
      <4> QED
        BY <2>5, <4>1, BeforeLater
    <3> QED
      BY <1>2, <2>3, <3>1 DEF FirstIn
  <2> HIDE DEF Ts
  <2>10. Ts(a) # 0 => Ts(b) # 0
    BY <2>6, <2>9
  <2>11. Ts(c) # 0 => Ts(d) # 0
    BY <2>6, <2>8
  <2> QED
    BY <2>4, <2>6, <2>7, <2>8, <2>10, <2>11
<1> QED
  BY <1>3, <1>4

\* What an arrival does to the timeline.
LEMMA Arrives ==
  ASSUME TraceInv, TraceInv', TailNext
  PROVE  \E o \in pool : /\ o = Last(arrived') /\ Comparable(pool)
                         /\ ToSet(arrived) \in SUBSET pool
                         /\ IsTimeline(Timeline(arrived), ToSet(arrived), pool)
                         /\ IsTimeline(Timeline(arrived'), ToSet(arrived) \cup {o}, pool)
<1>1. PICK o \in pool : arrived' = Append(arrived, o) /\ pool' = pool
  BY DEF TailNext, TraceNext, Arrive
<1>2. arrived \in Seq(pool) /\ Comparable(pool)
  BY PoolComparable DEF TraceInv
<1>3. arrived' \in Seq(pool) /\ Distinguished(arrived')
  BY <1>1 DEF TraceInv, Distinguished
<1>4. ToSet(arrived') = ToSet(arrived) \cup {o}
  BY <1>1, <1>2, AppendSet
<1>5. o = Last(arrived')
  BY <1>1, <1>2 DEF Last
<1>6. ToSet(arrived) \in SUBSET pool
  <2>1. DOMAIN arrived = 1..Len(arrived) /\ \A i \in 1..Len(arrived) : arrived[i] \in pool
    BY <1>2, LenProperties, ElementOfSeq
  <2> QED
    BY <2>1 DEF ToSet
<1>7. IsTimeline(Timeline(arrived), ToSet(arrived), pool)
  BY ArrivedTimeline
<1>8. IsTimeline(Timeline(arrived'), ToSet(arrived'), pool)
  BY <1>2, <1>3, TimelinePermutes, PermutationFacts, TimelineOrdered DEF IsTimeline
<1> QED
  BY <1>2, <1>4, <1>5, <1>6, <1>7, <1>8

\* The phases that last from their first start to their last end.
Paired == {"QUEUE", "TRANSFER", "PREFILL", "DECODE", "SPECULATION"}

StartOf == [QUEUE |-> "QUEUE_ENTER", TRANSFER |-> "TRANSFER_START", PREFILL |-> "PREFILL_START",
            DECODE |-> "DECODE_STEP_START", SPECULATION |-> "SPECULATION_START"]
EndOf == [QUEUE |-> "QUEUE_LEAVE", TRANSFER |-> "TRANSFER_END", PREFILL |-> "PREFILL_END",
          DECODE |-> "DECODE_STEP_END", SPECULATION |-> "SPECULATION_VERIFY"]

LEMMA PairedPhases ==
  ASSUME NEW v, NEW p \in Paired
  PROVE  /\ p \in DOMAIN Phases(v) <=>
              FirstOf(v, StartOf[p]).ts # 0 /\ LastOf(v, EndOf[p]).ts # 0
         /\ p \in DOMAIN Phases(v) =>
              /\ Phases(v)[p].start = FirstOf(v, StartOf[p]).ts
              /\ Phases(v)[p].end = LastOf(v, EndOf[p]).ts
<1> DEFINE Known(q, s, e) ==
      q \in DOMAIN Phases(v) <=> FirstOf(v, s).ts # 0 /\ LastOf(v, e).ts # 0
<1> DEFINE Lasts(q, s, e) == Phases(v)[q] = Span(FirstOf(v, s), LastOf(v, e))
<1>1. CASE p = "QUEUE"
  <2>1. Known("QUEUE", "QUEUE_ENTER", "QUEUE_LEAVE")
    BY DEF Phases, Pair
  <2>2. ASSUME "QUEUE" \in DOMAIN Phases(v) PROVE Lasts("QUEUE", "QUEUE_ENTER", "QUEUE_LEAVE")
    BY <2>2 DEF Phases, Pair
  <2>3. StartOf["QUEUE"] = "QUEUE_ENTER" /\ EndOf["QUEUE"] = "QUEUE_LEAVE"
    BY DEF StartOf, EndOf
  <2> QED
    BY <1>1, <2>1, <2>2, <2>3 DEF Span, Interval
<1>2. CASE p = "TRANSFER"
  <2>1. Known("TRANSFER", "TRANSFER_START", "TRANSFER_END")
    BY DEF Phases, Pair
  <2>2. ASSUME "TRANSFER" \in DOMAIN Phases(v)
        PROVE  Lasts("TRANSFER", "TRANSFER_START", "TRANSFER_END")
    BY <2>2 DEF Phases, Pair
  <2>3. StartOf["TRANSFER"] = "TRANSFER_START" /\ EndOf["TRANSFER"] = "TRANSFER_END"
    BY DEF StartOf, EndOf
  <2> QED
    BY <1>2, <2>1, <2>2, <2>3 DEF Span, Interval
<1>3. CASE p = "PREFILL"
  <2>1. Known("PREFILL", "PREFILL_START", "PREFILL_END")
    BY DEF Phases, Pair
  <2>2. ASSUME "PREFILL" \in DOMAIN Phases(v) PROVE Lasts("PREFILL", "PREFILL_START", "PREFILL_END")
    BY <2>2 DEF Phases, Pair
  <2>3. StartOf["PREFILL"] = "PREFILL_START" /\ EndOf["PREFILL"] = "PREFILL_END"
    BY DEF StartOf, EndOf
  <2> QED
    BY <1>3, <2>1, <2>2, <2>3 DEF Span, Interval
<1>4. CASE p = "DECODE"
  <2>1. Known("DECODE", "DECODE_STEP_START", "DECODE_STEP_END")
    BY DEF Phases, Pair
  <2>2. ASSUME "DECODE" \in DOMAIN Phases(v)
        PROVE  Lasts("DECODE", "DECODE_STEP_START", "DECODE_STEP_END")
    BY <2>2 DEF Phases, Pair
  <2>3. StartOf["DECODE"] = "DECODE_STEP_START" /\ EndOf["DECODE"] = "DECODE_STEP_END"
    BY DEF StartOf, EndOf
  <2> QED
    BY <1>4, <2>1, <2>2, <2>3 DEF Span, Interval
<1>5. CASE p = "SPECULATION"
  <2>1. Known("SPECULATION", "SPECULATION_START", "SPECULATION_VERIFY")
    BY DEF Phases, Pair
  <2>2. ASSUME "SPECULATION" \in DOMAIN Phases(v)
        PROVE  Lasts("SPECULATION", "SPECULATION_START", "SPECULATION_VERIFY")
    BY <2>2 DEF Phases, Pair
  <2>3. StartOf["SPECULATION"] = "SPECULATION_START" /\ EndOf["SPECULATION"] = "SPECULATION_VERIFY"
    BY DEF StartOf, EndOf
  <2> QED
    BY <1>5, <2>1, <2>2, <2>3 DEF Span, Interval
<1> QED
  BY <1>1, <1>2, <1>3, <1>4, <1>5 DEF Paired

\* Whatever more timed evidence comes in, in whatever order, a request is
\* never known to have spent less on queueing, transfers, prefill, decoding or
\* speculation than before.
THEOREM LateEvidenceWidensCorrect == TailSpec => LateEvidenceWidens
<1> DEFINE Widens ==
      Ts(Last(arrived')) # 0 =>
        LET old == Reconstruct(arrived).phases
            new == Reconstruct(arrived').phases
        IN  \A p \in DOMAIN old \cap {"QUEUE", "TRANSFER", "PREFILL", "DECODE", "SPECULATION"} :
              /\ p \in DOMAIN new
              /\ new[p].start <= old[p].start
              /\ new[p].end >= old[p].end
<1>1. ASSUME TraceInv, TraceInv', [TailNext]_tailvars PROVE [Widens]_tracevars
  <2>1. CASE TailNext
    <3> DEFINE v == Timeline(arrived)
    <3> DEFINE w == Timeline(arrived')
    <3>1. SUFFICES ASSUME Ts(Last(arrived')) # 0, NEW p \in Paired, p \in DOMAIN Phases(v)
                   PROVE  /\ p \in DOMAIN Phases(w)
                          /\ Phases(w)[p].start <= Phases(v)[p].start
                          /\ Phases(w)[p].end >= Phases(v)[p].end
      BY DEF Reconstruct, Paired
    <3>2. PICK o \in pool : /\ o = Last(arrived') /\ Comparable(pool)
                            /\ ToSet(arrived) \in SUBSET pool
                            /\ IsTimeline(v, ToSet(arrived), pool)
                            /\ IsTimeline(w, ToSet(arrived) \cup {o}, pool)
      BY <1>1, <2>1, Arrives
    <3> HIDE DEF v, w
    <3>3. /\ FirstOf(v, StartOf[p]).ts # 0 /\ LastOf(v, EndOf[p]).ts # 0
          /\ Phases(v)[p].start = FirstOf(v, StartOf[p]).ts
          /\ Phases(v)[p].end = LastOf(v, EndOf[p]).ts
      BY <3>1, PairedPhases
    <3>4. /\ FirstOf(w, StartOf[p]).ts # 0 /\ FirstOf(w, StartOf[p]).ts <= FirstOf(v, StartOf[p]).ts
          /\ LastOf(w, EndOf[p]).ts # 0 /\ LastOf(w, EndOf[p]).ts >= LastOf(v, EndOf[p]).ts
      BY <3>1, <3>2, <3>3, EndsWiden
    <3> QED
      BY <3>3, <3>4, PairedPhases
  <2>2. CASE UNCHANGED tailvars
    BY <2>2 DEF tailvars, tracevars
  <2> QED
    BY <1>1, <2>1, <2>2
<1> QED
  BY <1>1, TraceInvariant, PTL DEF TailSpec, LateEvidenceWidens

\* A completion in evidence settles the outcome: whatever arrives after it
\* that is no completion, a failure or a cancellation that overtook it among
\* them, leaves the outcome of the request as it is.
THEOREM CompletionDecidesCorrect == TailSpec => CompletionDecides
<1> DEFINE Decides ==
      HasType(arrived, "COMPLETION") /\ Last(arrived').type # "COMPLETION" =>
        Reconstruct(arrived').outcome = Reconstruct(arrived).outcome
<1>1. ASSUME TraceInv, TraceInv', [TailNext]_tailvars PROVE [Decides]_tracevars
  <2>1. CASE TailNext
    <3> DEFINE t == "COMPLETION"
    <3> DEFINE v == Timeline(arrived)
    <3> DEFINE w == Timeline(arrived')
    <3> DEFINE A == ToSet(arrived)
    <3>1. SUFFICES ASSUME HasType(arrived, t), Last(arrived').type # t
                   PROVE  Outcome(w) = Outcome(v)
      BY DEF Reconstruct
    <3>2. PICK o \in pool : /\ o = Last(arrived') /\ Comparable(pool) /\ A \in SUBSET pool
                            /\ IsTimeline(v, A, pool) /\ IsTimeline(w, A \cup {o}, pool)
      BY <1>1, <2>1, Arrives
    <3>3. \E q \in A : q.type = t
      BY <3>1 DEF HasType, Positions, ToSet
    <3> HIDE DEF v, w, A, t
    <3>4. HasType(v, t) /\ HasType(w, t)
      BY <3>2, <3>3, EndsOfType
    <3>5. LastIn(LastObs(v, t), A, t) /\ LastIn(LastObs(w, t), A \cup {o}, t)
      BY <3>2, <3>4, EndsOfType
    <3>6. LastIn(LastObs(w, t), A, t)
      BY <3>1, <3>2, <3>5 DEF LastIn
    <3>7. LastObs(w, t) = LastObs(v, t)
      BY <3>2, <3>5, <3>6, OneEnd
    <3> QED
      BY <3>4, <3>7 DEF Outcome, t
  <2>2. CASE UNCHANGED tailvars
    BY <2>2 DEF tailvars, tracevars
  <2> QED
    BY <1>1, <2>1, <2>2
<1> QED
  BY <1>1, TraceInvariant, PTL DEF TailSpec, CompletionDecides

-----------------------------------------------------------------------------
(* What a counterfactual may take off *)

\* Numbers of an interval that lie outside an interval within it.
LEMMA OutsideCount ==
  ASSUME NEW a \in Nat, NEW b \in Nat, NEW s \in Nat, NEW e \in Nat,
         a <= s, s <= e, e <= b,
         NEW X \in SUBSET (a..(b - 1)), \A n \in X : n < s \/ n >= e
  PROVE  Cardinality(X) \in Nat /\ Cardinality(X) + (e - s) <= b - a
<1> DEFINE L == a..(s - 1)
<1> DEFINE R == e..(b - 1)
<1>1. IsFiniteSet(L) /\ Cardinality(L) = s - a
  <2>1. s - 1 \in Int /\ a \in Int
    OBVIOUS
  <2>2. IsFiniteSet(L) /\ Cardinality(L) = IF a > s - 1 THEN 0 ELSE s - 1 - a + 1
    BY <2>1, FS_Interval
  <2> QED
    BY <2>1, <2>2
<1>2. IsFiniteSet(R) /\ Cardinality(R) = b - e
  <2>1. b - 1 \in Int /\ e \in Int
    OBVIOUS
  <2>2. IsFiniteSet(R) /\ Cardinality(R) = IF e > b - 1 THEN 0 ELSE b - 1 - e + 1
    BY <2>1, FS_Interval
  <2> QED
    BY <2>1, <2>2
<1>3. X \subseteq L \cup R /\ L \cap R = {}
  OBVIOUS
<1> HIDE DEF L, R
<1>4. IsFiniteSet(L \cup R) /\ Cardinality(L \cup R) = (s - a) + (b - e)
  <2>1. Cardinality(L \cap R) = 0
    BY <1>3, FS_EmptySet
  <2>2. /\ IsFiniteSet(L \cup R)
        /\ Cardinality(L \cup R) = Cardinality(L) + Cardinality(R) - Cardinality(L \cap R)
    BY <1>1, <1>2, FS_Union
  <2> QED
    BY <1>1, <1>2, <2>1, <2>2
<1>5. IsFiniteSet(X) /\ Cardinality(X) <= Cardinality(L \cup R)
  BY <1>3, <1>4, FS_Subset
<1>6. Cardinality(X) \in Nat
  BY <1>5, FS_CardinalityType
<1> QED
  BY <1>4, <1>5, <1>6

\* p runs from one natural instant to another.
Natural(t, p) == t.phases[p].start \in Nat /\ t.phases[p].end \in Nat

\* The phases the rules change, and the total, are natural, and the total
\* ends no earlier than it starts.
LEMMA NaturalPhases ==
  ASSUME TraceInv
  PROVE  LET t == Reconstruct(arrived) IN
         /\ \A r \in Rules : ChangedPhase[r] \in DOMAIN t.phases => Natural(t, ChangedPhase[r])
         /\ "TOTAL" \in DOMAIN t.phases =>
              Natural(t, "TOTAL") /\ t.phases["TOTAL"].start <= t.phases["TOTAL"].end
<1> DEFINE v == Timeline(arrived)
<1> DEFINE A == ToSet(arrived)
<1>1. Comparable(pool) /\ IsTimeline(v, A, pool) /\ A \in SUBSET pool
  <2>1. Comparable(pool) /\ IsTimeline(v, A, pool)
    BY ArrivedTimeline
  <2>2. arrived \in Seq(pool) /\ DOMAIN arrived = 1..Len(arrived)
    BY LenProperties DEF TraceInv
  <2>3. \A i \in 1..Len(arrived) : arrived[i] \in pool
    BY <2>2, ElementOfSeq
  <2> QED
    BY <2>1, <2>2, <2>3 DEF ToSet
<1>2. Reconstruct(arrived).phases = Phases(v)
  BY DEF Reconstruct
<1> HIDE DEF v, A
<1>3. \A type : FirstOf(v, type).ts \in Nat /\ LastOf(v, type).ts \in Nat
  BY <1>1, InstantFacts
<1>4. Arrival(v).ts \in Nat /\ Completion(v).ts \in Nat
  <2>1. v # <<>> => Instant(Head(v)).ts \in Nat /\ Instant(Last(v)).ts \in Nat
    <3>1. ASSUME v # <<>> PROVE Head(v) \in pool /\ Last(v) \in pool
      <4>1. v \in Seq(pool) /\ Len(v) \in Nat /\ Len(v) # 0
        BY <1>1, <3>1, EmptySeq DEF IsTimeline
      <4>2. 1 \in 1..Len(v) /\ Len(v) \in 1..Len(v)
        BY <4>1
      <4> QED
        BY <4>1, <4>2, ElementOfSeq DEF Last
    <3> QED
      BY <1>1, <3>1 DEF Instant, Comparable
  <2> QED
    BY <1>3, <2>1 DEF Arrival, Completion, OrElse, NoInstant
<1>5. ASSUME "TOTAL" \in DOMAIN Phases(v)
      PROVE  /\ Phases(v)["TOTAL"].start \in Nat /\ Phases(v)["TOTAL"].end \in Nat
             /\ Phases(v)["TOTAL"].start <= Phases(v)["TOTAL"].end
  <2>1. Phases(v)["TOTAL"] =
          Interval(Arrival(v), NotBefore(Completion(v), Arrival(v)), "RECONSTRUCTED")
    BY <1>5 DEF Phases
  <2>2. NotBefore(Completion(v), Arrival(v)).ts =
          IF Completion(v).ts < Arrival(v).ts THEN Arrival(v).ts ELSE Completion(v).ts
    <3>1. Completion(v) = [ts |-> Completion(v).ts, recv |-> Completion(v).recv]
      BY DEF Completion, OrElse, LastOf, Instant, NoInstant
    <3> QED
      BY <3>1 DEF NotBefore
  <2> QED
    BY <1>4, <2>1, <2>2 DEF Interval
<1>6. ASSUME "RETRY" \in DOMAIN Phases(v)
      PROVE  Phases(v)["RETRY"].start \in Nat /\ Phases(v)["RETRY"].end \in Nat
  <2>1. Phases(v)["RETRY"] = Point(FirstOf(v, "RETRY"), FirstProvenance(v, "RETRY"))
    BY <1>6 DEF Phases
  <2> QED
    BY <1>3, <2>1 DEF Point, Interval
<1>7. ASSUME NEW p \in Paired, p \in DOMAIN Phases(v)
      PROVE  Phases(v)[p].start \in Nat /\ Phases(v)[p].end \in Nat
  BY <1>3, <1>7, PairedPhases
<1>8. \A r \in Rules : ChangedPhase[r] \in Paired \/ ChangedPhase[r] = "RETRY"
  BY DEF Rules, ChangedPhase, Paired
<1> QED
  BY <1>2, <1>5, <1>6, <1>7, <1>8 DEF Natural

\* A rule takes off no more than the phase it changes lasts, and no more than
\* half of a transfer.
LEMMA SavedBounded ==
  ASSUME NEW t, NEW rule \in Rules, Dur(t, ChangedPhase[rule]) \in Nat
  PROVE  /\ Saved(t, rule) \in Nat /\ Saved(t, rule) <= Dur(t, ChangedPhase[rule])
         /\ rule = "REDUCE_TRANSFER_BY_HALF" =>
              Saved(t, rule) = Dur(t, ChangedPhase[rule]) \div 2
<1> HIDE DEF Dur, AnyCold
<1>1. CASE rule = "REMOVE_QUEUE_WAIT" \/ rule = "REMOVE_RETRY"
  <2>1. Saved(t, rule) = Dur(t, ChangedPhase[rule])
    BY <1>1 DEF Saved
  <2> QED
    BY <1>1, <2>1
<1>2. CASE rule = "WARM_RESIDENCY"
  <2>1. ChangedPhase[rule] = "PREFILL"
    BY <1>2 DEF ChangedPhase
  <2>2. Saved(t, rule) = IF AnyCold(t) THEN (Dur(t, "PREFILL") * 7) \div 10 ELSE 0
    BY <1>2 DEF Saved
  <2> QED
    BY <1>2, <2>1, <2>2
<1>3. CASE rule = "REDUCE_TRANSFER_BY_HALF"
  <2>1. ChangedPhase[rule] = "TRANSFER"
    BY <1>3 DEF ChangedPhase
  <2>2. Saved(t, rule) = Dur(t, "TRANSFER") \div 2
    BY <1>3 DEF Saved
  <2> QED
    BY <1>3, <2>1, <2>2
<1> QED
  BY <1>1, <1>2, <1>3 DEF Rules

\* A counterfactual never makes a request slower, and what it takes off is
\* time in which nothing else ran, whatever the trace.
THEOREM CounterfactualBoundedCorrect == TailSpec => []CounterfactualBounded
<1>1. ASSUME TraceInv PROVE CounterfactualBounded
  <2> DEFINE t == Reconstruct(arrived)
  <2> SUFFICES ASSUME NEW rule \in Rules
               PROVE  LET c == Counterfactual(t, rule)
                          p == ChangedPhase[rule]
                      IN  /\ c.counterfactual_total <= c.original_total
                          /\ "TOTAL" \in DOMAIN t.phases /\ StandsAlone(t, p) =>
                               c.counterfactual_total >=
                                 Cardinality(Elsewhere(t, p))
                                   + (IF rule = "REDUCE_TRANSFER_BY_HALF"
                                      THEN Dur(t, p) \div 2 ELSE 0)
    BY DEF CounterfactualBounded
  <2> DEFINE p == ChangedPhase[rule]
  <2> DEFINE total == Dur(t, "TOTAL")
  <2> DEFINE d == Dur(t, p)
  <2> DEFINE saved == Saved(t, rule)
  <2>1. /\ p \in DOMAIN t.phases => Natural(t, p)
        /\ "TOTAL" \in DOMAIN t.phases =>
             Natural(t, "TOTAL") /\ t.phases["TOTAL"].start <= t.phases["TOTAL"].end
    BY <1>1, NaturalPhases
  <2> HIDE DEF t, p
  <2>2. total \in Nat /\ d \in Nat
    BY <2>1 DEF Natural, Dur
  <2>3. /\ saved \in Nat /\ saved <= d
        /\ rule = "REDUCE_TRANSFER_BY_HALF" => saved = d \div 2
    <3> HIDE DEF saved
    <3> QED
      BY <2>2, SavedBounded DEF saved, p
  <2>4. /\ Counterfactual(t, rule).original_total = total
        /\ Counterfactual(t, rule).counterfactual_total =
             IF total >= saved THEN total - saved ELSE 0
    BY DEF Counterfactual
  <2>5. ASSUME "TOTAL" \in DOMAIN t.phases, StandsAlone(t, p)
        PROVE  Cardinality(Elsewhere(t, p)) \in Nat /\ Cardinality(Elsewhere(t, p)) + d <= total
    <3> DEFINE a == t.phases["TOTAL"].start
    <3> DEFINE b == t.phases["TOTAL"].end
    <3> DEFINE s == t.phases[p].start
    <3> DEFINE e == t.phases[p].end
    <3> DEFINE X == Elsewhere(t, p)
    <3>1. /\ a \in Nat /\ b \in Nat /\ a <= b /\ total = b - a
          /\ s \in Nat /\ e \in Nat /\ a <= s /\ e <= b
          /\ d = IF e >= s THEN e - s ELSE 0
          /\ \A n \in X : n < s \/ n >= e
      BY <2>1, <2>5 DEF StandsAlone, Natural, Dur
    <3>2. X \in SUBSET (a..(b - 1))
      BY DEF Elsewhere
    <3> HIDE DEF a, b, s, e, X, total, d
    <3>3. CASE s <= e
      <4>1. Cardinality(X) \in Nat /\ Cardinality(X) + (e - s) <= b - a
        BY <3>1, <3>2, <3>3, OutsideCount
      <4> QED
        BY <3>1, <3>3, <4>1 DEF X
    <3>4. CASE ~(s <= e)
      <4>1. a <= a /\ \A n \in X : n < a \/ n >= a
        BY <3>1, <3>2
      <4>2. Cardinality(X) \in Nat /\ Cardinality(X) + (a - a) <= b - a
        BY <3>1, <3>2, <4>1, OutsideCount
      <4> QED
        BY <3>1, <3>4, <4>2 DEF X
    <3> QED
      BY <3>3, <3>4
  <2> HIDE DEF total, d, saved
  <2> QED
    BY <2>2, <2>3, <2>4, <2>5 DEF p, d
<1> QED
  BY <1>1, TraceInvariant, PTL

-----------------------------------------------------------------------------
(* Percentiles *)

\* The sort of percentile_of.
ByValue(s) == Sorted(s, LAMBDA a, b : a < b)
PlaceByValue(v, o) == Cardinality({i \in 1..Len(v) : ~(o < v[i])})

LEMMA PlaceByValueFacts ==
  ASSUME NEW S, NEW v \in Seq(S), NEW o
  PROVE  PlaceByValue(v, o) \in 0..Len(v)
BY SomePlace DEF PlaceByValue

LEMMA ByValueSteps ==
  ASSUME NEW S, NEW s \in Seq(S)
  PROVE  \E P : /\ P[0] = <<>>
                /\ \A i \in 1..Len(s) :
                     P[i] = Inserted(P[i - 1], s[i], PlaceByValue(P[i - 1], s[i]))
                /\ ByValue(s) = P[Len(s)]
<1> DEFINE n == Len(s)
<1> DEFINE Step(t, o) == Inserted(t, o, PlaceByValue(t, o))
<1> DEFINE F == [x \in Seq(S) \X (1..n) |-> Step(x[1], s[x[2]])]
<1> DEFINE Body(h) == [I \in SUBSET DOMAIN s |->
                         IF I = {} THEN <<>> ELSE Step(h[I \ {Max(I)}], s[Max(I)])]
<1> DEFINE Iter == CHOOSE h : h = Body(h)
<1>1. ByValue(s) = Iter[DOMAIN s]
  BY DEF ByValue, Sorted, FoldLeft, MapThenFoldSet, Inserted, PlaceByValue
<1> HIDE DEF Step
<1>2. n \in Nat /\ DOMAIN s = 1..n /\ \A i \in 1..n : s[i] \in S
  BY LenProperties, ElementOfSeq
<1> HIDE DEF n
<1>3. \A t \in Seq(S) : \A i \in 1..n : F[<<t, i>>] = Step(t, s[i]) /\ F[<<t, i>>] \in Seq(S)
  <2>1. ASSUME NEW t \in Seq(S), NEW i \in 1..n PROVE Step(t, s[i]) \in Seq(S)
    BY <1>2, PlaceByValueFacts, InsertFacts DEF Step
  <2> QED
    BY <2>1
<1> HIDE DEF F
<1>4. PICK g : IsFoldOf(g, F, <<>>, Seq(S), n)
  <2>1. IsStep(F, Seq(S), n) /\ <<>> \in Seq(S)
    BY <1>3 DEF IsStep
  <2> QED
    BY <1>2, <2>1, FoldExists
<1>5. \A I \in SUBSET (1..n) : I # {} => Max(I) \in 1..n
  BY <1>2, MaxFacts
<1>6. g = Body(g)
  <2>1. ASSUME NEW I \in SUBSET (1..n)
        PROVE  g[I] = IF I = {} THEN <<>> ELSE Step(g[I \ {Max(I)}], s[Max(I)])
    BY <1>3, <1>4, <1>5 DEF IsFoldOf
  <2> QED
    BY <1>2, <1>4, <2>1 DEF IsFoldOf
<1>7. Iter = Body(Iter)
  <2> HIDE DEF Body
  <2> QED
    BY <1>6
<1> HIDE DEF Iter
<1>8. Iter[{}] = <<>>
  BY <1>7
<1>9. ASSUME NEW i \in 1..n PROVE Iter[1..i] = Step(Iter[1..(i - 1)], s[i])
  <2>1. 1..i \in SUBSET (1..n) /\ 1..i # {} /\ Max(1..i) = i /\ (1..i) \ {i} = 1..(i - 1)
    BY <1>2, IntervalFacts
  <2> QED
    BY <1>2, <1>7, <2>1
<1> DEFINE P == [i \in 0..n |-> Iter[1..i]]
<1>10. P[0] = <<>> /\ P[n] = Iter[1..n] /\ \A i \in 1..n : P[i] = Step(P[i - 1], s[i])
  <2>1. 1..0 = {} /\ 0 \in 0..n /\ n \in 0..n /\ \A i \in 1..n : i \in 0..n /\ i - 1 \in 0..n
    BY <1>2
  <2> QED
    BY <1>8, <1>9, <2>1
<1> QED
  BY <1>1, <1>2, <1>10 DEF Step, n

Rising(v) == \A i, j \in 1..Len(v) : i <= j => v[i] <= v[j]

LEMMA InsertRising ==
  ASSUME NEW v \in Seq(Nat), Rising(v), NEW o \in Nat
  PROVE  Rising(Inserted(v, o, PlaceByValue(v, o)))
<1> DEFINE n == PlaceByValue(v, o)
<1> DEFINE w == Inserted(v, o, n)
<1> DEFINE I == {i \in 1..Len(v) : ~(o < v[i])}
<1>1. Len(v) \in Nat /\ \A i \in 1..Len(v) : v[i] \in Nat
  BY ElementOfSeq
<1>2. ASSUME NEW i \in I, NEW j \in 1..Len(v), j < i PROVE j \in I
  <2>1. i \in 1..Len(v) /\ v[i] <= o /\ v[i] \in Nat /\ v[j] \in Nat
    BY <1>1
  <2>2. v[j] <= v[i]
    BY <1>2, <2>1 DEF Rising
  <2>3. ~(o < v[j])
    BY <2>1, <2>2
  <2> QED
    BY <2>3
<1>3. I = 1..n
  <2>1. n = Cardinality(I)
    BY DEF PlaceByValue
  <2>2. I \in SUBSET (1..Len(v)) /\ \A i \in I : \A j \in 1..Len(v) : j < i => j \in I
    BY <1>2
  <2> HIDE DEF I, n
  <2> QED
    BY <1>1, <2>1, <2>2, InitialPart
<1>4. n \in 0..Len(v)
  BY PlaceByValueFacts
<1>5. \A i \in 1..n : i \in 1..Len(v) /\ v[i] <= o
  BY <1>1, <1>3
<1>6. \A i \in 1..Len(v) : i > n => o <= v[i]
  <2>1. ASSUME NEW i \in 1..Len(v), i > n PROVE o <= v[i]
    <3>1. i \notin 1..n /\ v[i] \in Nat
      BY <1>1, <1>4, <2>1
    <3>2. i \notin I
      BY <1>3, <3>1
    <3> QED
      BY <3>1, <3>2
  <2> QED
    BY <2>1
<1> HIDE DEF n, I
<1>7. /\ Len(w) = Len(v) + 1
      /\ \A i \in 1..(Len(v) + 1) :
           w[i] = IF i <= n THEN v[i] ELSE IF i = n + 1 THEN o ELSE v[i - 1]
  <2>1. PICK S : S = Nat
    OBVIOUS
  <2>2. v \in Seq(S) /\ o \in S
    BY <2>1
  <2> QED
    BY <1>4, <2>2, InsertFacts
<1> HIDE DEF w
<1>8. \A i \in 1..(Len(v) + 1) : /\ i <= n => i \in 1..n /\ w[i] = v[i]
                                 /\ i = n + 1 => w[i] = o
                                 /\ i > n + 1 => i - 1 \in 1..Len(v) /\ i - 1 > n /\ w[i] = v[i - 1]
  BY <1>1, <1>4, <1>7
<1>9. ASSUME NEW i \in 1..(Len(v) + 1), NEW j \in 1..(Len(v) + 1), i <= j
      PROVE  w[i] <= w[j]
  <2>1. CASE i <= n /\ j <= n
    <3>1. i \in 1..Len(v) /\ j \in 1..Len(v) /\ w[i] = v[i] /\ w[j] = v[j]
      BY <1>5, <1>8, <2>1
    <3> QED
      BY <1>9, <3>1 DEF Rising
  <2>2. CASE i <= n /\ j = n + 1
    BY <1>5, <1>8, <2>2
  <2>3. CASE i <= n /\ j > n + 1
    <3>1. i \in 1..Len(v) /\ j - 1 \in 1..Len(v) /\ w[i] = v[i] /\ w[j] = v[j - 1]
      BY <1>5, <1>8, <2>3
    <3>2. i <= j - 1
      BY <1>4, <2>3
    <3> QED
      BY <3>1, <3>2 DEF Rising
  <2>4. CASE i = n + 1 /\ j > n + 1
    BY <1>6, <1>8, <2>4
  <2>5. CASE i > n + 1 /\ j > n + 1
    <3>1. i - 1 \in 1..Len(v) /\ j - 1 \in 1..Len(v) /\ w[i] = v[i - 1] /\ w[j] = v[j - 1]
      BY <1>8, <2>5
    <3>2. i - 1 <= j - 1
      BY <1>9
    <3> QED
      BY <3>1, <3>2 DEF Rising
  <2>6. CASE i = n + 1 /\ j = n + 1
    BY <1>8, <2>6
  <2>7. ~(i = n + 1 /\ j <= n) /\ ~(i > n + 1 /\ j <= n) /\ ~(i > n + 1 /\ j = n + 1)
    BY <1>4, <1>9
  <2>8. (i <= n \/ i = n + 1 \/ i > n + 1) /\ (j <= n \/ j = n + 1 \/ j > n + 1)
    BY <1>1, <1>4
  <2> QED
    BY <2>1, <2>2, <2>3, <2>4, <2>5, <2>6, <2>7, <2>8
<1> QED
  BY <1>7, <1>9 DEF Rising, w, n

\* The sort returns the values in rising order.
LEMMA ByValueSorts ==
  ASSUME NEW s \in Seq(Nat)
  PROVE  ByValue(s) \in Seq(Nat) /\ IsPermutation(ByValue(s), s, Len(s)) /\ Rising(ByValue(s))
<1>1. PICK P : /\ P[0] = <<>>
               /\ \A i \in 1..Len(s) :
                    P[i] = Inserted(P[i - 1], s[i], PlaceByValue(P[i - 1], s[i]))
               /\ ByValue(s) = P[Len(s)]
  BY ByValueSteps
<1> DEFINE Good(i) == P[i] \in Seq(Nat) /\ IsPermutation(P[i], s, i) /\ Rising(P[i])
<1> DEFINE T == {i \in Nat : i <= Len(s) => Good(i)}
<1>2. 0 \in T
  <2>1. <<>> \in Seq(Nat) /\ IsPermutation(<<>>, s, 0)
    BY EmptyPermutation
  <2>2. Rising(<<>>)
    BY DEF Rising
  <2> QED
    BY <1>1, <2>1, <2>2
<1>3. ASSUME NEW i \in Nat, i \in T PROVE i + 1 \in T
  <2>1. ASSUME i + 1 <= Len(s) PROVE Good(i + 1)
    <3>1. i + 1 \in 1..Len(s) /\ (i + 1) - 1 = i /\ i <= Len(s)
      BY <2>1
    <3>2. P[i] \in Seq(Nat) /\ IsPermutation(P[i], s, i) /\ Rising(P[i])
      BY <1>3, <3>1
    <3>3. PICK o \in Nat : o = s[i + 1]
      BY <3>1, ElementOfSeq
    <3>4. P[i + 1] = Inserted(P[i], s[i + 1], PlaceByValue(P[i], s[i + 1]))
      BY <1>1, <3>1
    <3>5. PlaceByValue(P[i], s[i + 1]) \in 0..Len(P[i])
      BY <3>2, PlaceByValueFacts
    <3>6. P[i + 1] \in Seq(Nat) /\ IsPermutation(P[i + 1], s, i + 1)
      BY <3>1, <3>2, <3>4, <3>5, InsertStep
    <3>7. Rising(Inserted(P[i], o, PlaceByValue(P[i], o)))
      BY <3>2, InsertRising
    <3> QED
      BY <3>3, <3>4, <3>6, <3>7
  <2> QED
    BY <2>1
<1>4. Nat \subseteq T
  <2> HIDE DEF T
  <2> QED
    BY <1>2, <1>3, SetInduction
<1>5. Len(s) \in T
  BY <1>4
<1> QED
  BY <1>1, <1>5

\* How many of the first n values of s are not above x, and how many below it.
AtMost(s, n, x) == Cardinality({i \in 1..n : s[i] <= x})
Below(s, n, x) == Cardinality({i \in 1..n : s[i] < x})

\* The r-th smallest of some values is one of them; r or more are not above
\* it, and fewer than r are below it.
IsRanked(x, s, n, r) ==
  /\ x \in Nat /\ x \in ToSet(s)
  /\ AtMost(s, n, x) \in Nat /\ AtMost(s, n, x) >= r
  /\ Below(s, n, x) \in Nat /\ Below(s, n, x) <= r - 1

LEMMA RankCounts ==
  ASSUME NEW s \in Seq(Nat), NEW n \in Nat, n = Len(s), NEW r \in 1..n
  PROVE  IsRanked(ByValue(s)[r], s, n, r)
<1> DEFINE w == ByValue(s)
<1> DEFINE x == w[r]
<1> DEFINE M == {i \in 1..n : s[i] <= x}
<1> DEFINE B == {i \in 1..n : s[i] < x}
<1>1. w \in Seq(Nat) /\ IsPermutation(w, s, n) /\ Rising(w)
  BY ByValueSorts
<1> HIDE DEF w
<1>2. PICK p : Len(w) = n /\ Shuffles(p, n) /\ \A i \in 1..n : w[i] = s[p[i]]
  BY <1>1 DEF IsPermutation
<1>3. /\ p \in [1..n -> 1..n]
      /\ \A i, j \in 1..n : p[i] = p[j] => i = j
      /\ \A j \in 1..n : \E i \in 1..n : p[i] = j
  BY <1>2 DEF Shuffles
<1>4. /\ DOMAIN s = 1..n
      /\ \A i \in 1..n : s[i] \in Nat /\ w[i] \in Nat
  BY <1>1, <1>2, ElementOfSeq, LenProperties
<1>5. x \in Nat /\ x \in ToSet(s)
  <2>1. p[r] \in 1..n
    BY <1>3
  <2>2. x \in Nat /\ x = s[p[r]]
    BY <1>2, <1>4
  <2>3. ToSet(s) = {s[i] : i \in 1..n}
    BY <1>4 DEF ToSet
  <2> HIDE DEF x
  <2> QED
    BY <2>1, <2>2, <2>3
<1> HIDE DEF x
<1>6. IsFiniteSet(M) /\ IsFiniteSet(B) /\ Cardinality(M) \in Nat /\ Cardinality(B) \in Nat
  <2>1. IsFiniteSet(1..n)
    BY FirstNumbers
  <2>2. M \in SUBSET (1..n) /\ B \in SUBSET (1..n)
    OBVIOUS
  <2>3. IsFiniteSet(M) /\ IsFiniteSet(B)
    BY <2>1, <2>2, FS_Subset
  <2> QED
    BY <2>3, FS_CardinalityType
<1>7. Cardinality(M) >= r
  <2> DEFINE f == [i \in 1..r |-> p[i]]
  <2>1. \A i \in 1..r : i \in 1..n /\ i <= r
    OBVIOUS
  <2>2. \A i \in 1..r : p[i] \in M
    <3>1. ASSUME NEW i \in 1..r PROVE p[i] \in M
      <4>1. i \in 1..n /\ w[i] <= w[r]
        BY <1>1, <1>2, <2>1 DEF Rising
      <4> QED
        BY <1>2, <1>3, <4>1 DEF x
    <3> QED
      BY <3>1
  <2>3. f \in Injection(1..r, M)
    <3>1. f \in [1..r -> M]
      BY <2>2
    <3>2. \A i, j \in 1..r : f[i] = f[j] => i = j
      BY <1>3, <2>1
    <3> HIDE DEF f
    <3> QED
      BY <3>1, <3>2 DEF Injection, IsInjective
  <2> HIDE DEF f, M
  <2>4. Cardinality(1..r) <= Cardinality(M)
    BY <1>6, <2>3, FS_Injection
  <2>5. Cardinality(1..r) = r
    <3>1. 1 \in Int /\ r \in Int /\ r >= 1
      OBVIOUS
    <3> QED
      BY <3>1, FS_Interval
  <2> QED
    BY <1>6, <2>4, <2>5
<1>8. Cardinality(B) <= r - 1
  <2> DEFINE g == [i \in B |-> CHOOSE j \in 1..n : p[j] = i]
  <2>1. ASSUME NEW i \in B PROVE g[i] \in 1..(r - 1) /\ p[g[i]] = i
    <3>1. i \in 1..n /\ s[i] < w[r]
      BY DEF x
    <3>2. g[i] \in 1..n /\ p[g[i]] = i
      BY <1>3, <3>1
    <3> HIDE DEF g
    <3>3. ~(r <= g[i])
      <4>1. w[g[i]] = s[i]
        BY <1>2, <3>2
      <4>2. r <= g[i] => w[r] <= w[g[i]]
        BY <1>1, <1>2, <3>2 DEF Rising
      <4> QED
        BY <1>4, <3>1, <4>1, <4>2
    <3> QED
      BY <3>2, <3>3
  <2>2. g \in Injection(B, 1..(r - 1))
    <3>1. g \in [B -> 1..(r - 1)]
      <4>1. g = [i \in B |-> g[i]]
        OBVIOUS
      <4> HIDE DEF g
      <4> QED
        BY <2>1, <4>1
    <3>2. \A i, j \in B : g[i] = g[j] => i = j
      <4> HIDE DEF g
      <4> QED
        BY <2>1
    <3> HIDE DEF g
    <3> QED
      BY <3>1, <3>2 DEF Injection, IsInjective
  <2> HIDE DEF g, B
  <2>3. IsFiniteSet(1..(r - 1)) /\ Cardinality(1..(r - 1)) = r - 1
    <3>1. 1 \in Int /\ r - 1 \in Int
      OBVIOUS
    <3>2. IsFiniteSet(1..(r - 1)) /\ Cardinality(1..(r - 1)) = IF 1 > r - 1 THEN 0 ELSE r - 1 - 1 + 1
      BY <3>1, FS_Interval
    <3> QED
      BY <3>2
  <2> QED
    BY <2>2, <2>3, FS_Injection
<1> QED
  BY <1>5, <1>6, <1>7, <1>8 DEF IsRanked, AtMost, Below, x, w

\* The rank percentile_of takes: no less than p% of the values, and no more
\* than one rank above, but for the rounding of the product.
IsRank(r, p, n) ==
  /\ r \in 1..n
  /\ 1000 * r >= p * n
  /\ r = 1 \/ 1000 * (r - 1) < p * n \/ (RoundedUp(p, n) /\ 1000 * (r - 2) < p * n)

\* A percentage in tenths.
PerMille == 0..1000

LEMMA RankFacts ==
  ASSUME NEW n \in Nat, n # 0, NEW p \in PerMille
  PROVE  IsRank(Rank(p, n), p, n)
<1> USE DEF IsRank
<1> DEFINE x == p * n
<1>1. x \in Nat /\ x <= 1000 * n
  <2>1. p \in Nat /\ p <= 1000
    BY DEF PerMille
  <2>2. p * n \in Nat
    BY <2>1
  <2>3. p * n <= 1000 * n
    BY <2>1
  <2> QED
    BY <2>2, <2>3
<1> DEFINE c == (x + 999) \div 1000
<1> HIDE DEF x
<1>2. c \in Nat /\ 1000 * c >= x /\ 1000 * (c - 1) < x /\ c <= n
  BY <1>1
<1>3. Rank(p, n) = LET r == IF RoundedUp(p, n) THEN c + 1 ELSE c
                   IN  IF r < 1 THEN 1 ELSE IF r > n THEN n ELSE r
  BY DEF Rank, x
<1> HIDE DEF c
<1>4. CASE RoundedUp(p, n)
  <2>1. Rank(p, n) = IF c + 1 > n THEN n ELSE c + 1
    BY <1>2, <1>3, <1>4
  <2> QED
    BY <1>1, <1>2, <1>4, <2>1 DEF x
<1>5. CASE ~RoundedUp(p, n)
  <2>1. Rank(p, n) = IF c < 1 THEN 1 ELSE c
    BY <1>2, <1>3, <1>5
  <2> QED
    BY <1>1, <1>2, <2>1 DEF x
<1> QED
  BY <1>4, <1>5

-----------------------------------------------------------------------------
(* The fleet *)

FleetInv == pool \in Pools /\ peers \in Fleets[pool]

LEMMA FleetInvariant == TailSpec => []FleetInv
<1>1. TailInit => FleetInv
  BY DEF TailInit, TraceInit, FleetInv
<1>2. ASSUME FleetInv, [TailNext]_tailvars PROVE FleetInv'
  BY <1>2 DEF FleetInv, TailNext, TraceNext, Arrive, tailvars
<1> QED
  BY <1>1, <1>2, PTL DEF TailSpec

\* The requests of the fleet: the peers and the one that is arriving.
FleetTraces == {peers[i] : i \in 1..Len(peers)} \cup {Reconstruct(arrived)}

LEMMA FleetElements ==
  ASSUME TraceInv, FleetInv
  PROVE  /\ Fleet \in Seq(FleetTraces)
         /\ Len(Fleet) \in Nat /\ DOMAIN Fleet = 1..Len(Fleet)
         /\ \A i \in 1..Len(Fleet) : Fleet[i] \in FleetTraces
<1> DEFINE r == Reconstruct(arrived)
<1> DEFINE last == IF arrived = <<>> THEN <<>> ELSE <<r>>
<1>1. Len(peers) \in Nat /\ peers = [i \in 1..Len(peers) |-> peers[i]]
  BY FleetsAssumption DEF FleetInv
<1>2. r \in FleetTraces /\ \A i \in 1..Len(peers) : peers[i] \in FleetTraces
  BY DEF FleetTraces
<1>3. [i \in 1..Len(peers) |-> peers[i]] \in Seq(FleetTraces)
  BY <1>1, <1>2, IsASeq
<1>4. last \in Seq(FleetTraces)
  <2> HIDE DEF r
  <2> QED
    BY <1>2
<1>5. Fleet = peers \o last
  BY DEF Fleet
<1> HIDE DEF last
<1>6. Fleet \in Seq(FleetTraces)
  BY <1>1, <1>3, <1>4, <1>5, ConcatProperties
<1> QED
  BY <1>6, LenProperties, ElementOfSeq

\* The latencies of the fleet are numbers, and its evidence is finite.
LEMMA FleetLatencies ==
  ASSUME TraceInv, FleetInv
  PROVE  /\ Len(Fleet) \in Nat /\ DOMAIN Fleet = 1..Len(Fleet)
         /\ Latencies(Fleet) = [i \in 1..Len(Fleet) |-> LatencyOf(Fleet[i])]
         /\ \A i \in 1..Len(Fleet) :
              LatencyOf(Fleet[i]) \in Nat /\ IsFiniteSet(DOMAIN Fleet[i].evidence)
         /\ Latencies(Fleet) \in Seq(Nat) /\ Len(Latencies(Fleet)) = Len(Fleet)
<1> DEFINE r == Reconstruct(arrived)
<1>1. /\ Len(peers) \in Nat
      /\ \A i \in 1..Len(peers) :
           LatencyOf(peers[i]) \in Nat /\ IsFiniteSet(DOMAIN peers[i].evidence)
  BY FleetsAssumption DEF FleetInv
<1>2. LatencyOf(r) \in Nat /\ IsFiniteSet(DOMAIN r.evidence)
  <2>1. "TOTAL" \in DOMAIN r.phases =>
          Natural(r, "TOTAL") /\ r.phases["TOTAL"].start <= r.phases["TOTAL"].end
    BY NaturalPhases
  <2>2. IsFiniteSet(DOMAIN r.evidence)
    <3>1. r.evidence = Timeline(arrived)
      BY DEF Reconstruct
    <3>2. Timeline(arrived) \in Seq(pool)
      BY ArrivedTimeline DEF IsTimeline
    <3> HIDE DEF r
    <3>3. DOMAIN r.evidence = 1..Len(r.evidence) /\ Len(r.evidence) \in Nat
      BY <3>1, <3>2, LenProperties
    <3> QED
      <4>1. IsFiniteSet(1..Len(r.evidence))
        BY <3>3, FirstNumbers
      <4> QED
        BY <3>3, <4>1
  <2> HIDE DEF r
  <2>3. LatencyOf(r) \in Nat
    BY <2>1 DEF LatencyOf, Dur, Natural
  <2> QED
    BY <2>2, <2>3
<1> HIDE DEF r
<1>3. \A x \in FleetTraces : LatencyOf(x) \in Nat /\ IsFiniteSet(DOMAIN x.evidence)
  BY <1>1, <1>2 DEF FleetTraces, r
<1>4. Len(Fleet) \in Nat /\ DOMAIN Fleet = 1..Len(Fleet) /\ \A i \in 1..Len(Fleet) : Fleet[i] \in FleetTraces
  BY FleetElements
<1>5. \A i \in 1..Len(Fleet) :
        LatencyOf(Fleet[i]) \in Nat /\ IsFiniteSet(DOMAIN Fleet[i].evidence)
  BY <1>3, <1>4
<1>6. Latencies(Fleet) = [i \in 1..Len(Fleet) |-> LatencyOf(Fleet[i])]
  BY <1>4 DEF Latencies
<1> HIDE DEF Fleet, LatencyOf
<1>7. Latencies(Fleet) \in Seq(Nat)
  BY <1>4, <1>5, <1>6, IsASeq
<1>8. Len(Latencies(Fleet)) = Len(Fleet)
  <2>1. /\ DOMAIN Latencies(Fleet) = 1..Len(Fleet)
        /\ DOMAIN Latencies(Fleet) = 1..Len(Latencies(Fleet))
    BY <1>6, <1>7, LenProperties
  <2>2. Len(Latencies(Fleet)) \in Nat
    BY <1>7
  <2> QED
    BY <1>4, <2>1, <2>2
<1> QED
  BY <1>4, <1>5, <1>6, <1>7, <1>8

\* What percentile_of returns for n values and a percentage in tenths.
IsPercentile(v, s, n, p) ==
  /\ v \in Nat /\ v \in ToSet(s)
  /\ Below(s, n, v) \in Nat
  /\ 1000 * AtMost(s, n, v) >= p * n
  /\ \/ Below(s, n, v) = 0
     \/ 1000 * Below(s, n, v) < p * n
     \/ RoundedUp(p, n) /\ 1000 * (Below(s, n, v) - 1) < p * n

LEMMA PercentileFacts ==
  ASSUME NEW s \in Seq(Nat), NEW n \in Nat, n = Len(s), n # 0, NEW p \in PerMille
  PROVE  IsPercentile(Percentile(s, p), s, n, p)
<1>0. IsRank(Rank(p, n), p, n)
  BY RankFacts, Zenon
<1>1. PICK r : r = Rank(p, n) /\ IsRank(r, p, n)
  BY <1>0, Zenon
<1>2. PICK v : v = ByValue(s)[r] /\ IsRanked(v, s, n, r)
  <2>1. r \in 1..n
    BY <1>1 DEF IsRank
  <2>2. IsRanked(ByValue(s)[r], s, n, r)
    BY <2>1, RankCounts, Zenon
  <2> QED
    BY <2>2, Zenon
<1>3. Percentile(s, p) = v
  <2>1. s # <<>>
    OBVIOUS
  <2> QED
    BY <1>1, <1>2, <2>1 DEF Percentile, ByValue
<1> DEFINE x == p * n
<1>4. x \in Nat
  <2>1. p \in Nat
    BY DEF PerMille
  <2> QED
    BY <2>1
<1>5. /\ r \in Nat /\ 1000 * r >= x
      /\ r = 1 \/ 1000 * (r - 1) < x \/ (RoundedUp(p, n) /\ 1000 * (r - 2) < x)
  BY <1>1 DEF IsRank
<1> HIDE DEF x
<1>6. 1000 * AtMost(s, n, v) >= x
  BY <1>2, <1>4, <1>5 DEF IsRanked
<1>7. \/ Below(s, n, v) = 0
      \/ 1000 * Below(s, n, v) < x
      \/ RoundedUp(p, n) /\ 1000 * (Below(s, n, v) - 1) < x
  <2> HIDE DEF RoundedUp
  <2> QED
    BY <1>2, <1>4, <1>5 DEF IsRanked
<1> QED
  BY <1>2, <1>3, <1>6, <1>7 DEF IsPercentile, IsRanked, x

LEMMA PercentilesInRange == Percentiles \subseteq PerMille
BY DEF PerMille, Percentiles, Reported

\* Every reported percentile of every fleet is one of its latencies, with at
\* least p% of them at or below it and no smaller one that would do, but for
\* the rounding of the rank; 0% and 100% among them.
THEOREM PercentileRankCorrect == TailSpec => []PercentileRank
<1>1. ASSUME TraceInv, FleetInv PROVE PercentileRank
  <2> DEFINE vals == Latencies(Fleet)
  <2> DEFINE n == Len(vals)
  <2> DEFINE Under(x) == Cardinality({i \in 1..n : vals[i] < x})
  <2> DEFINE NotOver(x) == Cardinality({i \in 1..n : vals[i] <= x})
  <2> SUFFICES ASSUME n > 0, NEW p \in Percentiles
               PROVE  LET v == Percentile(vals, p) IN
                      /\ v \in ToSet(vals)
                      /\ 1000 * NotOver(v) >= p * n
                      /\ \/ Under(v) = 0
                         \/ 1000 * Under(v) < p * n
                         \/ RoundedUp(p, n) /\ 1000 * (Under(v) - 1) < p * n
    BY DEF PercentileRank
  <2>1. vals \in Seq(Nat)
    BY <1>1, FleetLatencies
  <2> HIDE DEF vals
  <2>2. n \in Nat /\ n # 0 /\ p \in PerMille
    BY <2>1, PercentilesInRange
  <2>3. IsPercentile(Percentile(vals, p), vals, n, p)
    BY <2>1, <2>2, PercentileFacts, Zenon
  <2> QED
    BY <2>3 DEF IsPercentile, AtMost, Below
<1> QED
  BY <1>1, TraceInvariant, FleetInvariant, PTL

\* Some position of a sequence of numbers holds a greatest one.
LEMMA SlowestExists ==
  ASSUME NEW n \in Nat, n # 0, NEW f, \A i \in 1..n : f[i] \in Nat
  PROVE  \E i \in 1..n : \A j \in 1..n : f[j] <= f[i]
<1> DEFINE Slowest(k) == \E i \in 1..k : \A j \in 1..k : f[j] <= f[i]
<1> DEFINE T == {k \in Nat : k # 0 /\ k <= n => Slowest(k)}
<1>1. 0 \in T
  OBVIOUS
<1>2. ASSUME NEW k \in Nat, k \in T PROVE k + 1 \in T
  <2>1. ASSUME k + 1 <= n PROVE Slowest(k + 1)
    <3>1. k + 1 \in 1..n /\ k + 1 \in 1..(k + 1) /\ f[k + 1] \in Nat
      BY <2>1
    <3>2. \A j \in 1..(k + 1) : j \in 1..k \/ j = k + 1
      OBVIOUS
    <3>3. CASE k = 0
      BY <3>1, <3>2, <3>3
    <3>4. CASE k # 0
      <4>1. PICK i \in 1..k : \A j \in 1..k : f[j] <= f[i]
        BY <1>2, <2>1, <3>4
      <4>2. \A j \in 1..k : j \in 1..n /\ j \in 1..(k + 1) /\ f[j] \in Nat
        BY <2>1
      <4>3. CASE f[i] <= f[k + 1]
        <5>1. \A j \in 1..(k + 1) : f[j] <= f[k + 1]
          BY <3>1, <3>2, <4>1, <4>2, <4>3
        <5> QED
          BY <3>1, <5>1
      <4>4. CASE f[k + 1] <= f[i]
        <5>1. \A j \in 1..(k + 1) : f[j] <= f[i]
          BY <3>2, <4>1, <4>4
        <5> QED
          BY <4>2, <5>1
      <4>5. f[i] <= f[k + 1] \/ f[k + 1] <= f[i]
        BY <3>1, <4>2
      <4> QED
        BY <4>3, <4>4, <4>5
    <3> QED
      BY <3>3, <3>4
  <2> HIDE DEF Slowest
  <2> QED
    BY <2>1
<1>3. Nat \subseteq T
  <2> HIDE DEF T
  <2> QED
    BY <1>1, <1>2, SetInduction
<1>4. Slowest(n)
  <2> HIDE DEF Slowest
  <2> QED
    BY <1>3
<1> QED
  BY <1>4

\* The tail of every fleet has its slowest request, holds every request as
\* slow as one of its own, and leaves outside no more than the percentile
\* says, but for the rounding of the rank.
THEOREM TailSeparatesCorrect == TailSpec => []TailSeparates
<1>1. ASSUME TraceInv, FleetInv PROVE TailSeparates
  <2> DEFINE ts == Fleet
  <2> DEFINE n == Len(ts)
  <2> DEFINE vals == Latencies(ts)
  <2>1. /\ n \in Nat /\ DOMAIN ts = 1..n
        /\ vals = [i \in 1..n |-> LatencyOf(ts[i])]
        /\ \A i \in 1..n : LatencyOf(ts[i]) \in Nat
        /\ vals \in Seq(Nat) /\ Len(vals) = n
    BY <1>1, FleetLatencies
  <2> SUFFICES ASSUME n > 0, NEW p \in Percentiles
               PROVE  LET tail == TailOf(ts, p)
                          out == DOMAIN ts \ tail
                      IN  /\ \E i \in tail : \A j \in DOMAIN ts : LatencyOf(ts[j]) <= LatencyOf(ts[i])
                          /\ \A i \in tail, j \in out : LatencyOf(ts[j]) < LatencyOf(ts[i])
                          /\ 1000 * (Cardinality(out) - (IF RoundedUp(p, n) THEN 1 ELSE 0)) <= p * n
    BY DEF TailSeparates
  <2> DEFINE v == Percentile(vals, p)
  <2> DEFINE below == Below(vals, n, v)
  <2> DEFINE x == p * n
  <2> HIDE DEF ts, LatencyOf
  <2>2. /\ v \in Nat /\ v \in ToSet(vals) /\ below \in Nat
        /\ \/ below = 0
           \/ 1000 * below < x
           \/ RoundedUp(p, n) /\ 1000 * (below - 1) < x
    <3>1. p \in PerMille /\ n # 0
      BY <2>1, PercentilesInRange
    <3> HIDE DEF n, vals
    <3>2. IsPercentile(v, vals, n, p)
      BY <2>1, <3>1, PercentileFacts, Zenon
    <3> QED
      BY <3>2 DEF IsPercentile
  <2>3. x \in Nat
    <3>1. p \in Nat
      BY PercentilesInRange DEF PerMille
    <3> QED
      BY <2>1, <3>1
  <2> DEFINE tail == TailOf(ts, p)
  <2> DEFINE out == DOMAIN ts \ tail
  <2>4. \A i : i \in tail <=> i \in 1..n /\ LatencyOf(ts[i]) >= v
    BY <2>1 DEF TailOf
  <2>5. out = {i \in 1..n : vals[i] < v}
    <3>1. \A i \in 1..n : vals[i] = LatencyOf(ts[i])
      BY <2>1
    <3> HIDE DEF v, tail, vals, n
    <3> QED
      BY <2>1, <2>2, <2>4, <3>1
  <2> HIDE DEF v, tail, n
  <2>6. \A i \in tail, j \in out : LatencyOf(ts[j]) < LatencyOf(ts[i])
    BY <2>1, <2>2, <2>4
  <2>7. \E i \in tail : \A j \in DOMAIN ts : LatencyOf(ts[j]) <= LatencyOf(ts[i])
    <3>1. n # 0
      BY <2>1
    <3>2. PICK i \in 1..n : \A j \in 1..n : LatencyOf(ts[j]) <= LatencyOf(ts[i])
      <4>1. \A i \in 1..n : vals[i] = LatencyOf(ts[i]) /\ vals[i] \in Nat
        BY <2>1
      <4> HIDE DEF vals
      <4>2. PICK i \in 1..n : \A j \in 1..n : vals[j] <= vals[i]
        BY <2>1, <3>1, <4>1, SlowestExists
      <4> QED
        BY <4>1, <4>2
    <3>3. PICK k \in 1..n : v = LatencyOf(ts[k])
      <4>1. DOMAIN vals = 1..n
        BY <2>1
      <4>2. PICK k \in 1..n : v = vals[k]
        BY <2>2, <4>1 DEF ToSet
      <4> QED
        BY <2>1, <4>2
    <3>4. i \in tail
      BY <2>1, <2>4, <3>2, <3>3
    <3> QED
      BY <2>1, <3>2, <3>4
  <2>8. 1000 * (Cardinality(out) - (IF RoundedUp(p, n) THEN 1 ELSE 0)) <= x
    <3>1. Cardinality(out) = below
      BY <2>5 DEF Below
    <3> HIDE DEF below, x, out, RoundedUp
    <3> QED
      BY <2>2, <2>3, <3>1
  <2> QED
    BY <2>6, <2>7, <2>8 DEF tail, n
<1> QED
  BY <1>1, TraceInvariant, FleetInvariant, PTL

-----------------------------------------------------------------------------
(* Tallies of many requests *)

\* The numbers of evidence are naturals.
NaturalNumbers(o) == \A k \in DOMAIN o.fields : o.fields[k].num \in Nat

NaturalFields ==
  \A S \in Pools :
    /\ \A o \in S : NaturalNumbers(o)
    /\ \A ts \in Fleets[S] : \A i \in 1..Len(ts) :
         \A n \in DOMAIN ts[i].evidence : NaturalNumbers(ts[i].evidence[n])

LEMMA FieldFacts ==
  ASSUME NEW o, NaturalNumbers(o), NEW k, NEW d \in Nat
  PROVE  U64Field(o, k, d) \in Nat /\ F64Field(o, k, d) \in Nat
BY DEF NaturalNumbers, U64Field, F64Field, Reads

LEMMA SumIsNatural ==
  ASSUME NEW S, IsFiniteSet(S), NEW f, \A x \in S : f[x] \in Nat
  PROVE  SumFunctionOnSet(f, S) \in Nat
BY SumFacts

\* Some of the terms of a sum, as a function of their own.
LEMMA SumOfTerms ==
  ASSUME NEW I, IsFiniteSet(I), NEW f, \A i \in I : f[i] \in Nat, NEW S \in SUBSET I
  PROVE  /\ SumFunction([i \in S |-> f[i]]) = SumFunctionOnSet(f, S)
         /\ SumFunctionOnSet(f, S) \in Nat
<1> DEFINE g == [i \in S |-> f[i]]
<1>1. IsFiniteSet(S) /\ DOMAIN g = S /\ \A i \in S : f[i] \in Nat /\ g[i] = f[i]
  BY FS_Subset
<1>2. SumFunction(g) = SumFunctionOnSet(g, S)
  BY <1>1 DEF SumFunction
<1> HIDE DEF g
<1>3. SumFunctionOnSet(g, S) = SumFunctionOnSet(f, S)
  BY <1>1, SumSame
<1>4. SumFunctionOnSet(f, S) \in Nat
  BY <1>1, SumFacts
<1> QED
  BY <1>2, <1>3, <1>4 DEF g

\* a and b have the first i values of f and the others.
AreParts(a, b, f, i, n) ==
  (\A j \in 1..i : a[j] = f[j]) /\ (\A j \in 1..(n - i) : b[j] = f[i + j])

\* A sum over 1..n is a sum over 1..i and one over what is left, wherever
\* that is numbered from 1 again.
LEMMA SumInTwo ==
  ASSUME NEW n \in Nat, NEW i \in 0..n, NEW f, \A j \in 1..n : f[j] \in Nat,
         NEW a, NEW b, AreParts(a, b, f, i, n)
  PROVE  SumFunctionOnSet(a, 1..i) + SumFunctionOnSet(b, 1..(n - i)) = SumFunctionOnSet(f, 1..n)
<1> DEFINE h == [j \in 1..(n - i) |-> i + j]
<1> DEFINE R == (1..n) \ (1..i)
<1>1. /\ n - i \in Nat /\ i \in Nat /\ 1..i \in SUBSET (1..n)
      /\ \A j \in 1..i : a[j] = f[j]
      /\ \A j \in 1..(n - i) : b[j] = f[i + j]
  BY DEF AreParts
<1>2. IsFiniteSet(1..n) /\ IsFiniteSet(1..i) /\ IsFiniteSet(1..(n - i))
  BY <1>1, FirstNumbers
<1>3. SumFunctionOnSet(f, 1..n) = SumFunctionOnSet(f, R) + SumFunctionOnSet(f, 1..i)
  BY <1>1, <1>2, SumSplit
<1>4. SumFunctionOnSet(a, 1..i) = SumFunctionOnSet(f, 1..i)
  BY <1>1, <1>2, SumSame
<1>5. {h[j] : j \in 1..(n - i)} = R
  <2>1. \A j \in 1..(n - i) : h[j] \in R
    BY <1>1
  <2>2. ASSUME NEW k \in R PROVE \E j \in 1..(n - i) : h[j] = k
    <3>1. k - i \in 1..(n - i)
      BY <1>1
    <3>2. h[k - i] = k
      BY <1>1, <3>1
    <3> QED
      BY <3>1, <3>2
  <2> HIDE DEF h
  <2> QED
    BY <2>1, <2>2
<1>6. OneToOne(h, 1..(n - i))
  BY <1>1 DEF OneToOne
<1>7. \A j \in 1..(n - i) : b[j] \in Nat /\ f[h[j]] = b[j]
  <2>1. \A j \in 1..(n - i) : i + j \in 1..n /\ h[j] = i + j
    BY <1>1
  <2> QED
    BY <1>1, <2>1
<1> HIDE DEF h
<1>8. SumFunctionOnSet(f, R) = SumFunctionOnSet(b, 1..(n - i))
  <2>1. SumFunctionOnSet(f, {h[j] : j \in 1..(n - i)}) = SumFunctionOnSet(b, 1..(n - i))
    <3> DEFINE T == 1..(n - i)
    <3>1. IsFiniteSet(T) /\ OneToOne(h, T) /\ \A j \in T : b[j] \in Nat /\ f[h[j]] = b[j]
      BY <1>2, <1>6, <1>7
    <3> HIDE DEF R, T
    <3>2. SumFunctionOnSet(f, {h[j] : j \in T}) = SumFunctionOnSet(b, T)
      BY <3>1, SumImage
    <3> QED
      BY <3>2 DEF T
  <2> QED
    BY <1>5, <2>1
<1>9. SumFunctionOnSet(f, R) \in Nat /\ SumFunctionOnSet(f, 1..i) \in Nat
  <2>1. IsFiniteSet(R) /\ (\A j \in R : f[j] \in Nat) /\ \A j \in 1..i : f[j] \in Nat
    BY <1>1, <1>2, FS_Subset
  <2> HIDE DEF R
  <2> QED
    BY <1>2, <2>1, SumFacts
<1> QED
  BY <1>3, <1>4, <1>8, <1>9

\* How much evidence of some types each request has.
CountAt(ts, types) == [i \in DOMAIN ts |-> Cardinality(Typed(ts[i].evidence, types))]

\* n requests whose latencies and evidence can be added up.
IsTallied(ts, n) ==
  /\ n \in Nat /\ DOMAIN ts = 1..n
  /\ \A i \in 1..n : LatencyOf(ts[i]) \in Nat /\ IsFiniteSet(DOMAIN ts[i].evidence)

LEMMA TermFacts ==
  ASSUME NEW ts, NEW n, IsTallied(ts, n), NEW types
  PROVE  /\ IsFiniteSet(1..n) /\ Cardinality(1..n) = n
         /\ \A i \in 1..n : /\ Latencies(ts)[i] \in Nat /\ Latencies(ts)[i] = LatencyOf(ts[i])
                            /\ CountAt(ts, types)[i] \in Nat
                            /\ CountAt(ts, types)[i] = Cardinality(Typed(ts[i].evidence, types))
<1>1. IsFiniteSet(1..n) /\ Cardinality(1..n) = n
  BY FirstNumbers DEF IsTallied
<1>2. ASSUME NEW i \in 1..n PROVE Cardinality(Typed(ts[i].evidence, types)) \in Nat
  <2>1. Typed(ts[i].evidence, types) \in SUBSET DOMAIN ts[i].evidence
    BY DEF Typed
  <2>2. IsFiniteSet(Typed(ts[i].evidence, types))
    BY <2>1, FS_Subset DEF IsTallied
  <2> QED
    BY <2>2, FS_CardinalityType
<1> HIDE DEF Typed, LatencyOf
<1> QED
  BY <1>1, <1>2 DEF IsTallied, Latencies, CountAt

\* The tallies of some of the requests.
LEMMA PartTallies ==
  ASSUME NEW ts, NEW n, IsTallied(ts, n), NEW S \in SUBSET (1..n), NEW types
  PROVE  /\ SumOf(ts, S, LatencyOf) = SumFunctionOnSet(Latencies(ts), S)
         /\ SumFunctionOnSet(Latencies(ts), S) \in Nat
         /\ SumCounts(ts, S, types) = SumFunctionOnSet(CountAt(ts, types), S)
         /\ SumFunctionOnSet(CountAt(ts, types), S) \in Nat
<1> DEFINE l == Latencies(ts)
<1> DEFINE c == CountAt(ts, types)
<1>1. /\ IsFiniteSet(1..n)
      /\ \A i \in 1..n : /\ l[i] \in Nat /\ l[i] = LatencyOf(ts[i])
                         /\ c[i] \in Nat /\ c[i] = Cardinality(Typed(ts[i].evidence, types))
  BY TermFacts
<1>2. SumOf(ts, S, LatencyOf) = SumFunction([i \in S |-> LatencyOf(ts[i])])
  BY DEF SumOf
<1>3. SumCounts(ts, S, types) = SumFunction([i \in S |-> Cardinality(Typed(ts[i].evidence, types))])
  BY DEF SumCounts, SumOf
<1> HIDE DEF l, c, LatencyOf, Typed
<1>4. [i \in S |-> LatencyOf(ts[i])] = [i \in S |-> l[i]]
  BY <1>1
<1>5. [i \in S |-> Cardinality(Typed(ts[i].evidence, types))] = [i \in S |-> c[i]]
  BY <1>1
<1>6. SumFunction([i \in S |-> l[i]]) = SumFunctionOnSet(l, S) /\ SumFunctionOnSet(l, S) \in Nat
  BY <1>1, SumOfTerms
<1>7. SumFunction([i \in S |-> c[i]]) = SumFunctionOnSet(c, S) /\ SumFunctionOnSet(c, S) \in Nat
  BY <1>1, SumOfTerms
<1> QED
  BY <1>2, <1>3, <1>4, <1>5, <1>6, <1>7 DEF l, c

\* A group of correlate_by, and the time its requests took.
GroupAt(ts, key, k) == {i \in DOMAIN ts : key[i] = k}
LatencyIn(ts, S) == SumOf(ts, S, LatencyOf)

\* The groups of correlate_by, whatever the key, have all requests between them.
LEMMA GroupTallies ==
  ASSUME NEW ts, NEW n, IsTallied(ts, n), NEW key, DOMAIN key = 1..n, NEW types
  PROVE  /\ SumFunction([k \in ToSet(key) |-> Cardinality(GroupAt(ts, key, k))]) = n
         /\ SumFunction([k \in ToSet(key) |-> LatencyIn(ts, GroupAt(ts, key, k))])
              = SumFunctionOnSet(Latencies(ts), 1..n)
         /\ SumFunction([k \in ToSet(key) |-> SumCounts(ts, GroupAt(ts, key, k), types)])
              = SumFunctionOnSet(CountAt(ts, types), 1..n)
<1> DEFINE K == ToSet(key)
<1> DEFINE G(k) == GroupAt(ts, key, k)
<1> DEFINE l == Latencies(ts)
<1> DEFINE c == CountAt(ts, types)
<1> DEFINE one == [i \in 1..n |-> 1]
<1>1. n \in Nat /\ DOMAIN ts = 1..n /\ K = {key[i] : i \in 1..n}
  BY DEF IsTallied, ToSet
<1>2. IsFiniteSet(1..n) /\ Cardinality(1..n) = n
      /\ \A i \in 1..n : l[i] \in Nat /\ c[i] \in Nat /\ one[i] \in Nat
  BY TermFacts
<1>3. \A k : G(k) \in SUBSET (1..n) /\ G(k) = GroupOf(key, 1..n, k)
  BY <1>1 DEF GroupOf, GroupAt
<1>4. ASSUME NEW f, \A i \in 1..n : f[i] \in Nat, NEW sums, DOMAIN sums = K,
             \A k \in K : sums[k] = SumFunctionOnSet(f, G(k))
      PROVE  SumFunction(sums) = SumFunctionOnSet(f, 1..n)
  <2>1. \A k \in K : sums[k] = SumFunctionOnSet(f, GroupOf(key, 1..n, k))
    BY <1>3, <1>4
  <2>2. \A i \in 1..n : key[i] \in K
    BY <1>1
  <2>3. IsFiniteSet(K)
    BY <1>1, <1>2, FiniteImage
  <2> HIDE DEF K, G
  <2>4. AreGroupSums(sums, f, key, 1..n, K)
    BY <2>1, <2>2 DEF AreGroupSums
  <2>5. SumFunctionOnSet(sums, K) = SumFunctionOnSet(f, 1..n)
    <3> DEFINE I == 1..n
    <3>1. IsFiniteSet(I) /\ (\A i \in I : f[i] \in Nat) /\ AreGroupSums(sums, f, key, I, K)
      BY <1>2, <1>4, <2>4
    <3> HIDE DEF I
    <3>2. SumFunctionOnSet(sums, K) = SumFunctionOnSet(f, I)
      BY <2>3, <3>1, SumOfGroups
    <3> QED
      BY <3>2 DEF I
  <2> QED
    BY <1>4, <2>5 DEF SumFunction
<1>5. SumFunction([k \in K |-> Cardinality(G(k))]) = n
  <2> DEFINE sums == [k \in K |-> Cardinality(G(k))]
  <2>1. ASSUME NEW k \in K PROVE sums[k] = SumFunctionOnSet(one, G(k))
    <3>1. IsFiniteSet(G(k)) /\ \A i \in G(k) : one[i] = 1
      BY <1>2, <1>3, FS_Subset
    <3>2. SumFunctionOnSet(one, G(k)) = Cardinality(G(k))
      <4> HIDE DEF one, G
      <4> QED
        BY <3>1, SumOfOnes
    <3> QED
      BY <3>2
  <2>2. SumFunctionOnSet(one, 1..n) = n
    <3>1. \A i \in 1..n : one[i] = 1
      OBVIOUS
    <3> HIDE DEF one
    <3> QED
      BY <1>2, <3>1, SumOfOnes
  <2>3. DOMAIN sums = K
    OBVIOUS
  <2> HIDE DEF sums, K, G, one
  <2>4. SumFunction(sums) = SumFunctionOnSet(one, 1..n)
    BY <1>2, <1>4, <2>1, <2>3
  <2> QED
    BY <2>2, <2>4 DEF sums
<1>6. SumFunction([k \in K |-> LatencyIn(ts, G(k))]) = SumFunctionOnSet(l, 1..n)
  <2> DEFINE sums == [k \in K |-> LatencyIn(ts, G(k))]
  <2>1. \A k \in K : LatencyIn(ts, G(k)) = SumFunctionOnSet(l, G(k))
    <3> HIDE DEF G, l, K
    <3> QED
      BY <1>3, PartTallies DEF l, LatencyIn
  <2>2. DOMAIN sums = K /\ \A k \in K : sums[k] = SumFunctionOnSet(l, G(k))
    <3> HIDE DEF G, l, K
    <3> QED
      BY <2>1
  <2> HIDE DEF sums, K, G, l
  <2>3. SumFunction(sums) = SumFunctionOnSet(l, 1..n)
    BY <1>2, <1>4, <2>2
  <2> QED
    BY <2>3 DEF sums
<1>7. SumFunction([k \in K |-> SumCounts(ts, G(k), types)]) = SumFunctionOnSet(c, 1..n)
  <2> DEFINE sums == [k \in K |-> SumCounts(ts, G(k), types)]
  <2>1. \A k \in K : SumCounts(ts, G(k), types) = SumFunctionOnSet(c, G(k))
    <3> HIDE DEF G, c, K
    <3> QED
      BY <1>3, PartTallies DEF c
  <2>2. DOMAIN sums = K /\ \A k \in K : sums[k] = SumFunctionOnSet(c, G(k))
    <3> HIDE DEF G, c, K
    <3> QED
      BY <2>1
  <2> HIDE DEF sums, K, G, c
  <2>3. SumFunction(sums) = SumFunctionOnSet(c, 1..n)
    BY <1>2, <1>4, <2>2
  <2> QED
    BY <2>3 DEF sums
<1> QED
  BY <1>5, <1>6, <1>7

\* a and b have the first i of n requests and the others.
AreWindows(a, b, ts, i, n) ==
  /\ IsTallied(a, i) /\ \A j \in 1..i : a[j] = ts[j]
  /\ IsTallied(b, n - i) /\ \A j \in 1..(n - i) : b[j] = ts[i + j]
  /\ Len(a) = i /\ Len(b) = n - i

\* The two windows that split the requests anywhere.
LEMMA WindowFacts ==
  ASSUME NEW X, NEW ts \in Seq(X), NEW n, IsTallied(ts, n), NEW i \in 0..n
  PROVE  AreWindows(SubSeq(ts, 1, i), SubSeq(ts, i + 1, Len(ts)), ts, i, n)
<1> DEFINE a == SubSeq(ts, 1, i)
<1> DEFINE b == SubSeq(ts, i + 1, Len(ts))
<1>1. n \in Nat /\ Len(ts) = n /\ DOMAIN ts = 1..n /\ i \in Nat /\ i <= n /\ n - i \in Nat
  <2>1. DOMAIN ts = 1..Len(ts) /\ Len(ts) \in Nat /\ DOMAIN ts = 1..n /\ n \in Nat
    BY LenProperties DEF IsTallied
  <2>2. Cardinality(1..Len(ts)) = Len(ts) /\ Cardinality(1..n) = n
    BY <2>1, FirstNumbers, Zenon
  <2>3. Len(ts) = n
    BY <2>1, <2>2
  <2> QED
    BY <2>1, <2>3
<1>2. /\ a \in Seq(X) /\ Len(a) = i
      /\ \A j \in 1..i : a[j] = ts[j]
  <2>1. \A j \in 1..i : ts[j] \in X
    BY <1>1, ElementOfSeq
  <2>2. /\ a \in Seq(X) /\ Len(a) = IF 1 <= i THEN i - 1 + 1 ELSE 0
        /\ \A j \in 1..(i - 1 + 1) : a[j] = ts[1 + j - 1]
    BY <1>1, <2>1, SubSeqProperties
  <2> HIDE DEF a
  <2> QED
    BY <1>1, <2>2
<1>3. /\ b \in Seq(X) /\ Len(b) = n - i
      /\ \A j \in 1..(n - i) : b[j] = ts[i + j]
  <2>1. \A j \in (i + 1)..Len(ts) : ts[j] \in X
    BY <1>1, ElementOfSeq
  <2>2. /\ b \in Seq(X) /\ Len(b) = IF i + 1 <= Len(ts) THEN Len(ts) - (i + 1) + 1 ELSE 0
        /\ \A j \in 1..(Len(ts) - (i + 1) + 1) : b[j] = ts[i + 1 + j - 1]
    BY <1>1, <2>1, SubSeqProperties
  <2> HIDE DEF b
  <2>3. \A j \in 1..(n - i) : i + 1 + j - 1 = i + j /\ j \in 1..(Len(ts) - (i + 1) + 1)
    BY <1>1
  <2> QED
    BY <1>1, <2>2, <2>3
<1>4. \A j \in 1..n : LatencyOf(ts[j]) \in Nat /\ IsFiniteSet(DOMAIN ts[j].evidence)
  BY DEF IsTallied
<1>5. DOMAIN a = 1..i /\ DOMAIN b = 1..(n - i)
  BY <1>2, <1>3, LenProperties
<1> HIDE DEF a, b, LatencyOf
<1>6. IsTallied(a, i)
  <2>1. \A j \in 1..i : j \in 1..n /\ a[j] = ts[j]
    BY <1>1, <1>2
  <2>2. \A j \in 1..i : LatencyOf(a[j]) \in Nat /\ IsFiniteSet(DOMAIN a[j].evidence)
    BY <1>4, <2>1
  <2> QED
    BY <1>1, <1>5, <2>2 DEF IsTallied
<1>7. IsTallied(b, n - i)
  <2>1. \A j \in 1..(n - i) : i + j \in 1..n /\ b[j] = ts[i + j]
    BY <1>1, <1>3
  <2>2. \A j \in 1..(n - i) : LatencyOf(b[j]) \in Nat /\ IsFiniteSet(DOMAIN b[j].evidence)
    BY <1>4, <2>1
  <2> QED
    BY <1>1, <1>5, <2>2 DEF IsTallied
<1> QED
  BY <1>2, <1>3, <1>6, <1>7 DEF AreWindows, a, b

LEMMA WindowTallies ==
  ASSUME NEW X, NEW ts \in Seq(X), NEW n, IsTallied(ts, n), NEW i \in 0..n, NEW types
  PROVE  LET a == SubSeq(ts, 1, i)
             b == SubSeq(ts, i + 1, Len(ts))
         IN  /\ SumOf(a, DOMAIN a, LatencyOf) + SumOf(b, DOMAIN b, LatencyOf)
                  = SumFunctionOnSet(Latencies(ts), 1..n)
             /\ SumCounts(a, DOMAIN a, types) + SumCounts(b, DOMAIN b, types)
                  = SumFunctionOnSet(CountAt(ts, types), 1..n)
<1> DEFINE a == SubSeq(ts, 1, i)
<1> DEFINE b == SubSeq(ts, i + 1, Len(ts))
<1>1. /\ IsTallied(a, i) /\ \A j \in 1..i : a[j] = ts[j]
      /\ IsTallied(b, n - i) /\ \A j \in 1..(n - i) : b[j] = ts[i + j]
  BY WindowFacts DEF AreWindows
<1>2. n \in Nat /\ DOMAIN a = 1..i /\ DOMAIN b = 1..(n - i)
  BY <1>1 DEF IsTallied
<1> HIDE DEF a, b, LatencyOf, Typed
<1>3. \A j \in 1..n : /\ Latencies(ts)[j] \in Nat /\ Latencies(ts)[j] = LatencyOf(ts[j])
                      /\ CountAt(ts, types)[j] \in Nat
                      /\ CountAt(ts, types)[j] = Cardinality(Typed(ts[j].evidence, types))
  BY TermFacts
<1>4. \A j \in 1..i : /\ Latencies(a)[j] = LatencyOf(a[j])
                      /\ CountAt(a, types)[j] = Cardinality(Typed(a[j].evidence, types))
  BY <1>1, TermFacts
<1>5. \A j \in 1..(n - i) : /\ Latencies(b)[j] = LatencyOf(b[j])
                            /\ CountAt(b, types)[j] = Cardinality(Typed(b[j].evidence, types))
  BY <1>1, TermFacts
<1>6. SumOf(a, 1..i, LatencyOf) = SumFunctionOnSet(Latencies(a), 1..i)
      /\ SumCounts(a, 1..i, types) = SumFunctionOnSet(CountAt(a, types), 1..i)
  BY <1>1, PartTallies
<1>7. SumOf(b, 1..(n - i), LatencyOf) = SumFunctionOnSet(Latencies(b), 1..(n - i))
      /\ SumCounts(b, 1..(n - i), types) = SumFunctionOnSet(CountAt(b, types), 1..(n - i))
  BY <1>1, PartTallies
<1>8. \A j \in 1..i : j \in 1..n
  BY <1>2
<1>9. \A j \in 1..(n - i) : i + j \in 1..n
  BY <1>2
<1>10. SumFunctionOnSet(Latencies(a), 1..i) + SumFunctionOnSet(Latencies(b), 1..(n - i))
         = SumFunctionOnSet(Latencies(ts), 1..n)
  <2>1. \A j \in 1..i : Latencies(a)[j] = Latencies(ts)[j]
    BY <1>1, <1>3, <1>4, <1>8
  <2>2. \A j \in 1..(n - i) : Latencies(b)[j] = Latencies(ts)[i + j]
    BY <1>1, <1>3, <1>5, <1>9
  <2> DEFINE f == Latencies(ts)
  <2>3. \A j \in 1..n : f[j] \in Nat
    BY <1>3
  <2> DEFINE p == Latencies(a)
  <2> DEFINE q == Latencies(b)
  <2> HIDE DEF f, p, q
  <2>4. SumFunctionOnSet(p, 1..i) + SumFunctionOnSet(q, 1..(n - i)) = SumFunctionOnSet(f, 1..n)
    <3>1. AreParts(p, q, f, i, n)
      BY <2>1, <2>2 DEF f, p, q, AreParts
    <3> QED
      BY <1>2, <2>3, <3>1, SumInTwo
  <2> QED
    BY <2>4 DEF f, p, q
<1>11. SumFunctionOnSet(CountAt(a, types), 1..i) + SumFunctionOnSet(CountAt(b, types), 1..(n - i))
         = SumFunctionOnSet(CountAt(ts, types), 1..n)
  <2>1. \A j \in 1..i : CountAt(a, types)[j] = CountAt(ts, types)[j]
    BY <1>1, <1>3, <1>4, <1>8
  <2>2. \A j \in 1..(n - i) : CountAt(b, types)[j] = CountAt(ts, types)[i + j]
    BY <1>1, <1>3, <1>5, <1>9
  <2> DEFINE f == CountAt(ts, types)
  <2>3. \A j \in 1..n : f[j] \in Nat
    BY <1>3
  <2> DEFINE p == CountAt(a, types)
  <2> DEFINE q == CountAt(b, types)
  <2> HIDE DEF f, p, q
  <2>4. SumFunctionOnSet(p, 1..i) + SumFunctionOnSet(q, 1..(n - i)) = SumFunctionOnSet(f, 1..n)
    <3>1. AreParts(p, q, f, i, n)
      BY <2>1, <2>2 DEF f, p, q, AreParts
    <3> QED
      BY <1>2, <2>3, <3>1, SumInTwo
  <2> QED
    BY <2>4 DEF f, p, q
<1> QED
  BY <1>2, <1>6, <1>7, <1>10, <1>11 DEF a, b

\* What is not above m in either part is below every larger value.
LEMMA PartCounts ==
  ASSUME NEW n \in Nat, NEW i \in 0..n, NEW s, \A j \in 1..n : s[j] \in Nat,
         NEW a, NEW b, AreParts(a, b, s, i, n), NEW m \in Nat, NEW v \in Nat, m < v
  PROVE  /\ AtMost(a, i, m) \in Nat /\ AtMost(b, n - i, m) \in Nat /\ Below(s, n, v) \in Nat
         /\ Below(s, n, v) >= AtMost(a, i, m) + AtMost(b, n - i, m)
<1> DEFINE X == {j \in 1..i : a[j] <= m}
<1> DEFINE Y == {j \in 1..(n - i) : b[j] <= m}
<1> DEFINE B == {j \in 1..n : s[j] < v}
<1> DEFINE L == {j \in B : j <= i}
<1> DEFINE R == {j \in B : j > i}
<1>1. /\ i \in Nat /\ n - i \in Nat
      /\ \A j \in 1..i : j \in 1..n /\ a[j] = s[j]
      /\ \A j \in 1..(n - i) : i + j \in 1..n /\ i + j > i /\ b[j] = s[i + j]
  BY DEF AreParts
<1>2. IsFiniteSet(1..n) /\ IsFiniteSet(1..i) /\ IsFiniteSet(1..(n - i))
  BY <1>1, FirstNumbers
<1>3. X \in SUBSET (1..i) /\ Y \in SUBSET (1..(n - i)) /\ B \in SUBSET (1..n)
  OBVIOUS
<1>4. L \in SUBSET B /\ R \in SUBSET B /\ L \cup R = B /\ L \cap R = {}
  OBVIOUS
<1>5. X \in SUBSET L
  <2>1. ASSUME NEW j \in X PROVE j \in L
    <3>1. j \in 1..n /\ a[j] = s[j] /\ j <= i
      BY <1>1
    <3>2. s[j] \in Nat /\ s[j] <= m
      BY <3>1
    <3> QED
      BY <3>1, <3>2
  <2> QED
    BY <2>1
<1> DEFINE h == [j \in Y |-> i + j]
<1>6. h \in Injection(Y, R)
  <2>1. ASSUME NEW j \in Y PROVE i + j \in R
    <3>1. i + j \in 1..n /\ i + j > i /\ b[j] = s[i + j]
      BY <1>1
    <3>2. s[i + j] \in Nat /\ s[i + j] <= m
      BY <3>1
    <3> QED
      BY <3>1, <3>2
  <2>2. \A j, k \in Y : i + j = i + k => j = k
    BY <1>1
  <2> HIDE DEF Y, R
  <2> QED
    BY <2>1, <2>2 DEF Injection, IsInjective
<1> HIDE DEF X, Y, B, L, R, h
<1>7. IsFiniteSet(X) /\ IsFiniteSet(Y) /\ IsFiniteSet(B) /\ IsFiniteSet(L) /\ IsFiniteSet(R)
  BY <1>2, <1>3, <1>4, FS_Subset
<1>8. /\ Cardinality(X) \in Nat /\ Cardinality(Y) \in Nat /\ Cardinality(B) \in Nat
      /\ Cardinality(L) \in Nat /\ Cardinality(R) \in Nat
  BY <1>7, FS_CardinalityType
<1>9. Cardinality(X) <= Cardinality(L)
  BY <1>5, <1>7, FS_Subset
<1>10. Cardinality(Y) <= Cardinality(R)
  BY <1>6, <1>7, FS_Injection
<1>11. Cardinality(B) = Cardinality(L) + Cardinality(R)
  <2>1. Cardinality(L \cup R) = Cardinality(L) + Cardinality(R) - Cardinality(L \cap R)
    BY <1>7, FS_Union
  <2>2. Cardinality(L \cap R) = 0
    BY <1>4, FS_EmptySet
  <2>3. Cardinality(L \cup R) = Cardinality(B)
    BY <1>4
  <2> QED
    BY <1>8, <2>1, <2>2, <2>3
<1> QED
  BY <1>8, <1>9, <1>10, <1>11 DEF X, Y, B, AtMost, Below

\* The 90th percentile.
LEMMA P90Facts ==
  ASSUME NEW s \in Seq(Nat), NEW n \in Nat, n = Len(s), n # 0
  PROVE  IsPercentile(Percentile(s, 900), s, n, 900)
<1> DEFINE p == 900
<1>1. p \in PerMille
  BY DEF PerMille
<1> HIDE DEF p
<1>2. IsPercentile(Percentile(s, p), s, n, p)
  BY <1>1, PercentileFacts, Zenon
<1> QED
  BY <1>2, Zenon DEF p

\* At least 90% of the values of a window are not above a bound of its p90.
LEMMA WindowPercentile ==
  ASSUME NEW s \in Seq(Nat), NEW m \in Nat, Percentile(s, 900) <= m
  PROVE  1000 * AtMost(s, Len(s), m) >= 900 * Len(s)
<1> DEFINE n == Len(s)
<1> n \in Nat
  OBVIOUS
<1> HIDE DEF n
<1> SUFFICES 1000 * AtMost(s, n, m) >= 900 * n
  BY DEF n
<1>1. CASE n = 0
  <2>1. 1..n = {} /\ {j \in 1..n : s[j] <= m} = {}
    BY <1>1
  <2>2. AtMost(s, n, m) = 0
    BY <2>1, FS_EmptySet DEF AtMost
  <2> QED
    BY <1>1, <2>2
<1>2. CASE n # 0
  <2>1. IsPercentile(Percentile(s, 900), s, n, 900)
    <3>1. n \in Nat /\ n = Len(s)
      BY DEF n
    <3> QED
      BY <1>2, <3>1, P90Facts
  <2>2. PICK v \in Nat : v = Percentile(s, 900) /\ v <= m /\ 1000 * AtMost(s, n, v) >= 900 * n
    BY <2>1 DEF IsPercentile
  <2> DEFINE V == {j \in 1..n : s[j] <= v}
  <2> DEFINE M == {j \in 1..n : s[j] <= m}
  <2>3. V \in SUBSET M
    <3>1. \A j \in 1..n : s[j] \in Nat
      BY ElementOfSeq DEF n
    <3> QED
      BY <2>2, <3>1
  <2>4. IsFiniteSet(M)
    <3>1. M \in SUBSET (1..n)
      OBVIOUS
    <3>2. IsFiniteSet(1..n)
      BY FirstNumbers
    <3> QED
      BY <3>1, <3>2, FS_Subset
  <2> HIDE DEF V, M
  <2>5. Cardinality(V) <= Cardinality(M) /\ Cardinality(V) \in Nat /\ Cardinality(M) \in Nat
    BY <2>3, <2>4, FS_Subset, FS_CardinalityType
  <2> QED
    BY <2>2, <2>5 DEF AtMost, V, M
<1> QED
  BY <1>1, <1>2

\* A percentile of any list of numbers is a number.
LEMMA PercentileIsNatural ==
  ASSUME NEW s \in Seq(Nat), NEW p \in PerMille
  PROVE  Percentile(s, p) \in Nat /\ (Len(s) = 0 => Percentile(s, p) = 0)
<1>1. CASE Len(s) = 0
  <2>1. s = <<>>
    BY <1>1
  <2> QED
    BY <2>1 DEF Percentile
<1>2. CASE Len(s) # 0
  <2>1. Len(s) \in Nat
    OBVIOUS
  <2>2. IsPercentile(Percentile(s, p), s, Len(s), p)
    BY <1>2, <2>1, PercentileFacts, Zenon
  <2> QED
    BY <1>2, <2>2 DEF IsPercentile
<1> QED
  BY <1>1, <1>2

\* The p90 of some values is not above the p90 of both their parts.
LEMMA PercentileOfParts ==
  ASSUME NEW s \in Seq(Nat), NEW n \in Nat, n = Len(s), NEW i \in 0..n,
         NEW a \in Seq(Nat), i = Len(a), NEW b \in Seq(Nat), n - i = Len(b),
         AreParts(a, b, s, i, n)
  PROVE  Max({Percentile(a, 900), Percentile(b, 900)}) >= Percentile(s, 900)
<1> DEFINE pa == Percentile(a, 900)
<1> DEFINE pb == Percentile(b, 900)
<1> DEFINE v == Percentile(s, 900)
<1>1. 900 \in PerMille /\ i \in Nat /\ n - i \in Nat
  BY DEF PerMille
<1>2. pa \in Nat /\ pb \in Nat /\ v \in Nat /\ (n = 0 => v = 0)
  BY <1>1, PercentileIsNatural
<1> HIDE DEF pa, pb, v
<1> DEFINE m == Max({pa, pb})
<1>3. m \in Nat /\ m >= pa /\ m >= pb
  <2>1. CASE pa <= pb
    <3>1. \A x \in {pa, pb} : (\A y \in {pa, pb} : x >= y) => x = pb
      BY <1>2, <2>1
    <3>2. pb \in {pa, pb} /\ \A y \in {pa, pb} : pb >= y
      BY <1>2, <2>1
    <3>3. m = pb
      BY <3>1, <3>2 DEF Max
    <3> QED
      BY <1>2, <2>1, <3>3
  <2>2. CASE pb <= pa
    <3>1. \A x \in {pa, pb} : (\A y \in {pa, pb} : x >= y) => x = pa
      BY <1>2, <2>2
    <3>2. pa \in {pa, pb} /\ \A y \in {pa, pb} : pa >= y
      BY <1>2, <2>2
    <3>3. m = pa
      BY <3>1, <3>2 DEF Max
    <3> QED
      BY <1>2, <2>2, <3>3
  <2> QED
    BY <1>2, <2>1, <2>2
<1> HIDE DEF m
<1>4. SUFFICES ASSUME m < v PROVE FALSE
  BY <1>2, <1>3 DEF m, pa, pb, v
<1>5. \A j \in 1..n : s[j] \in Nat
  BY ElementOfSeq
<1>6. /\ AtMost(a, i, m) \in Nat /\ AtMost(b, n - i, m) \in Nat /\ Below(s, n, v) \in Nat
      /\ Below(s, n, v) >= AtMost(a, i, m) + AtMost(b, n - i, m)
  BY <1>2, <1>3, <1>4, <1>5, PartCounts
<1>7. 1000 * AtMost(a, i, m) >= 900 * i
  <2>1. Percentile(a, 900) <= m
    BY <1>3 DEF pa
  <2> QED
    BY <1>3, <2>1, WindowPercentile
<1>8. 1000 * AtMost(b, n - i, m) >= 900 * (n - i)
  <2>1. Percentile(b, 900) <= m
    BY <1>3 DEF pb
  <2>2. 1000 * AtMost(b, Len(b), m) >= 900 * Len(b)
    BY <1>3, <2>1, WindowPercentile
  <2>3. AtMost(b, Len(b), m) = AtMost(b, n - i, m)
    OBVIOUS
  <2> QED
    BY <1>1, <1>6, <2>2, <2>3
<1>9. n # 0
  BY <1>2, <1>3, <1>4
<1>10. IsPercentile(v, s, n, 900)
  BY <1>9, P90Facts DEF v
<1>11. ~RoundedUp(900, n)
  BY DEF RoundedUp
<1>12. Below(s, n, v) = 0 \/ 1000 * Below(s, n, v) < 900 * n
  BY <1>10, <1>11 DEF IsPercentile
<1> DEFINE x == AtMost(a, i, m)
<1> DEFINE y == AtMost(b, n - i, m)
<1> DEFINE z == Below(s, n, v)
<1> HIDE DEF v, x, y, z
<1>13. /\ x \in Nat /\ y \in Nat /\ z \in Nat /\ z >= x + y
       /\ 1000 * x >= 900 * i /\ 1000 * y >= 900 * (n - i)
       /\ z = 0 \/ 1000 * z < 900 * n
  BY <1>6, <1>7, <1>8, <1>12 DEF x, y, z
<1>14. n \in Nat /\ i \in 0..n /\ n # 0
  BY <1>1, <1>9
<1> QED
  BY <1>13, <1>14

OverAll(f, attr) == SumFunction([k \in DOMAIN f |-> f[k][attr]])

LatencySum(ts) == SumOf(ts, DOMAIN ts, LatencyOf)
CountSum(ts, types) == SumCounts(ts, DOMAIN ts, types)

LEMMA WholeTallies ==
  ASSUME NEW ts, NEW n, IsTallied(ts, n), NEW types
  PROVE  /\ LatencySum(ts) = SumFunctionOnSet(Latencies(ts), 1..n)
         /\ CountSum(ts, types) = SumFunctionOnSet(CountAt(ts, types), 1..n)
         /\ LatencySum(ts) \in Nat /\ CountSum(ts, types) \in Nat
<1>1. DOMAIN ts = 1..n /\ 1..n \in SUBSET (1..n)
  BY DEF IsTallied
<1>2. /\ SumOf(ts, 1..n, LatencyOf) = SumFunctionOnSet(Latencies(ts), 1..n)
      /\ SumFunctionOnSet(Latencies(ts), 1..n) \in Nat
      /\ SumCounts(ts, 1..n, types) = SumFunctionOnSet(CountAt(ts, types), 1..n)
      /\ SumFunctionOnSet(CountAt(ts, types), 1..n) \in Nat
  BY <1>1, PartTallies
<1> QED
  BY <1>1, <1>2 DEF LatencySum, CountSum

\* What the groups of correlate_by add up to.
LEMMA GroupSums ==
  ASSUME NEW ts, NEW n, IsTallied(ts, n), NEW key, DOMAIN key = 1..n
  PROVE  LET g == CorrelateBy(ts, key)
         IN  /\ OverAll(g, "count") = n /\ OverAll(g, "total") = LatencySum(ts)
             /\ OverAll(g, "kv_hits") = CountSum(ts, {"KV_HIT"})
             /\ OverAll(g, "kv_misses") = CountSum(ts, {"KV_MISS"})
             /\ OverAll(g, "retries") = CountSum(ts, {"RETRY"})
             /\ OverAll(g, "restarts") = CountSum(ts, RestartTypes)
<1> DEFINE g == CorrelateBy(ts, key)
<1> DEFINE K == ToSet(key)
<1> DEFINE G(k) == GroupAt(ts, key, k)
<1>1. DOMAIN g = K /\ \A k \in K : g[k] = Summary(ts, G(k))
  BY DEF CorrelateBy, GroupAt
<1> HIDE DEF g, K, G
<1>2. \A k : /\ Summary(ts, G(k)).count = Cardinality(G(k))
             /\ Summary(ts, G(k)).total = LatencyIn(ts, G(k))
             /\ Summary(ts, G(k)).kv_hits = SumCounts(ts, G(k), {"KV_HIT"})
             /\ Summary(ts, G(k)).kv_misses = SumCounts(ts, G(k), {"KV_MISS"})
             /\ Summary(ts, G(k)).retries = SumCounts(ts, G(k), {"RETRY"})
             /\ Summary(ts, G(k)).restarts = SumCounts(ts, G(k), RestartTypes)
  BY DEF Summary, LatencyIn
<1>3. /\ OverAll(g, "count") = SumFunction([k \in K |-> Cardinality(G(k))])
      /\ OverAll(g, "total") = SumFunction([k \in K |-> LatencyIn(ts, G(k))])
      /\ OverAll(g, "kv_hits") = SumFunction([k \in K |-> SumCounts(ts, G(k), {"KV_HIT"})])
      /\ OverAll(g, "kv_misses") = SumFunction([k \in K |-> SumCounts(ts, G(k), {"KV_MISS"})])
      /\ OverAll(g, "retries") = SumFunction([k \in K |-> SumCounts(ts, G(k), {"RETRY"})])
      /\ OverAll(g, "restarts") = SumFunction([k \in K |-> SumCounts(ts, G(k), RestartTypes)])
  <2>1. [k \in DOMAIN g |-> g[k]["count"]] = [k \in K |-> Cardinality(G(k))]
    BY <1>1, <1>2
  <2>2. [k \in DOMAIN g |-> g[k]["total"]] = [k \in K |-> LatencyIn(ts, G(k))]
    BY <1>1, <1>2
  <2>3. /\ [k \in DOMAIN g |-> g[k]["kv_hits"]] = [k \in K |-> SumCounts(ts, G(k), {"KV_HIT"})]
        /\ [k \in DOMAIN g |-> g[k]["kv_misses"]] = [k \in K |-> SumCounts(ts, G(k), {"KV_MISS"})]
    BY <1>1, <1>2
  <2>4. /\ [k \in DOMAIN g |-> g[k]["retries"]] = [k \in K |-> SumCounts(ts, G(k), {"RETRY"})]
        /\ [k \in DOMAIN g |-> g[k]["restarts"]] = [k \in K |-> SumCounts(ts, G(k), RestartTypes)]
    BY <1>1, <1>2
  <2> QED
    BY <2>1, <2>2, <2>3, <2>4 DEF OverAll
<1>4. ASSUME NEW types
      PROVE  /\ SumFunction([k \in K |-> Cardinality(G(k))]) = n
             /\ SumFunction([k \in K |-> LatencyIn(ts, G(k))]) = LatencySum(ts)
             /\ SumFunction([k \in K |-> SumCounts(ts, G(k), types)]) = CountSum(ts, types)
  <2>1. /\ SumFunction([k \in K |-> Cardinality(G(k))]) = n
        /\ SumFunction([k \in K |-> LatencyIn(ts, G(k))]) = SumFunctionOnSet(Latencies(ts), 1..n)
        /\ SumFunction([k \in K |-> SumCounts(ts, G(k), types)]) = SumFunctionOnSet(CountAt(ts, types), 1..n)
    BY GroupTallies DEF K, G
  <2>2. /\ LatencySum(ts) = SumFunctionOnSet(Latencies(ts), 1..n)
        /\ CountSum(ts, types) = SumFunctionOnSet(CountAt(ts, types), 1..n)
    BY WholeTallies
  <2> QED
    BY <2>1, <2>2
<1> QED
  BY <1>3, <1>4 DEF g

\* The numbers of the evidence at some positions add up to a number.
IsNumbered(v) == IsFiniteSet(DOMAIN v) /\ \A i \in DOMAIN v : NaturalNumbers(v[i])

FieldSum(v, S, k, d) == SumFunction([i \in S |-> U64Field(v[i], k, d)])

LEMMA EvidenceSums ==
  ASSUME NEW v, IsNumbered(v), NEW S \in SUBSET DOMAIN v, NEW k, NEW d \in Nat
  PROVE  FieldSum(v, S, k, d) \in Nat
<1> DEFINE f == [i \in S |-> U64Field(v[i], k, d)]
<1>1. IsFiniteSet(S)
  BY FS_Subset DEF IsNumbered
<1>2. \A i \in S : f[i] \in Nat
  <2>1. ASSUME NEW i \in S PROVE U64Field(v[i], k, d) \in Nat
    BY FieldFacts DEF IsNumbered
  <2> QED
    BY <2>1
<1>3. FieldSum(v, S, k, d) = SumFunctionOnSet(f, S)
  BY DEF FieldSum, SumFunction
<1> HIDE DEF f
<1> QED
  BY <1>1, <1>2, <1>3, SumFacts

\* What speculation proposed, accepted and rejected.
Speculated(v) ==
  LET s == Speculation(v) IN s.spec_proposed.value + s.spec_accepted.value + s.spec_rejected.value

LEMMA SpeculationFacts ==
  ASSUME NEW v, IsNumbered(v)
  PROVE  Speculated(v) \in Nat
<1>1. \A t : Positions(v, t) \in SUBSET DOMAIN v
  BY DEF Positions
<1>2. FieldSum(v, Positions(v, "SPECULATION_START"), "spec_tokens", 1) \in Nat
  BY <1>1, EvidenceSums
<1>3. \A k : FieldSum(v, Positions(v, "SPECULATION_VERIFY"), k, 0) \in Nat
  BY <1>1, EvidenceSums
<1>4. /\ Speculation(v).spec_proposed.value
           = FieldSum(v, Positions(v, "SPECULATION_START"), "spec_tokens", 1)
      /\ Speculation(v).spec_accepted.value
           = FieldSum(v, Positions(v, "SPECULATION_VERIFY"), "accepted_tokens", 0)
      /\ Speculation(v).spec_rejected.value
           = FieldSum(v, Positions(v, "SPECULATION_VERIFY"), "rejected_tokens", 0)
  BY DEF Speculation, Tally, Metric, SumOf, FieldSum
<1> QED
  BY <1>2, <1>3, <1>4 DEF Speculated

\* The evidence of the whole fleet has natural numbers.
LEMMA FleetNumbered ==
  ASSUME NaturalFields, TraceInv, FleetInv
  PROVE  \A i \in 1..Len(Fleet) : IsNumbered(Fleet[i].evidence)
<1> DEFINE r == Reconstruct(arrived)
<1>1. \A i \in 1..Len(peers) : IsNumbered(peers[i].evidence)
  BY FleetsAssumption DEF FleetInv, NaturalFields, IsNumbered
<1>2. IsNumbered(r.evidence)
  <2> DEFINE v == Timeline(arrived)
  <2>1. v \in Seq(pool) /\ r.evidence = v
    BY ArrivedTimeline DEF IsTimeline, Reconstruct
  <2> HIDE DEF v
  <2>2. DOMAIN v = 1..Len(v) /\ Len(v) \in Nat /\ \A i \in 1..Len(v) : v[i] \in pool
    BY <2>1, LenProperties, ElementOfSeq
  <2>3. IsFiniteSet(DOMAIN v)
    <3>1. IsFiniteSet(1..Len(v))
      BY <2>2, FirstNumbers
    <3> QED
      BY <2>2, <3>1
  <2>4. \A o \in pool : NaturalNumbers(o)
    BY DEF TraceInv, NaturalFields
  <2> HIDE DEF r
  <2> QED
    BY <2>1, <2>2, <2>3, <2>4 DEF IsNumbered
<1> HIDE DEF r
<1>3. \A t \in FleetTraces : IsNumbered(t.evidence)
  BY <1>1, <1>2 DEF FleetTraces, r
<1> QED
  BY <1>3, FleetElements

\* Three tallies of the same requests agree, whatever they are: the groups of
\* correlate_by by boot or by result, two windows of compare_windows that split
\* the requests anywhere, and the aggregates of a replay.
THEOREM TalliesAgreeCorrect ==
  ASSUME NaturalFields
  PROVE  TailSpec => []TalliesAgree
<1>1. ASSUME TraceInv, FleetInv PROVE TalliesAgree
  <2> DEFINE ts == Fleet
  <2> DEFINE n == Len(ts)
  <2> DEFINE agg == Aggregates(ts)
  <2> DEFINE result == [i \in DOMAIN ts |-> ts[i].outcome]
  <2> DEFINE boot == [i \in DOMAIN ts |-> IF ts[i].boots = <<>> THEN None ELSE Head(ts[i].boots)]
  <2>1. IsTallied(ts, n) /\ DOMAIN ts = 1..n /\ n \in Nat /\ ts \in Seq(FleetTraces)
        /\ Latencies(ts) \in Seq(Nat) /\ Len(Latencies(ts)) = n
    BY <1>1, FleetLatencies, FleetElements DEF IsTallied
  <2>2. \A i \in 1..n : IsNumbered(ts[i].evidence)
    BY <1>1, FleetNumbered
  <2>3. DOMAIN result = 1..n /\ DOMAIN boot = 1..n
    BY <2>1
  <2> HIDE DEF ts, n
  <2> DEFINE spec == [i \in 1..n |-> Speculated(ts[i].evidence)]
  <2>4. /\ agg.request_trace_count = n
        /\ agg.total_latency = LatencySum(ts)
        /\ agg.kv_hits = CountSum(ts, {"KV_HIT"}) /\ agg.kv_misses = CountSum(ts, {"KV_MISS"})
        /\ agg.retry_events = SumFunction(spec) + CountSum(ts, {"RETRY"})
        /\ agg.metrics.percentile[900] = Percentile(Latencies(ts), 900)
    <3>1. agg.request_trace_count = n
      BY DEF Aggregates, n
    <3>2. agg.total_latency = LatencySum(ts)
      BY DEF Aggregates, LatencySum
    <3>3. agg.kv_hits = CountSum(ts, {"KV_HIT"}) /\ agg.kv_misses = CountSum(ts, {"KV_MISS"})
      BY DEF Aggregates, CountSum
    <3>4. agg.retry_events = SumFunction(spec) + CountSum(ts, {"RETRY"})
      BY <2>1 DEF Aggregates, CountSum, Speculated, SumOf
    <3>5. agg.metrics.percentile[900] = Percentile(Latencies(ts), 900)
      <4>1. agg.metrics = TailMetrics(Latencies(ts))
        BY DEF Aggregates
      <4>2. 900 \in Reported
        BY DEF Reported
      <4> QED
        BY <4>1, <4>2 DEF TailMetrics
    <3> QED
      BY <3>1, <3>2, <3>3, <3>4, <3>5
  <2>5. SumFunction(spec) \in Nat
    <3>1. \A i \in 1..n : spec[i] \in Nat
      BY <2>2, SpeculationFacts
    <3>2. SumFunction(spec) = SumFunctionOnSet(spec, 1..n)
      BY DEF SumFunction
    <3>3. IsFiniteSet(1..n)
      BY <2>1, FirstNumbers
    <3> HIDE DEF spec
    <3> QED
      BY <3>1, <3>2, <3>3, SumFacts
  <2> HIDE DEF agg, result, boot, spec
  <2>6. \A types : CountSum(ts, types) \in Nat
    BY <2>1, WholeTallies
  <2>7. ASSUME NEW key, DOMAIN key = 1..n
        PROVE  LET g == CorrelateBy(ts, key)
               IN  /\ OverAll(g, "count") = agg.request_trace_count
                   /\ OverAll(g, "total") = agg.total_latency
                   /\ OverAll(g, "kv_hits") = agg.kv_hits
                   /\ OverAll(g, "kv_misses") = agg.kv_misses
                   /\ OverAll(g, "retries") <= agg.retry_events
                   /\ OverAll(g, "retries") = CountSum(ts, {"RETRY"})
                   /\ OverAll(g, "restarts") = CountSum(ts, RestartTypes)
    <3> DEFINE g == CorrelateBy(ts, key)
    <3>1. /\ OverAll(g, "count") = n /\ OverAll(g, "total") = LatencySum(ts)
          /\ OverAll(g, "kv_hits") = CountSum(ts, {"KV_HIT"})
          /\ OverAll(g, "kv_misses") = CountSum(ts, {"KV_MISS"})
          /\ OverAll(g, "retries") = CountSum(ts, {"RETRY"})
          /\ OverAll(g, "restarts") = CountSum(ts, RestartTypes)
      BY <2>1, <2>7, GroupSums
    <3> HIDE DEF g
    <3> QED
      BY <2>4, <2>5, <2>6, <3>1 DEF g
  <2>8. ASSUME NEW i \in 0..n
        PROVE  LET w == CompareWindows(SubSeq(ts, 1, i), SubSeq(ts, i + 1, Len(ts)))
               IN  /\ w.a.count + w.b.count = agg.request_trace_count
                   /\ w.a.total + w.b.total = agg.total_latency
                   /\ w.a.kv_hits + w.b.kv_hits = agg.kv_hits
                   /\ w.a.retries + w.b.retries = CountSum(ts, {"RETRY"})
                   /\ w.a.restarts + w.b.restarts = CountSum(ts, RestartTypes)
                   /\ Max({w.a.p90, w.b.p90}) >= agg.metrics.percentile[900]
    <3> DEFINE a == SubSeq(ts, 1, i)
    <3> DEFINE b == SubSeq(ts, i + 1, Len(ts))
    <3>1. /\ IsTallied(a, i) /\ \A j \in 1..i : a[j] = ts[j]
          /\ IsTallied(b, n - i) /\ \A j \in 1..(n - i) : b[j] = ts[i + j]
          /\ Len(a) = i /\ Len(b) = n - i
      <4>1. AreWindows(a, b, ts, i, n)
        BY <2>1, WindowFacts
      <4> QED
        BY <4>1 DEF AreWindows
    <3>2. ASSUME NEW types
          PROVE  /\ LatencySum(a) + LatencySum(b) = LatencySum(ts)
                 /\ CountSum(a, types) + CountSum(b, types) = CountSum(ts, types)
      <4>1. /\ LatencySum(a) + LatencySum(b) = SumFunctionOnSet(Latencies(ts), 1..n)
            /\ CountSum(a, types) + CountSum(b, types) = SumFunctionOnSet(CountAt(ts, types), 1..n)
        BY <2>1, WindowTallies DEF LatencySum, CountSum
      <4> QED
        BY <2>1, <4>1, WholeTallies
    <3> HIDE DEF a, b
    <3>3. Max({Percentile(Latencies(a), 900), Percentile(Latencies(b), 900)})
            >= Percentile(Latencies(ts), 900)
      <4>1. ASSUME NEW x, NEW m, IsTallied(x, m)
            PROVE  Latencies(x) \in Seq(Nat) /\ Len(Latencies(x)) = m
                   /\ \A j \in 1..m : Latencies(x)[j] = LatencyOf(x[j])
        <5>1. m \in Nat /\ DOMAIN x = 1..m /\ \A j \in 1..m : LatencyOf(x[j]) \in Nat
          BY <4>1 DEF IsTallied
        <5> HIDE DEF LatencyOf
        <5>2. Latencies(x) = [j \in 1..m |-> LatencyOf(x[j])]
          BY <5>1 DEF Latencies
        <5>3. Latencies(x) \in Seq(Nat)
          BY <5>1, <5>2, IsASeq
        <5> QED
          BY <5>1, <5>2, <5>3
      <4>2. /\ Latencies(a) \in Seq(Nat) /\ Len(Latencies(a)) = i
            /\ Latencies(b) \in Seq(Nat) /\ Len(Latencies(b)) = n - i
        BY <3>1, <4>1
      <4>3. AreParts(Latencies(a), Latencies(b), Latencies(ts), i, n)
        <5>1. \A j \in 1..i : j \in 1..n
          BY <2>1
        <5>2. \A j \in 1..(n - i) : i + j \in 1..n
          BY <2>1
        <5> HIDE DEF LatencyOf
        <5>3. /\ \A j \in 1..n : Latencies(ts)[j] = LatencyOf(ts[j])
              /\ \A j \in 1..i : Latencies(a)[j] = LatencyOf(a[j])
              /\ \A j \in 1..(n - i) : Latencies(b)[j] = LatencyOf(b[j])
          <6>1. IsTallied(ts, n) /\ IsTallied(a, i) /\ IsTallied(b, n - i)
            BY <2>1, <3>1
          <6> QED
            BY <4>1, <6>1, Zenon
        <5>4. \A j \in 1..i : Latencies(a)[j] = Latencies(ts)[j]
          BY <3>1, <5>1, <5>3
        <5>5. \A j \in 1..(n - i) : Latencies(b)[j] = Latencies(ts)[i + j]
          BY <3>1, <5>2, <5>3
        <5> QED
          BY <5>4, <5>5 DEF AreParts
      <4> DEFINE la == Latencies(a)
      <4> DEFINE lb == Latencies(b)
      <4> DEFINE l == Latencies(ts)
      <4>4. /\ la \in Seq(Nat) /\ i = Len(la) /\ lb \in Seq(Nat) /\ n - i = Len(lb)
            /\ l \in Seq(Nat) /\ n = Len(l) /\ AreParts(la, lb, l, i, n)
        BY <2>1, <4>2, <4>3
      <4> HIDE DEF la, lb, l
      <4>5. Max({Percentile(la, 900), Percentile(lb, 900)}) >= Percentile(l, 900)
        BY <2>1, <4>4, PercentileOfParts
      <4> QED
        BY <4>5 DEF la, lb, l
    <3>4. \A x : /\ Window(x).count = Len(x)
                 /\ Window(x).total = LatencySum(x)
                 /\ Window(x).p90 = Percentile(Latencies(x), 900)
                 /\ Window(x).retries = CountSum(x, {"RETRY"})
                 /\ Window(x).restarts = CountSum(x, RestartTypes)
                 /\ Window(x).kv_hits = CountSum(x, {"KV_HIT"})
      BY DEF Window, LatencySum, CountSum
    <3>5. i + (n - i) = n
      BY <2>1
    <3> DEFINE w == CompareWindows(a, b)
    <3>6. w.a = Window(a) /\ w.b = Window(b)
      BY DEF CompareWindows
    <3> HIDE DEF w
    <3>7. /\ w.a.count + w.b.count = agg.request_trace_count
          /\ w.a.total + w.b.total = agg.total_latency
          /\ w.a.kv_hits + w.b.kv_hits = agg.kv_hits
          /\ w.a.retries + w.b.retries = CountSum(ts, {"RETRY"})
          /\ w.a.restarts + w.b.restarts = CountSum(ts, RestartTypes)
          /\ Max({w.a.p90, w.b.p90}) >= agg.metrics.percentile[900]
      <4>1. /\ w.a.count = Len(a) /\ w.b.count = Len(b)
            /\ w.a.total = LatencySum(a) /\ w.b.total = LatencySum(b)
            /\ w.a.kv_hits = CountSum(a, {"KV_HIT"}) /\ w.b.kv_hits = CountSum(b, {"KV_HIT"})
            /\ w.a.retries = CountSum(a, {"RETRY"}) /\ w.b.retries = CountSum(b, {"RETRY"})
            /\ w.a.restarts = CountSum(a, RestartTypes) /\ w.b.restarts = CountSum(b, RestartTypes)
            /\ w.a.p90 = Percentile(Latencies(a), 900) /\ w.b.p90 = Percentile(Latencies(b), 900)
        BY <3>4, <3>6
      <4> QED
        BY <2>4, <3>1, <3>2, <3>3, <3>5, <4>1
    <3> QED
      BY <3>7 DEF w, a, b
  <2>9. ASSUME NEW r \in DOMAIN CorrelateBy(ts, result)
        PROVE  LET share == WhichShare(ts, result, r)
               IN  /\ Cardinality(DOMAIN share) = CorrelateBy(ts, result)[r].count
                   /\ SumFunction(share) = CorrelateBy(ts, result)[r].total
    BY DEF WhichShare, CorrelateBy, Summary, SumOf
  <2> DEFINE byBoot == CorrelateBy(ts, boot)
  <2> DEFINE byResult == CorrelateBy(ts, result)
  <2>10. \A g \in {byBoot, byResult} :
           /\ OverAll(g, "count") = agg.request_trace_count
           /\ OverAll(g, "total") = agg.total_latency
           /\ OverAll(g, "kv_hits") = agg.kv_hits /\ OverAll(g, "kv_misses") = agg.kv_misses
           /\ OverAll(g, "retries") <= agg.retry_events
    BY <2>3, <2>7
  <2>11. OverAll(byBoot, "retries") = CountSum(ts, {"RETRY"})
         /\ OverAll(byBoot, "restarts") = CountSum(ts, RestartTypes)
    BY <2>3, <2>7
  <2>12. \A i \in 0..Len(ts) :
           LET w == CompareWindows(SubSeq(ts, 1, i), SubSeq(ts, i + 1, Len(ts))) IN
           /\ w.a.count + w.b.count = agg.request_trace_count
           /\ w.a.total + w.b.total = agg.total_latency
           /\ w.a.kv_hits + w.b.kv_hits = agg.kv_hits
           /\ \A attr \in {"retries", "restarts"} :
                w.a[attr] + w.b[attr] = OverAll(byBoot, attr)
           /\ Max({w.a.p90, w.b.p90}) >= agg.metrics.percentile[900]
    BY <2>8, <2>11 DEF n
  <2> HIDE DEF byBoot, byResult
  <2>13. \A r \in DOMAIN byResult :
           LET share == WhichShare(ts, result, r) IN
           /\ Cardinality(DOMAIN share) = byResult[r].count
           /\ SumFunction(share) = byResult[r].total
    BY <2>9 DEF byResult
  <2> QED
    BY <2>10, <2>12, <2>13 DEF TalliesAgree, OverAll, ts, agg, result, boot, byBoot, byResult
<1> QED
  BY <1>1, TraceInvariant, FleetInvariant, PTL

-----------------------------------------------------------------------------
(* Late evidence in comparisons and attributions *)

\* h takes each position of v to a position of w with the same observation.
Embeds(h, v, w) ==
  /\ OneToOne(h, DOMAIN v)
  /\ \A i \in DOMAIN v : h[i] \in DOMAIN w /\ w[h[i]] = v[i]

\* h takes the positions S of one list to some of the positions T of another
\* which has the same numbers there.
AreKept(h, S, T, f, g) ==
  /\ OneToOne(h, S)
  /\ \A i \in S : f[i] \in Nat /\ h[i] \in T /\ g[h[i]] = f[i]
  /\ \A j \in T : g[j] \in Nat

\* Such a part has no larger a sum.
LEMMA SumGrows ==
  ASSUME NEW S, IsFiniteSet(S), NEW T, IsFiniteSet(T), NEW h, NEW f, NEW g, AreKept(h, S, T, f, g)
  PROVE  /\ SumFunctionOnSet(f, S) \in Nat /\ SumFunctionOnSet(g, T) \in Nat
         /\ SumFunctionOnSet(f, S) <= SumFunctionOnSet(g, T)
<1> DEFINE R == {h[i] : i \in S}
<1>1. /\ OneToOne(h, S) /\ \A i \in S : f[i] \in Nat /\ g[h[i]] = f[i]
      /\ \A j \in T : g[j] \in Nat
  BY DEF AreKept
<1>2. R \in SUBSET T
  BY DEF AreKept
<1>3. SumFunctionOnSet(g, R) = SumFunctionOnSet(f, S)
  BY <1>1, SumImage
<1> HIDE DEF R
<1>4. SumFunctionOnSet(g, R) <= SumFunctionOnSet(g, T)
  BY <1>1, <1>2, SumOfPart
<1>5. SumFunctionOnSet(f, S) \in Nat /\ SumFunctionOnSet(g, T) \in Nat
  BY <1>1, SumFacts
<1> QED
  BY <1>3, <1>4, <1>5

\* The timeline of more evidence has every observation again.
LEMMA TimelineEmbeds ==
  ASSUME NEW S, Comparable(S), NEW A, NEW B, A \subseteq B,
         NEW v, IsTimeline(v, A, S), NEW w, IsTimeline(w, B, S)
  PROVE  \E h : Embeds(h, v, w)
<1> DEFINE h == [i \in DOMAIN v |-> CHOOSE j \in DOMAIN w : w[j] = v[i]]
<1>1. /\ DOMAIN v = 1..Len(v) /\ Len(v) \in Nat /\ \A i \in 1..Len(v) : v[i] \in S
      /\ \A i, j \in 1..Len(v) : i < j => Before(v[i], v[j])
  BY LenProperties, ElementOfSeq DEF IsTimeline, Ordered
<1>2. ASSUME NEW i \in DOMAIN v PROVE h[i] \in DOMAIN w /\ w[h[i]] = v[i]
  <2>1. v[i] \in ToSet(w)
    BY DEF IsTimeline, ToSet
  <2>2. \E j \in DOMAIN w : w[j] = v[i]
    BY <2>1 DEF ToSet
  <2> QED
    BY <2>2
<1> HIDE DEF h
<1>3. ASSUME NEW i \in DOMAIN v, NEW j \in DOMAIN v, h[i] = h[j] PROVE i = j
  <2>1. v[i] = v[j]
    BY <1>2, <1>3
  <2>2. ~Before(v[i], v[i])
    BY <1>1, BeforeFacts
  <2>3. ~(i < j) /\ ~(j < i)
    BY <1>1, <2>1, <2>2
  <2> QED
    BY <1>1, <2>3
<1> QED
  BY <1>2, <1>3 DEF Embeds, OneToOne

\* A timeline has natural numbers.
LEMMA TimelineNumbered ==
  ASSUME NEW S, NEW A, NEW v, IsTimeline(v, A, S), \A o \in S : NaturalNumbers(o)
  PROVE  IsNumbered(v)
<1>1. DOMAIN v = 1..Len(v) /\ Len(v) \in Nat /\ \A i \in 1..Len(v) : v[i] \in S
  BY LenProperties, ElementOfSeq DEF IsTimeline
<1>2. IsFiniteSet(DOMAIN v)
  <2>1. IsFiniteSet(1..Len(v))
    BY <1>1, FirstNumbers
  <2> QED
    BY <1>1, <2>1
<1> QED
  BY <1>1, <1>2 DEF IsNumbered

\* w has the evidence of v and more.
Grows(v, w, h) == IsNumbered(v) /\ IsNumbered(w) /\ Embeds(h, v, w)

\* h takes the positions S of v to some of the positions T of w.
Within(v, S, w, T, h) ==
  S \in SUBSET DOMAIN v /\ T \in SUBSET DOMAIN w /\ \A i \in S : h[i] \in T

\* What an accessor reads, as a function of the position.
Unsigned(v, S, k, d) == [i \in S |-> U64Field(v[i], k, d)]
Decimal(v, S, k, d) == [i \in S |-> F64Field(v[i], k, d)]

LEMMA FieldsAreKept ==
  ASSUME NEW v, NEW w, NEW h, Grows(v, w, h), NEW S, NEW T, Within(v, S, w, T, h),
         NEW k, NEW d \in Nat
  PROVE  /\ IsFiniteSet(S) /\ IsFiniteSet(T)
         /\ AreKept(h, S, T, Unsigned(v, S, k, d), Unsigned(w, T, k, d))
         /\ AreKept(h, S, T, Decimal(v, S, k, d), Decimal(w, T, k, d))
<1>1. S \in SUBSET DOMAIN v /\ T \in SUBSET DOMAIN w /\ \A i \in S : h[i] \in T
  BY DEF Within
<1>2. IsFiniteSet(S) /\ IsFiniteSet(T)
  BY <1>1, FS_Subset DEF Grows, IsNumbered
<1>3. OneToOne(h, S)
  BY <1>1 DEF Grows, Embeds, OneToOne
<1>4. ASSUME NEW i \in S
      PROVE  /\ h[i] \in T /\ w[h[i]] = v[i]
             /\ U64Field(v[i], k, d) \in Nat /\ F64Field(v[i], k, d) \in Nat
  <2>1. NaturalNumbers(v[i]) /\ w[h[i]] = v[i] /\ h[i] \in T
    BY <1>1 DEF Grows, IsNumbered, Embeds
  <2> QED
    BY <2>1, FieldFacts
<1>5. ASSUME NEW j \in T PROVE U64Field(w[j], k, d) \in Nat /\ F64Field(w[j], k, d) \in Nat
  <2>1. NaturalNumbers(w[j])
    BY <1>1 DEF Grows, IsNumbered
  <2> QED
    BY <2>1, FieldFacts
<1> HIDE DEF U64Field, F64Field
<1>6. AreKept(h, S, T, Unsigned(v, S, k, d), Unsigned(w, T, k, d))
  BY <1>3, <1>4, <1>5 DEF AreKept, Unsigned
<1>7. AreKept(h, S, T, Decimal(v, S, k, d), Decimal(w, T, k, d))
  BY <1>3, <1>4, <1>5 DEF AreKept, Decimal
<1> QED
  BY <1>2, <1>6, <1>7

RealSum(v, S, k, d) == SumFunction([i \in S |-> F64Field(v[i], k, d)])

LEMMA FieldSumsGrow ==
  ASSUME NEW v, NEW w, NEW h, Grows(v, w, h), NEW S, NEW T, Within(v, S, w, T, h),
         NEW k, NEW d \in Nat
  PROVE  /\ FieldSum(v, S, k, d) \in Nat /\ FieldSum(w, T, k, d) \in Nat
         /\ FieldSum(v, S, k, d) <= FieldSum(w, T, k, d)
         /\ RealSum(v, S, k, d) \in Nat /\ RealSum(w, T, k, d) \in Nat
         /\ RealSum(v, S, k, d) <= RealSum(w, T, k, d)
<1>1. /\ FieldSum(v, S, k, d) = SumFunctionOnSet(Unsigned(v, S, k, d), S)
      /\ FieldSum(w, T, k, d) = SumFunctionOnSet(Unsigned(w, T, k, d), T)
  BY DEF FieldSum, SumFunction, Unsigned
<1>2. /\ RealSum(v, S, k, d) = SumFunctionOnSet(Decimal(v, S, k, d), S)
      /\ RealSum(w, T, k, d) = SumFunctionOnSet(Decimal(w, T, k, d), T)
  BY DEF RealSum, SumFunction, Decimal
<1> QED
  BY <1>1, <1>2, FieldsAreKept, SumGrows

\* There are no fewer of them.
LEMMA CountGrows ==
  ASSUME NEW v, NEW w, NEW h, Grows(v, w, h), NEW S, NEW T, Within(v, S, w, T, h)
  PROVE  /\ Cardinality(S) \in Nat /\ Cardinality(T) \in Nat
         /\ Cardinality(S) <= Cardinality(T)
<1> DEFINE f == [i \in S |-> 1]
<1> DEFINE g == [i \in T |-> 1]
<1>1. S \in SUBSET DOMAIN v /\ T \in SUBSET DOMAIN w /\ \A i \in S : h[i] \in T
  BY DEF Within
<1>2. IsFiniteSet(S) /\ IsFiniteSet(T)
  BY <1>1, FS_Subset DEF Grows, IsNumbered
<1>3. OneToOne(h, S)
  BY <1>1 DEF Grows, Embeds, OneToOne
<1>4. AreKept(h, S, T, f, g)
  BY <1>1, <1>3 DEF AreKept
<1>5. (\A i \in S : f[i] = 1) /\ \A i \in T : g[i] = 1
  OBVIOUS
<1> HIDE DEF f, g
<1>6. SumFunctionOnSet(f, S) = Cardinality(S) /\ SumFunctionOnSet(g, T) = Cardinality(T)
  BY <1>2, <1>5, SumOfOnes
<1> QED
  BY <1>2, <1>4, <1>6, SumGrows

\* A larger set has no smaller a maximum.
LEMMA LargestGrows ==
  ASSUME NEW X \in SUBSET Nat, IsFiniteSet(X), NEW Y \in SUBSET Nat, IsFiniteSet(Y),
         X \subseteq Y, X # {}
  PROVE  Max(X) \in Nat /\ Max(Y) \in Nat /\ Max(X) <= Max(Y)
<1>1. PICK x \in X : \A z \in X : z <= x
  BY LargestExists
<1>2. PICK y \in Y : \A z \in Y : z <= y
  BY LargestExists
<1>3. \A z \in X : (\A u \in X : z >= u) => z = x
  BY <1>1
<1>4. \A z \in Y : (\A u \in Y : z >= u) => z = y
  BY <1>2
<1>5. Max(X) = x
  BY <1>1, <1>3 DEF Max
<1>6. Max(Y) = y
  BY <1>2, <1>4 DEF Max
<1> QED
  BY <1>1, <1>2, <1>5, <1>6

LargestField(v, S, k) == Max({0} \cup {U64Field(v[i], k, 0) : i \in S})

LEMMA LargestFieldGrows ==
  ASSUME NEW v, NEW w, NEW h, Grows(v, w, h), NEW S, NEW T, Within(v, S, w, T, h), NEW k
  PROVE  /\ LargestField(v, S, k) \in Nat /\ LargestField(w, T, k) \in Nat
         /\ LargestField(v, S, k) <= LargestField(w, T, k)
<1> DEFINE f == Unsigned(v, S, k, 0)
<1> DEFINE g == Unsigned(w, T, k, 0)
<1> DEFINE X == {0} \cup {f[i] : i \in S}
<1> DEFINE Y == {0} \cup {g[i] : i \in T}
<1>1. LargestField(v, S, k) = Max(X) /\ LargestField(w, T, k) = Max(Y)
  BY DEF LargestField, Unsigned
<1>2. IsFiniteSet(S) /\ IsFiniteSet(T) /\ AreKept(h, S, T, f, g)
  BY FieldsAreKept
<1> HIDE DEF f, g
<1>3. IsFiniteSet({f[i] : i \in S}) /\ IsFiniteSet({g[i] : i \in T})
  BY <1>2, FiniteImage
<1>4. IsFiniteSet(X) /\ IsFiniteSet(Y)
  BY <1>3, FS_Singleton, FS_Union
<1>5. X \in SUBSET Nat /\ Y \in SUBSET Nat /\ X \subseteq Y /\ X # {}
  BY <1>2 DEF AreKept
<1> HIDE DEF X, Y
<1> QED
  BY <1>1, <1>4, <1>5, LargestGrows


\* v lists the evidence A, w lists A and one more timed observation o.
Later(S, A, o, v, w) ==
  /\ Comparable(S) /\ A \in SUBSET S /\ o \in S /\ Ts(o) # 0
  /\ IsTimeline(v, A, S) /\ IsTimeline(w, A \cup {o}, S)

\* A request that has an arrival keeps one.
LEMMA ArrivalKept ==
  ASSUME NEW S, NEW A, NEW o, NEW v, NEW w, Later(S, A, o, v, w), Arrival(v).ts # 0
  PROVE  Arrival(w).ts # 0
<1>1. /\ Comparable(S) /\ A \in SUBSET S /\ o \in S /\ Ts(o) # 0
      /\ IsTimeline(v, A, S) /\ IsTimeline(w, A \cup {o}, S)
  BY DEF Later
<1>2. \A t : FirstOf(v, t).ts # 0 => FirstOf(w, t).ts # 0
  BY <1>1, EndsWiden
<1>3. CASE FirstOf(v, "REQUEST").ts # 0 \/ FirstOf(v, "QUEUE_ENTER").ts # 0
  BY <1>2, <1>3 DEF Arrival, OrElse
<1>4. CASE FirstOf(v, "REQUEST").ts = 0 /\ FirstOf(v, "QUEUE_ENTER").ts = 0
  <2>1. v # <<>> /\ Ts(Head(v)) # 0
    BY <1>4 DEF Arrival, OrElse, Instant, NoInstant
  <2>2. v \in Seq(S) /\ Len(v) \in Nat /\ 1 \in 1..Len(v) /\ Head(v) = v[1] /\ DOMAIN v = 1..Len(v)
    BY <1>1, <2>1, EmptySeq, LenProperties DEF IsTimeline
  <2>3. v[1] \in A
    BY <1>1, <2>2 DEF IsTimeline, ToSet
  <2>4. w # <<>>
    BY <1>1, <2>3 DEF IsTimeline, ToSet
  <2>5. w \in Seq(S) /\ Len(w) \in Nat /\ 1 \in 1..Len(w) /\ Head(w) = w[1] /\ DOMAIN w = 1..Len(w)
    BY <1>1, <2>4, EmptySeq, LenProperties DEF IsTimeline
  <2>6. w[1] \in A \cup {o}
    BY <1>1, <2>5 DEF IsTimeline, ToSet
  <2>7. ASSUME w[1] \in A PROVE Ts(w[1]) # 0
    <3>1. PICK i \in 1..Len(v) : w[1] = v[i]
      BY <1>1, <2>2, <2>7 DEF IsTimeline, ToSet
    <3>2. v[1] = v[i] \/ Before(v[1], v[i])
      <4>1. i = 1 \/ 1 < i
        BY <2>2
      <4> QED
        BY <1>1, <2>2, <4>1 DEF IsTimeline, Ordered
    <3>3. Ts(v[1]) <= Ts(v[i])
      BY <1>1, <2>3, <2>7, <3>1, <3>2, BeforeLater
    <3>4. Ts(v[1]) \in Nat /\ Ts(v[i]) \in Nat
      BY <1>1, <2>3, <2>7, <3>1 DEF Comparable
    <3> HIDE DEF Ts
    <3> QED
      BY <2>1, <2>2, <3>1, <3>3, <3>4
  <2>8. Ts(w[1]) # 0
    BY <1>1, <2>6, <2>7
  <2> QED
    BY <2>4, <2>5, <2>8 DEF Arrival, OrElse, Instant
<1> QED
  BY <1>3, <1>4

\* The phases that need no pair of ends.
LEMMA OtherPhases ==
  ASSUME NEW v
  PROVE  /\ "FIRST_TOKEN" \in DOMAIN Phases(v) <=>
              FirstOf(v, "DECODE_STEP_START").ts # 0 /\ LastOf(v, "DECODE_STEP_END").ts # 0
         /\ "BATCH_WAIT" \in DOMAIN Phases(v) <=>
              /\ HasType(v, "BATCH_FORM") \/ HasType(v, "BATCH_SEAL")
              /\ FirstOf(v, "DISPATCH").ts # 0
         /\ "DISPATCH" \in DOMAIN Phases(v) <=> FirstOf(v, "DISPATCH").ts # 0
         /\ "RETRY" \in DOMAIN Phases(v) <=> FirstOf(v, "RETRY").ts # 0
         /\ "RECOVERY" \in DOMAIN Phases(v) <=> FirstOf(v, "RECOVERY").ts # 0
         /\ "TOTAL" \in DOMAIN Phases(v) <=> Arrival(v).ts # 0
<1>1. "FIRST_TOKEN" \in DOMAIN Phases(v) <=>
        FirstOf(v, "DECODE_STEP_START").ts # 0 /\ LastOf(v, "DECODE_STEP_END").ts # 0
  BY DEF Phases, Pair
<1>2. "BATCH_WAIT" \in DOMAIN Phases(v) <=>
        /\ HasType(v, "BATCH_FORM") \/ HasType(v, "BATCH_SEAL")
        /\ FirstOf(v, "DISPATCH").ts # 0
  BY DEF Phases
<1>3. "DISPATCH" \in DOMAIN Phases(v) <=> FirstOf(v, "DISPATCH").ts # 0
  BY DEF Phases
<1>4. "RETRY" \in DOMAIN Phases(v) <=> FirstOf(v, "RETRY").ts # 0
  BY DEF Phases
<1>5. "RECOVERY" \in DOMAIN Phases(v) <=> FirstOf(v, "RECOVERY").ts # 0
  BY DEF Phases
<1>6. "TOTAL" \in DOMAIN Phases(v) <=> Arrival(v).ts # 0
  BY DEF Phases
<1> QED
  BY <1>1, <1>2, <1>3, <1>4, <1>5, <1>6

\* What attribute_resources times is there again.
LEMMA PhasesKept ==
  ASSUME NEW S, NEW A, NEW o, NEW v, NEW w, Later(S, A, o, v, w),
         NEW m \in DOMAIN PhaseOf, PhaseOf[m] \in DOMAIN Phases(v)
  PROVE  PhaseOf[m] \in DOMAIN Phases(w)
<1>1. /\ Comparable(S) /\ A \in SUBSET S /\ o \in S /\ Ts(o) # 0
      /\ IsTimeline(v, A, S) /\ IsTimeline(w, A \cup {o}, S)
  BY DEF Later
<1>2. \A t : FirstOf(v, t).ts # 0 => FirstOf(w, t).ts # 0
  BY <1>1, EndsWiden
<1>3. \A t : LastOf(v, t).ts # 0 => LastOf(w, t).ts # 0
  BY <1>1, EndsWiden
<1>4. ASSUME NEW t, HasType(v, t) PROVE HasType(w, t)
  <2>1. \E q \in A \cup {o} : q.type = t
    BY <1>1, <1>4, EndsOfType
  <2> QED
    BY <1>1, <2>1, EndsOfType
<1>5. CASE PhaseOf[m] \in Paired
  BY <1>2, <1>3, <1>5, PairedPhases
<1>6. CASE PhaseOf[m] = "FIRST_TOKEN"
  BY <1>2, <1>3, <1>6, OtherPhases
<1>7. CASE PhaseOf[m] = "BATCH_WAIT"
  BY <1>2, <1>4, <1>7, OtherPhases
<1>8. CASE PhaseOf[m] \in {"DISPATCH", "RETRY", "RECOVERY"}
  BY <1>2, <1>8, OtherPhases
<1>9. CASE PhaseOf[m] = "TOTAL"
  BY <1>9, OtherPhases, ArrivalKept
<1>10. PhaseOf[m] \in Paired \cup {"FIRST_TOKEN", "BATCH_WAIT", "DISPATCH", "RETRY", "RECOVERY", "TOTAL"}
  BY DEF PhaseOf, Paired
<1> QED
  BY <1>5, <1>6, <1>7, <1>8, <1>9, <1>10

\* A phase that was seen is not shorter than before.
LEMMA SpansGrow ==
  ASSUME NEW S, NEW A, NEW o, NEW v, NEW w, Later(S, A, o, v, w), NEW p \in Paired,
         NEW old, old.phases = Phases(v), NEW new, new.phases = Phases(w)
  PROVE  Dur(old, p) \in Nat /\ Dur(new, p) \in Nat /\ Dur(old, p) <= Dur(new, p)
<1>1. /\ Comparable(S) /\ A \in SUBSET S /\ A \cup {o} \in SUBSET S /\ o \in S /\ Ts(o) # 0
      /\ IsTimeline(v, A, S) /\ IsTimeline(w, A \cup {o}, S)
  BY DEF Later
<1>2. \A t : /\ FirstOf(v, t).ts \in Nat /\ LastOf(v, t).ts \in Nat
             /\ FirstOf(w, t).ts \in Nat /\ LastOf(w, t).ts \in Nat
  BY <1>1, InstantFacts
<1>3. Dur(old, p) \in Nat /\ Dur(new, p) \in Nat
  BY <1>2, PairedPhases DEF Dur
<1>4. CASE p \in DOMAIN Phases(v)
  <2>1. /\ FirstOf(v, StartOf[p]).ts # 0 /\ LastOf(v, EndOf[p]).ts # 0
        /\ Phases(v)[p].start = FirstOf(v, StartOf[p]).ts
        /\ Phases(v)[p].end = LastOf(v, EndOf[p]).ts
    BY <1>4, PairedPhases
  <2>2. /\ FirstOf(w, StartOf[p]).ts # 0 /\ FirstOf(w, StartOf[p]).ts <= FirstOf(v, StartOf[p]).ts
        /\ LastOf(w, EndOf[p]).ts # 0 /\ LastOf(w, EndOf[p]).ts >= LastOf(v, EndOf[p]).ts
    BY <1>1, <2>1, EndsWiden
  <2>3. /\ p \in DOMAIN Phases(w)
        /\ Phases(w)[p].start = FirstOf(w, StartOf[p]).ts
        /\ Phases(w)[p].end = LastOf(w, EndOf[p]).ts
    BY <2>2, PairedPhases
  <2> QED
    BY <1>2, <2>1, <2>2, <2>3 DEF Dur
<1>5. CASE p \notin DOMAIN Phases(v)
  <2>1. Dur(old, p) = 0
    BY <1>5 DEF Dur
  <2> QED
    BY <1>3, <2>1
<1> QED
  BY <1>3, <1>4, <1>5

\* Of the metrics f none is gone from g, and none of Firm fell.
Kept(f, g, Firm) ==
  /\ DOMAIN f = DOMAIN g
  /\ \A m \in DOMAIN f : /\ f[m].available => g[m].available
                         /\ m \in Firm => f[m].value <= g[m].value

LEMMA MetricKept ==
  ASSUME NEW x \in Nat, NEW y \in Nat, x <= y, NEW a, NEW b, a => b, NEW q, NEW r
  PROVE  /\ Metric(x, q, a).value <= Metric(y, r, b).value
         /\ Metric(x, q, a).available => Metric(y, r, b).available
<1>1. Metric(x, q, a).value = x /\ Metric(y, r, b).value = y
  BY DEF Metric
<1>2. Metric(x, q, a).available => Metric(y, r, b).available
  BY Zenon DEF Metric
<1> QED
  BY <1>1, <1>2

LEMMA TallyKept ==
  ASSUME NEW x \in Nat, NEW y \in Nat, x <= y, NEW q, NEW r
  PROVE  /\ Tally(x, q).value <= Tally(y, r).value
         /\ Tally(x, q).available => Tally(y, r).available
<1> DEFINE a == x > 0
<1> DEFINE b == y > 0
<1>1. a => b
  OBVIOUS
<1>2. Tally(x, q) = Metric(x, q, a) /\ Tally(y, r) = Metric(y, r, b)
  BY Zenon DEF Tally
<1> HIDE DEF a, b
<1> QED
  BY <1>1, <1>2, MetricKept

\* All positions, and those of the same types.
LEMMA SamePositions ==
  ASSUME NEW v, NEW w, NEW h, Grows(v, w, h)
  PROVE  /\ Within(v, DOMAIN v, w, DOMAIN w, h)
         /\ \A t : Within(v, Positions(v, t), w, Positions(w, t), h)
         /\ \A types : Within(v, Typed(v, types), w, Typed(w, types), h)
<1>1. \A i \in DOMAIN v : h[i] \in DOMAIN w /\ w[h[i]] = v[i]
  BY DEF Grows, Embeds
<1> QED
  BY <1>1 DEF Within, Positions, Typed

\* The groups of metrics of attribute_resources, one by one.
LEMMA TimesKept ==
  ASSUME NEW S, NEW A, NEW o, NEW v, NEW w, Later(S, A, o, v, w),
         NEW old, old.phases = Phases(v), NEW new, new.phases = Phases(w)
  PROVE  Kept(Times(old), Times(new), {})
<1>1. DOMAIN Times(old) = DOMAIN PhaseOf /\ DOMAIN Times(new) = DOMAIN PhaseOf
  BY DEF Times
<1>2. ASSUME NEW m \in DOMAIN PhaseOf
      PROVE  /\ Times(old)[m].available <=> PhaseOf[m] \in DOMAIN Phases(v)
             /\ Times(new)[m].available <=> PhaseOf[m] \in DOMAIN Phases(w)
  BY DEF Times, Metric
<1>3. \A m \in DOMAIN PhaseOf : PhaseOf[m] \in DOMAIN Phases(v) => PhaseOf[m] \in DOMAIN Phases(w)
  BY PhasesKept
<1> QED
  BY <1>1, <1>2, <1>3 DEF Kept

LEMMA BytesKept ==
  ASSUME NEW v, NEW w, NEW h, Grows(v, w, h), v # <<>> => w # <<>>
  PROVE  Kept(Bytes(v), Bytes(w), ByteMetrics)
<1>1. DOMAIN Bytes(v) = ByteMetrics /\ DOMAIN Bytes(w) = ByteMetrics
  BY DEF Bytes
<1>2. ASSUME NEW m \in ByteMetrics
      PROVE  /\ Bytes(v)[m].value <= Bytes(w)[m].value
             /\ Bytes(v)[m].available => Bytes(w)[m].available
  <2> DEFINE x == FieldSum(v, DOMAIN v, m, 0)
  <2> DEFINE y == FieldSum(w, DOMAIN w, m, 0)
  <2>1. x \in Nat /\ y \in Nat /\ x <= y
    BY SamePositions, FieldSumsGrow
  <2>2. /\ Bytes(v)[m] = Metric(x, "MEASURED", x > 0 \/ (m = "bytes_h2d" /\ v # <<>>))
        /\ Bytes(w)[m] = Metric(y, "MEASURED", y > 0 \/ (m = "bytes_h2d" /\ w # <<>>))
    BY DEF Bytes, SumOf, FieldSum
  <2> DEFINE a == x > 0 \/ (m = "bytes_h2d" /\ v # <<>>)
  <2> DEFINE b == y > 0 \/ (m = "bytes_h2d" /\ w # <<>>)
  <2>3. a => b
    BY <2>1
  <2> HIDE DEF x, y, a, b
  <2>4. Bytes(v)[m] = Metric(x, "MEASURED", a) /\ Bytes(w)[m] = Metric(y, "MEASURED", b)
    BY <2>2 DEF a, b
  <2>5. /\ Metric(x, "MEASURED", a).value <= Metric(y, "MEASURED", b).value
        /\ Metric(x, "MEASURED", a).available => Metric(y, "MEASURED", b).available
    BY <2>1, <2>3, MetricKept, Zenon
  <2> QED
    BY <2>4, <2>5, Zenon
<1> QED
  BY <1>1, <1>2 DEF Kept

LEMMA ReuseKept ==
  ASSUME NEW v, NEW w, NEW h, Grows(v, w, h)
  PROVE  Kept(Reuse(v), Reuse(w), DOMAIN TypeOfCounter)
<1>1. DOMAIN Reuse(v) = DOMAIN TypeOfCounter /\ DOMAIN Reuse(w) = DOMAIN TypeOfCounter
  BY DEF Reuse
<1>2. ASSUME NEW m \in DOMAIN TypeOfCounter
      PROVE  /\ Reuse(v)[m].value <= Reuse(w)[m].value
             /\ Reuse(v)[m].available => Reuse(w)[m].available
  <2> DEFINE x == FieldSum(v, Positions(v, TypeOfCounter[m]), "count", 1)
  <2> DEFINE y == FieldSum(w, Positions(w, TypeOfCounter[m]), "count", 1)
  <2>1. x \in Nat /\ y \in Nat /\ x <= y
    BY SamePositions, FieldSumsGrow
  <2>2. Reuse(v)[m] = Tally(x, "MEASURED") /\ Reuse(w)[m] = Tally(y, "MEASURED")
    BY DEF Reuse, SumOf, FieldSum
  <2> HIDE DEF x, y
  <2> QED
    BY <2>1, <2>2, TallyKept
<1> QED
  BY <1>1, <1>2 DEF Kept

LEMMA SpeculationKept ==
  ASSUME NEW v, NEW w, NEW h, Grows(v, w, h)
  PROVE  Kept(Speculation(v), Speculation(w), DOMAIN Speculation(v))
<1> DEFINE Proposed(x) == FieldSum(x, Positions(x, "SPECULATION_START"), "spec_tokens", 1)
<1> DEFINE Verified(x, k) == FieldSum(x, Positions(x, "SPECULATION_VERIFY"), k, 0)
<1>1. Proposed(v) \in Nat /\ Proposed(w) \in Nat /\ Proposed(v) <= Proposed(w)
  BY SamePositions, FieldSumsGrow
<1>2. ASSUME NEW k
      PROVE  Verified(v, k) \in Nat /\ Verified(w, k) \in Nat /\ Verified(v, k) <= Verified(w, k)
  BY SamePositions, FieldSumsGrow
<1>3. ASSUME NEW x
      PROVE  Speculation(x) = [spec_proposed |-> Tally(Proposed(x), "MEASURED"),
                               spec_accepted |-> Tally(Verified(x, "accepted_tokens"), "MEASURED"),
                               spec_rejected |-> Tally(Verified(x, "rejected_tokens"), "MEASURED")]
  BY DEF Speculation, SumOf, FieldSum
<1> HIDE DEF Proposed, Verified
<1>4. /\ Tally(Proposed(v), "MEASURED").value <= Tally(Proposed(w), "MEASURED").value
      /\ Tally(Proposed(v), "MEASURED").available => Tally(Proposed(w), "MEASURED").available
  BY <1>1, TallyKept
<1>5. ASSUME NEW k
      PROVE  /\ Tally(Verified(v, k), "MEASURED").value <= Tally(Verified(w, k), "MEASURED").value
             /\ Tally(Verified(v, k), "MEASURED").available
                  => Tally(Verified(w, k), "MEASURED").available
  BY <1>2, TallyKept
<1> QED
  BY <1>3, <1>4, <1>5 DEF Kept

LEMMA ExecutionKept ==
  ASSUME NEW v, NEW w, NEW h, Grows(v, w, h)
  PROVE  Kept(Execution(v), Execution(w), DOMAIN Execution(v))
<1> DEFINE Gpu(x) == {i \in DOMAIN x : "gpu_ms" \in DOMAIN x[i].fields}
<1> DEFINE OnGpu(x) == RealSum(x, Gpu(x), "gpu_ms", 0)
<1> DEFINE OnCpu(x) == RealSum(x, DOMAIN x, "cpu_ms", 0)
<1>1. Within(v, Gpu(v), w, Gpu(w), h)
  BY DEF Within, Grows, Embeds
<1>2. Gpu(v) # {} => Gpu(w) # {}
  BY <1>1 DEF Within
<1>3. ASSUME NEW x
      PROVE  Execution(x) = [gpu_exec |-> Metric(OnGpu(x), IF Gpu(x) # {} THEN "MEASURED" ELSE "UNKNOWN",
                                                 Gpu(x) # {}),
                             cpu_exec |-> Tally(OnCpu(x), "REPORTED")]
  BY DEF Execution, SumOf, RealSum
<1> HIDE DEF Gpu
<1>4. OnGpu(v) \in Nat /\ OnGpu(w) \in Nat /\ OnGpu(v) <= OnGpu(w)
  BY <1>1, FieldSumsGrow
<1>5. OnCpu(v) \in Nat /\ OnCpu(w) \in Nat /\ OnCpu(v) <= OnCpu(w)
  BY SamePositions, FieldSumsGrow
<1> HIDE DEF OnGpu, OnCpu
<1>6. /\ Tally(OnCpu(v), "REPORTED").value <= Tally(OnCpu(w), "REPORTED").value
      /\ Tally(OnCpu(v), "REPORTED").available => Tally(OnCpu(w), "REPORTED").available
  BY <1>5, TallyKept
<1> DEFINE Of(x) == IF Gpu(x) # {} THEN "MEASURED" ELSE "UNKNOWN"
<1>7. /\ Metric(OnGpu(v), Of(v), Gpu(v) # {}).value <= Metric(OnGpu(w), Of(w), Gpu(w) # {}).value
      /\ Metric(OnGpu(v), Of(v), Gpu(v) # {}).available
           => Metric(OnGpu(w), Of(w), Gpu(w) # {}).available
  BY <1>2, <1>4, MetricKept
<1> HIDE DEF Metric
<1> QED
  BY <1>3, <1>6, <1>7 DEF Kept

LEMMA TokensKept ==
  ASSUME NEW v, NEW w, NEW h, Grows(v, w, h), NEW old, old.evidence = v, NEW new, new.evidence = w,
         Dur(old, "DECODE") \in Nat, Dur(new, "DECODE") \in Nat,
         Dur(old, "DECODE") <= Dur(new, "DECODE")
  PROVE  Kept(Tokens(old), Tokens(new), DOMAIN Tokens(old) \ {"inter_token_ms"})
<1> HIDE DEF Dur
<1> DEFINE Steps(x) == Positions(x, "DECODE_STEP_START")
<1> DEFINE Count(x) == Cardinality(Steps(x))
<1> DEFINE Out(x) == LargestField(x, Steps(x), "output_tokens")
<1> DEFINE In(x) == LargestField(x, Typed(x, {"REQUEST", "PREFILL_START"}), "input_tokens")
<1> DEFINE Timed(t) == Count(t.evidence) > 0 /\ Dur(t, "DECODE") > 0
<1>1. Count(v) \in Nat /\ Count(w) \in Nat /\ Count(v) <= Count(w)
  BY SamePositions, CountGrows
<1>2. Out(v) \in Nat /\ Out(w) \in Nat /\ Out(v) <= Out(w)
  BY SamePositions, LargestFieldGrows
<1>3. In(v) \in Nat /\ In(w) \in Nat /\ In(v) <= In(w)
  BY SamePositions, LargestFieldGrows
<1>4. Timed(old) => Timed(new)
  BY <1>1
<1>5. ASSUME NEW t
      PROVE  /\ DOMAIN Tokens(t) = {"decode_steps", "output_tokens", "input_tokens", "inter_token_ms"}
             /\ Tokens(t).decode_steps = Tally(Count(t.evidence), "MEASURED")
             /\ Tokens(t).output_tokens = Tally(Out(t.evidence), "REPORTED")
             /\ Tokens(t).input_tokens = Tally(In(t.evidence), "MEASURED")
             /\ Tokens(t).inter_token_ms.available <=> Timed(t)
  BY DEF Tokens, LargestOf, LargestField, Metric
<1> HIDE DEF Count, Out, In, Timed
<1>6. /\ Tally(Count(v), "MEASURED").value <= Tally(Count(w), "MEASURED").value
      /\ Tally(Count(v), "MEASURED").available => Tally(Count(w), "MEASURED").available
  BY <1>1, TallyKept
<1>7. /\ Tally(Out(v), "REPORTED").value <= Tally(Out(w), "REPORTED").value
      /\ Tally(Out(v), "REPORTED").available => Tally(Out(w), "REPORTED").available
  BY <1>2, TallyKept
<1>8. /\ Tally(In(v), "MEASURED").value <= Tally(In(w), "MEASURED").value
      /\ Tally(In(v), "MEASURED").available => Tally(In(w), "MEASURED").available
  BY <1>3, TallyKept
<1>9. ASSUME NEW m \in DOMAIN Tokens(old)
      PROVE  /\ Tokens(old)[m].available => Tokens(new)[m].available
             /\ m # "inter_token_ms" => Tokens(old)[m].value <= Tokens(new)[m].value
  <2> HIDE DEF Tokens, Tally
  <2>1. m \in {"decode_steps", "output_tokens", "input_tokens", "inter_token_ms"}
    BY <1>5
  <2>2. CASE m = "decode_steps"
    BY <1>5, <1>6, <2>2
  <2>3. CASE m = "output_tokens"
    BY <1>5, <1>7, <2>3
  <2>4. CASE m = "input_tokens"
    BY <1>5, <1>8, <2>4
  <2>5. CASE m = "inter_token_ms"
    BY <1>4, <1>5, <2>5
  <2> QED
    BY <2>1, <2>2, <2>3, <2>4, <2>5
<1> QED
  BY <1>5, <1>9 DEF Kept

\* A list that has two elements of another has more than one.
LEMMA LongerList ==
  ASSUME NEW X, NEW a \in Seq(X), NEW b \in Seq(X), Distinguished(a), ToSet(a) \subseteq ToSet(b),
         Len(a) > 1
  PROVE  Len(b) > 1
<1>1. /\ DOMAIN a = 1..Len(a) /\ DOMAIN b = 1..Len(b) /\ Len(a) \in Nat /\ Len(b) \in Nat
      /\ 1 \in 1..Len(a) /\ 2 \in 1..Len(a)
  BY LenProperties
<1>2. a[1] # a[2]
  BY <1>1 DEF Distinguished
<1>3. a[1] \in ToSet(b) /\ a[2] \in ToSet(b)
  BY <1>1 DEF ToSet
<1>4. PICK i \in 1..Len(b), j \in 1..Len(b) : b[i] = a[1] /\ b[j] = a[2]
  BY <1>1, <1>3 DEF ToSet
<1>5. i # j
  BY <1>2, <1>4
<1> QED
  BY <1>1, <1>5

\* More evidence comes from no fewer boots and generations.
LEMMA DistinctGrow ==
  ASSUME NEW S, NEW v \in Seq(S), NEW w \in Seq(S), NEW h, Grows(v, w, h), NEW attr,
         Len(Distinct(v, attr)) > 1
  PROVE  Len(Distinct(w, attr)) > 1
<1> DEFINE a == Distinct(v, attr)
<1> DEFINE b == Distinct(w, attr)
<1> DEFINE X == {o[attr] : o \in S}
<1>1. /\ DOMAIN v = 1..Len(v) /\ DOMAIN w = 1..Len(w)
      /\ \A i \in DOMAIN v : h[i] \in DOMAIN w /\ w[h[i]] = v[i]
  BY LenProperties DEF Grows, Embeds
<1>2. a \in Seq(X) /\ ToSet(a) = {v[i][attr] : i \in 1..Len(v)}
  BY DistinctFacts
<1>3. b \in Seq(X) /\ ToSet(b) = {w[i][attr] : i \in 1..Len(w)}
  BY DistinctFacts
<1>4. Distinguished(a)
  BY DistinctFacts
<1>5. ToSet(a) \subseteq ToSet(b)
  BY <1>1, <1>2, <1>3
<1> HIDE DEF a, b, X
<1>6. Len(a) > 1 => Len(b) > 1
  BY <1>2, <1>3, <1>4, <1>5, LongerList
<1> QED
  BY <1>6 DEF a, b

\* Each side of compare_traces but its times.
LEMMA SidesKept ==
  ASSUME NEW S, NEW v \in Seq(S), NEW w \in Seq(S), NEW h, Grows(v, w, h),
         NEW old, old.evidence = v, old.boots = Distinct(v, "boot"),
         NEW new, new.evidence = w, new.boots = Distinct(w, "boot")
  PROVE  /\ \A f \in {"retries", "kv_hits", "kernel_hits", "spec_accepted", "bytes_h2d"} :
              Side(old)[f] <= Side(new)[f]
         /\ \A f \in {"worker_restart", "cold_model"} : Side(old)[f] => Side(new)[f]
<1>1. ASSUME NEW t PROVE CountType(old, t) <= CountType(new, t)
  BY SamePositions, CountGrows DEF CountType
<1>2. FieldSum(v, DOMAIN v, "bytes_h2d", 0) <= FieldSum(w, DOMAIN w, "bytes_h2d", 0)
  BY SamePositions, FieldSumsGrow
<1>3. AnyCold(old) => AnyCold(new)
  BY DEF AnyCold, Grows, Embeds
<1>4. Len(old.boots) > 1 => Len(new.boots) > 1
  BY DistinctGrow
<1>5. ASSUME NEW t
      PROVE  /\ Side(t).retries = CountType(t, "RETRY") /\ Side(t).kv_hits = CountType(t, "KV_HIT")
             /\ Side(t).kernel_hits = CountType(t, "KERNEL_HIT")
             /\ Side(t).spec_accepted = CountType(t, "SPECULATION_VERIFY")
             /\ Side(t).bytes_h2d = FieldSum(t.evidence, DOMAIN t.evidence, "bytes_h2d", 0)
  BY DEF Side, SumOf, FieldSum
<1>6. ASSUME NEW t
      PROVE  /\ Side(t).worker_restart <=> Len(t.boots) > 1
             /\ Side(t).cold_model <=> AnyCold(t)
  BY Zenon DEF Side
<1> HIDE DEF Side, CountType, AnyCold
<1>7. ASSUME NEW f \in {"retries", "kv_hits", "kernel_hits", "spec_accepted", "bytes_h2d"}
      PROVE  Side(old)[f] <= Side(new)[f]
  BY <1>1, <1>2, <1>5
<1>8. (Side(old).worker_restart => Side(new).worker_restart)
      /\ (Side(old).cold_model => Side(new).cold_model)
  BY Zenon, <1>3, <1>4, <1>6
<1> QED
  BY <1>7, <1>8

\* Comparing a request with itself after one more timed observation.
LEMMA OnlyAddsFacts ==
  ASSUME NEW S, \A x \in S : NaturalNumbers(x), NEW A, NEW o, NEW v, NEW w, Later(S, A, o, v, w),
         NEW old, old.evidence = v, old.phases = Phases(v), old.boots = Distinct(v, "boot"),
         NEW new, new.evidence = w, new.phases = Phases(w), new.boots = Distinct(w, "boot")
  PROVE  OnlyAdds(Attribute(old), Attribute(new), CompareTraces(old, new))
<1> DEFINE c == CompareTraces(old, new)
<1>1. /\ Comparable(S) /\ IsTimeline(v, A, S) /\ IsTimeline(w, A \cup {o}, S)
      /\ v \in Seq(S) /\ w \in Seq(S)
  BY DEF Later, IsTimeline
<1>2. PICK h : Grows(v, w, h)
  <2>1. \E h : Embeds(h, v, w)
    BY <1>1, TimelineEmbeds
  <2>2. IsNumbered(v) /\ IsNumbered(w)
    BY <1>1, TimelineNumbered
  <2> QED
    BY <2>1, <2>2 DEF Grows
<1>3. \A p \in Paired : Dur(old, p) \in Nat /\ Dur(new, p) \in Nat /\ Dur(old, p) <= Dur(new, p)
  BY SpansGrow
<1>4. ASSUME NEW p \in Paired, p \in DOMAIN c.phase_deltas PROVE c.phase_deltas[p] >= 0
  <2>1. c.phase_deltas[p] = Dur(new, p) - Dur(old, p)
    BY <1>4 DEF CompareTraces
  <2> QED
    BY <1>3, <2>1
<1>5. c.a = Side(old) /\ c.b = Side(new)
  BY DEF CompareTraces
<1>6. /\ \A f \in {"retries", "kv_hits", "kernel_hits", "spec_accepted", "bytes_h2d"} :
           c.a[f] <= c.b[f]
      /\ \A f \in {"worker_restart", "cold_model"} : c.a[f] => c.b[f]
  BY <1>1, <1>2, <1>5, SidesKept
<1>7. Kept(Times(old), Times(new), {})
  BY TimesKept
<1>8. Kept(Bytes(v), Bytes(w), ByteMetrics)
  <2>1. v # <<>> => w # <<>>
    <3>1. \A i \in DOMAIN v : h[i] \in DOMAIN w
      BY <1>2 DEF Grows, Embeds
    <3>2. v # <<>> => 1 \in DOMAIN v
      BY <1>1, EmptySeq, LenProperties
    <3>3. \A i : i \notin DOMAIN <<>>
      OBVIOUS
    <3> QED
      BY <3>1, <3>2, <3>3
  <2> QED
    BY <1>2, <2>1, BytesKept
<1>9. Kept(Reuse(v), Reuse(w), DOMAIN TypeOfCounter)
  BY <1>2, ReuseKept
<1>10. Kept(Speculation(v), Speculation(w), DOMAIN Speculation(v))
  BY <1>2, SpeculationKept
<1>11. Kept(Execution(v), Execution(w), DOMAIN Execution(v))
  BY <1>2, ExecutionKept
<1>12. Kept(Tokens(old), Tokens(new), DOMAIN Tokens(old) \ {"inter_token_ms"})
  <2>1. "DECODE" \in Paired
    BY DEF Paired
  <2> QED
    BY <1>2, <1>3, <2>1, TokensKept
<1>13. DOMAIN Bytes(v) = ByteMetrics /\ DOMAIN Reuse(v) = DOMAIN TypeOfCounter
  BY DEF Bytes, Reuse
<1>14. ASSUME NEW g \in DOMAIN Attribute(old), NEW m \in DOMAIN Attribute(old)[g]
       PROVE  /\ Attribute(old)[g][m].available => Attribute(new)[g][m].available
              /\ g # "times" /\ m # "inter_token_ms" =>
                   Attribute(old)[g][m].value <= Attribute(new)[g][m].value
  <2>1. g \in {"times", "bytes", "reuse", "speculation", "execution", "tokens"}
    BY <1>14 DEF Attribute
  <2>2. ASSUME NEW t
        PROVE  /\ Attribute(t).times = Times(t) /\ Attribute(t).bytes = Bytes(t.evidence)
               /\ Attribute(t).reuse = Reuse(t.evidence)
               /\ Attribute(t).speculation = Speculation(t.evidence)
               /\ Attribute(t).execution = Execution(t.evidence) /\ Attribute(t).tokens = Tokens(t)
    BY DEF Attribute
  <2> HIDE DEF Attribute, Times, Bytes, Reuse, Speculation, Execution, Tokens
  <2>3. CASE g = "times"
    BY <1>7, <1>14, <2>2, <2>3 DEF Kept
  <2>4. CASE g = "bytes"
    BY <1>8, <1>13, <1>14, <2>2, <2>4 DEF Kept
  <2>5. CASE g = "reuse"
    BY <1>9, <1>13, <1>14, <2>2, <2>5 DEF Kept
  <2>6. CASE g = "speculation"
    BY <1>10, <1>14, <2>2, <2>6 DEF Kept
  <2>7. CASE g = "execution"
    BY <1>11, <1>14, <2>2, <2>7 DEF Kept
  <2>8. CASE g = "tokens"
    BY <1>12, <1>14, <2>2, <2>8 DEF Kept
  <2> QED
    BY <2>1, <2>3, <2>4, <2>5, <2>6, <2>7, <2>8
<1> HIDE DEF c
<1> QED
  BY <1>4, <1>6, <1>14 DEF OnlyAdds, Paired, c

\* Whatever more timed evidence comes in, compare_traces and
\* attribute_resources show all they showed of the request, and no less of it.
THEOREM LateEvidenceOnlyAddsCorrect ==
  ASSUME NaturalFields
  PROVE  TailSpec => LateEvidenceOnlyAdds
<1> DEFINE Adds ==
      Ts(Last(arrived')) # 0 =>
        \E old \in {Reconstruct(arrived)}, new \in {Reconstruct(arrived')} :
          \E was \in {Attribute(old)}, is \in {Attribute(new)}, c \in {CompareTraces(old, new)} :
            OnlyAdds(was, is, c)
<1>1. ASSUME TraceInv, TraceInv', [TailNext]_tailvars PROVE [Adds]_tracevars
  <2>1. CASE TailNext
    <3> DEFINE v == Timeline(arrived)
    <3> DEFINE w == Timeline(arrived')
    <3> DEFINE old == Reconstruct(arrived)
    <3> DEFINE new == Reconstruct(arrived')
    <3>1. SUFFICES ASSUME Ts(Last(arrived')) # 0
                   PROVE  OnlyAdds(Attribute(old), Attribute(new), CompareTraces(old, new))
      OBVIOUS
    <3>2. PICK o \in pool : /\ o = Last(arrived') /\ Comparable(pool)
                            /\ ToSet(arrived) \in SUBSET pool
                            /\ IsTimeline(v, ToSet(arrived), pool)
                            /\ IsTimeline(w, ToSet(arrived) \cup {o}, pool)
      BY <1>1, <2>1, Arrives
    <3>3. Later(pool, ToSet(arrived), o, v, w)
      BY <3>1, <3>2 DEF Later
    <3>4. \A x \in pool : NaturalNumbers(x)
      BY <1>1 DEF TraceInv, NaturalFields
    <3>5. /\ old.evidence = v /\ old.phases = Phases(v) /\ old.boots = Distinct(v, "boot")
          /\ new.evidence = w /\ new.phases = Phases(w) /\ new.boots = Distinct(w, "boot")
      BY DEF Reconstruct
    <3> HIDE DEF v, w, old, new
    <3> QED
      BY <3>3, <3>4, <3>5, OnlyAddsFacts
  <2>2. CASE UNCHANGED tailvars
    BY <2>2 DEF tailvars, tracevars
  <2> QED
    BY <1>1, <2>1, <2>2
<1> QED
  BY <1>1, TraceInvariant, PTL DEF TailSpec, LateEvidenceOnlyAdds
=============================================================================
