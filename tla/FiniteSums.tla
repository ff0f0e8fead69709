----------------------------- MODULE FiniteSums -----------------------------
(***************************************************************************)
(* Inductions over the naturals and over finite sets, as facts about sets  *)
(* of numbers and sets of sets, and what they show of SumFunctionOnSet:    *)
(* a sum over a finite set may be taken in any order and in any parts.     *)
(***************************************************************************)
EXTENDS FiniteSetTheorems, WellFoundedInduction, TLAPS

-----------------------------------------------------------------------------
(* Induction *)

\* A nonempty set of naturals has a least element.
LEMMA LeastExists ==
  ASSUME NEW S \in SUBSET Nat, S # {}
  PROVE  \E x \in S : \A y \in S : x <= y
<1> DEFINE R == OpToRel(<, Nat)
<1>1. IsWellFoundedOn(R, Nat)
  BY NatLessThanWellFounded
<1>2. \A x, y \in Nat : <<x, y>> \in R <=> x < y
  BY DEF OpToRel
<1> HIDE DEF R
<1>3. PICK x \in S : \A y \in S : ~ (<<y, x>> \in R)
  BY <1>1, WFMin
<1>4. \A y \in S : ~ (y < x)
  BY <1>2, <1>3
<1> QED
  BY <1>4

\* Induction over the naturals, for the set of numbers that have a property.
LEMMA SetInduction ==
  ASSUME NEW T, 0 \in T, \A n \in Nat : n \in T => n + 1 \in T
  PROVE  Nat \subseteq T
<1> DEFINE Fails == Nat \ T
<1>1. SUFFICES ASSUME Fails # {} PROVE FALSE
  OBVIOUS
<1>2. PICK n \in Fails : \A m \in Fails : n <= m
  BY <1>1, LeastExists
<1>3. n # 0
  BY <1>2
<1>4. n - 1 \in Nat /\ n - 1 \in T
  <2>1. n - 1 \in Nat /\ ~(n <= n - 1)
    BY <1>2, <1>3
  <2> QED
    BY <1>2, <2>1
<1>5. (n - 1) + 1 \in T
  BY <1>4
<1> QED
  BY <1>2, <1>5

\* Induction over a finite set, one element at a time.
LEMMA FiniteInduction ==
  ASSUME NEW S, IsFiniteSet(S), NEW C, {} \in C,
         \A T \in SUBSET S : \A x \in S \ T : T \in C => T \cup {x} \in C
  PROVE  S \in C
<1> DEFINE Good == {n \in Nat : \A T \in SUBSET S : Cardinality(T) = n => T \in C}
<1>1. 0 \in Good
  <2>1. \A T \in SUBSET S : Cardinality(T) = 0 => T = {}
    BY FS_EmptySet, FS_Subset
  <2> QED
    BY <2>1
<1>2. ASSUME NEW n \in Nat, n \in Good PROVE n + 1 \in Good
  <2>1. ASSUME NEW T \in SUBSET S, Cardinality(T) = n + 1 PROVE T \in C
    <3>1. IsFiniteSet(T)
      BY FS_Subset
    <3>2. T # {}
      <4>1. Cardinality(T) # 0
        BY <2>1
      <4> QED
        BY <3>1, <4>1, FS_EmptySet
    <3>3. PICK x \in T : TRUE
      BY <3>2
    <3>4. Cardinality(T \ {x}) = Cardinality(T) - 1
      BY <3>1, <3>3, FS_RemoveElement
    <3>5. Cardinality(T \ {x}) = n
      BY <2>1, <3>4
    <3>6. T \ {x} \in C
      BY <1>2, <3>5
    <3>7. (T \ {x}) \cup {x} \in C
      BY <3>3, <3>6
    <3>8. (T \ {x}) \cup {x} = T
      BY <3>3
    <3> QED
      BY <3>7, <3>8
  <2> QED
    BY <2>1
<1>3. Nat \subseteq Good
  <2> HIDE DEF Good
  <2> QED
    BY <1>1, <1>2, SetInduction
<1>4. Cardinality(S) \in Nat
  BY FS_CardinalityType
<1>5. Cardinality(S) \in Good
  BY <1>3, <1>4
<1> QED
  BY <1>5

\* The first n numbers.
LEMMA FirstNumbers ==
  ASSUME NEW n \in Nat
  PROVE  IsFiniteSet(1..n) /\ Cardinality(1..n) = n
<1>1. 1 \in Int /\ n \in Int /\ (1 > n => n = 0) /\ n - 1 + 1 = n
  OBVIOUS
<1> QED
  BY <1>1, FS_Interval

\* What a function makes of finitely many elements is finite.
LEMMA FiniteImage ==
  ASSUME NEW S, IsFiniteSet(S), NEW h
  PROVE  IsFiniteSet({h[x] : x \in S})
<1> DEFINE T == {h[x] : x \in S}
<1> DEFINE m == [x \in S |-> h[x]]
<1>1. m \in Surjection(S, T)
  BY DEF Surjection
<1> HIDE DEF m, T
<1>2. IsFiniteSet(T)
  BY <1>1, FS_Surjection
<1> QED
  BY <1>2 DEF T

-----------------------------------------------------------------------------
(* Sums over finite sets *)

\* g gives the sum of f over each subset of S: any element may be split off.
IsSum(g, S, f) ==
  /\ g \in [SUBSET S -> Nat]
  /\ g[{}] = 0
  /\ \A T \in SUBSET S : \A x \in T : g[T] = f[x] + g[T \ {x}]

LEMMA SumExists ==
  ASSUME NEW S, IsFiniteSet(S), NEW f, \A x \in S : f[x] \in Nat
  PROVE  \E g : IsSum(g, S, f)
<1> DEFINE C == {T \in SUBSET S : \E g : IsSum(g, T, f)}
<1>1. {} \in C
  <2> DEFINE zero == [T \in SUBSET {} |-> 0]
  <2>1. IsSum(zero, {}, f)
    BY DEF IsSum
  <2> QED
    BY <2>1
<1>2. ASSUME NEW U \in SUBSET S, NEW x \in S \ U, U \in C PROVE U \cup {x} \in C
  <2>1. PICK g : IsSum(g, U, f)
    BY <1>2
  <2> DEFINE V == U \cup {x}
  <2> DEFINE h == [T \in SUBSET V |-> IF x \in T THEN f[x] + g[T \ {x}] ELSE g[T]]
  <2>2. h \in [SUBSET V -> Nat]
    BY <2>1 DEF IsSum
  <2>3. h[{}] = 0
    BY <2>1 DEF IsSum
  <2>4. ASSUME NEW T \in SUBSET V, NEW y \in T PROVE h[T] = f[y] + h[T \ {y}]
    <3>1. T \ {x} \in SUBSET U
      OBVIOUS
    <3>2. CASE y = x
      BY <3>2
    <3>3. CASE y # x /\ x \in T
      <4>1. y \in T \ {x} /\ (T \ {x}) \ {y} = (T \ {y}) \ {x}
        BY <3>3
      <4>2. g[T \ {x}] = f[y] + g[(T \ {y}) \ {x}]
        BY <2>1, <3>1, <4>1 DEF IsSum
      <4>3. h[T] = f[x] + g[T \ {x}] /\ h[T \ {y}] = f[x] + g[(T \ {y}) \ {x}]
        BY <3>3
      <4>4. (T \ {y}) \ {x} \in SUBSET U
        OBVIOUS
      <4>5. g[(T \ {y}) \ {x}] \in Nat
        BY <2>1, <4>4 DEF IsSum
      <4> QED
        BY <4>2, <4>3, <4>5
    <3>4. CASE x \notin T
      <4>1. T \in SUBSET U /\ h[T] = g[T] /\ h[T \ {y}] = g[T \ {y}]
        BY <3>4
      <4> QED
        BY <2>1, <4>1 DEF IsSum
    <3> QED
      BY <3>2, <3>3, <3>4
  <2>5. IsSum(h, V, f)
    <3> HIDE DEF h
    <3> QED
      BY <2>2, <2>3, <2>4 DEF IsSum
  <2> QED
    BY <2>5
<1>3. S \in C
  <2> HIDE DEF C
  <2> QED
    BY <1>1, <1>2, FiniteInduction
<1> QED
  BY <1>3

\* SumFunctionOnSet is that sum.
LEMMA SumIsUnique ==
  ASSUME NEW S, IsFiniteSet(S), NEW f, \A x \in S : f[x] \in Nat, NEW g, IsSum(g, S, f)
  PROVE  SumFunctionOnSet(f, S) = g[S]
<1> DEFINE Body(h) == [T \in SUBSET S |-> IF T = {} THEN 0
                                          ELSE LET x == CHOOSE y \in T : TRUE
                                               IN  f[x] + h[T \ {x}]]
<1> DEFINE Add == CHOOSE h : h = Body(h)
<1>1. SumFunctionOnSet(f, S) = Add[S]
  BY DEF SumFunctionOnSet, FoldFunctionOnSet, MapThenFoldSet
<1>2. g = Body(g)
  <2>1. ASSUME NEW T \in SUBSET S
        PROVE  g[T] = IF T = {} THEN 0
                      ELSE LET x == CHOOSE y \in T : TRUE IN f[x] + g[T \ {x}]
    BY DEF IsSum
  <2> QED
    BY <2>1 DEF IsSum
<1>3. Add = Body(Add)
  <2> HIDE DEF Body
  <2> QED
    BY <1>2
<1> HIDE DEF Add
<1> DEFINE Good == {n \in Nat : \A T \in SUBSET S : Cardinality(T) = n => Add[T] = g[T]}
<1>4. 0 \in Good
  <2>1. \A T \in SUBSET S : Cardinality(T) = 0 => T = {}
    BY FS_EmptySet, FS_Subset
  <2>2. Add[{}] = 0
    BY <1>3
  <2>3. g[{}] = 0
    BY DEF IsSum
  <2> QED
    BY <2>1, <2>2, <2>3
<1>5. ASSUME NEW n \in Nat, n \in Good PROVE n + 1 \in Good
  <2>1. ASSUME NEW T \in SUBSET S, Cardinality(T) = n + 1 PROVE Add[T] = g[T]
    <3>1. IsFiniteSet(T)
      BY FS_Subset
    <3>2. T # {}
      BY <2>1, FS_EmptySet
    <3> DEFINE x == CHOOSE y \in T : TRUE
    <3>3. x \in T
      BY <3>2
    <3>4. Add[T] = f[x] + Add[T \ {x}]
      BY <1>3, <3>2
    <3>5. g[T] = f[x] + g[T \ {x}]
      BY <3>3 DEF IsSum
    <3> HIDE DEF x
    <3>6. Cardinality(T \ {x}) = Cardinality(T) - 1
      BY <3>1, <3>3, FS_RemoveElement
    <3>7. Cardinality(T \ {x}) = n
      BY <2>1, <3>6
    <3>8. Add[T \ {x}] = g[T \ {x}]
      BY <1>5, <3>7
    <3> QED
      BY <3>4, <3>5, <3>8
  <2> QED
    BY <2>1
<1>6. Nat \subseteq Good
  <2> HIDE DEF Good
  <2> QED
    BY <1>4, <1>5, SetInduction
<1>7. Cardinality(S) \in Good
  BY <1>6, FS_CardinalityType
<1> QED
  BY <1>1, <1>7

\* The empty sum is 0, and any element can be split off a sum.
LEMMA SumFacts ==
  ASSUME NEW S, IsFiniteSet(S), NEW f, \A x \in S : f[x] \in Nat
  PROVE  /\ SumFunctionOnSet(f, S) \in Nat
         /\ S = {} => SumFunctionOnSet(f, S) = 0
         /\ \A x \in S : \A h : (\A y \in S \ {x} : h[y] = f[y])
                              => SumFunctionOnSet(f, S) = f[x] + SumFunctionOnSet(h, S \ {x})
<1>1. PICK g : IsSum(g, S, f)
  BY SumExists
<1>2. SumFunctionOnSet(f, S) = g[S]
  BY <1>1, SumIsUnique
<1>3. ASSUME NEW x \in S, NEW h, \A y \in S \ {x} : h[y] = f[y]
      PROVE  SumFunctionOnSet(f, S) = f[x] + SumFunctionOnSet(h, S \ {x})
  <2> DEFINE U == S \ {x}
  <2> DEFINE r == [T \in SUBSET U |-> g[T]]
  <2>1. IsFiniteSet(U)
    BY FS_Subset
  <2>2. \A y \in U : h[y] \in Nat
    BY <1>3
  <2>3. IsSum(r, U, h)
    <3>1. r \in [SUBSET U -> Nat] /\ r[{}] = 0
      BY <1>1 DEF IsSum
    <3>2. ASSUME NEW T \in SUBSET U, NEW y \in T PROVE r[T] = h[y] + r[T \ {y}]
      <4>1. g[T] = f[y] + g[T \ {y}]
        BY <1>1 DEF IsSum
      <4>2. h[y] = f[y]
        BY <1>3
      <4> QED
        BY <4>1, <4>2
    <3> HIDE DEF r, U
    <3> QED
      BY <3>1, <3>2 DEF IsSum
  <2>4. r[U] = g[U]
    OBVIOUS
  <2> HIDE DEF r
  <2>5. SumFunctionOnSet(h, U) = r[U]
    <3> HIDE DEF U
    <3> QED
      BY <2>1, <2>2, <2>3, SumIsUnique
  <2>6. g[S] = f[x] + g[U]
    BY <1>1 DEF IsSum
  <2> QED
    BY <1>2, <2>4, <2>5, <2>6
<1>4. SumFunctionOnSet(f, S) \in Nat
  BY <1>1, <1>2 DEF IsSum
<1>5. S = {} => SumFunctionOnSet(f, S) = 0
  BY <1>1, <1>2 DEF IsSum
<1> QED
  BY <1>3, <1>4, <1>5

\* Sums of functions that agree are equal.
LEMMA SumSame ==
  ASSUME NEW S, IsFiniteSet(S), NEW f, NEW h, \A x \in S : f[x] \in Nat /\ h[x] = f[x]
  PROVE  SumFunctionOnSet(h, S) = SumFunctionOnSet(f, S)
<1>1. PICK g : IsSum(g, S, f)
  BY SumExists
<1>2. IsSum(g, S, h)
  BY <1>1 DEF IsSum
<1>3. SumFunctionOnSet(f, S) = g[S]
  BY <1>1, SumIsUnique
<1>4. SumFunctionOnSet(h, S) = g[S]
  <2>1. \A x \in S : h[x] \in Nat
    OBVIOUS
  <2> QED
    BY <1>2, <2>1, SumIsUnique
<1> QED
  BY <1>3, <1>4

\* The sum over a set is the sum over any part of it and over the rest.
LEMMA SumSplit ==
  ASSUME NEW S, IsFiniteSet(S), NEW f, \A x \in S : f[x] \in Nat, NEW P \in SUBSET S
  PROVE  SumFunctionOnSet(f, S) = SumFunctionOnSet(f, S \ P) + SumFunctionOnSet(f, P)
<1> DEFINE C == {T \in SUBSET P : SumFunctionOnSet(f, S) = SumFunctionOnSet(f, S \ T) + SumFunctionOnSet(f, T)}
<1>1. {} \in C
  <2>1. IsFiniteSet({}) /\ S \ {} = S
    BY FS_EmptySet
  <2>2. SumFunctionOnSet(f, {}) = 0
    BY <2>1, SumFacts
  <2>3. SumFunctionOnSet(f, S) \in Nat
    BY SumFacts
  <2> QED
    BY <2>1, <2>2, <2>3
<1>2. ASSUME NEW T \in SUBSET P, NEW x \in P \ T, T \in C PROVE T \cup {x} \in C
  <2> DEFINE U == T \cup {x}
  <2> DEFINE R == S \ T
  <2>1. IsFiniteSet(U) /\ IsFiniteSet(R) /\ IsFiniteSet(T) /\ IsFiniteSet(R \ {x})
    BY FS_Subset
  <2>2. x \in U /\ U \ {x} = T /\ x \in R /\ R \ {x} = S \ U
    BY <1>2
  <2>3. (\A y \in U : f[y] \in Nat) /\ (\A y \in R : f[y] \in Nat) /\ (\A y \in T : f[y] \in Nat)
        /\ (\A y \in R \ {x} : f[y] \in Nat) /\ f[x] \in Nat
    BY <1>2
  <2> HIDE DEF U, R
  <2>4. SumFunctionOnSet(f, U) = f[x] + SumFunctionOnSet(f, U \ {x})
    BY <2>1, <2>2, <2>3, SumFacts
  <2>5. SumFunctionOnSet(f, R) = f[x] + SumFunctionOnSet(f, R \ {x})
    BY <2>1, <2>2, <2>3, SumFacts
  <2>6. SumFunctionOnSet(f, T) \in Nat
    BY <2>1, <2>3, SumFacts
  <2>7. SumFunctionOnSet(f, R \ {x}) \in Nat
    BY <2>1, <2>3, SumFacts
  <2>8. SumFunctionOnSet(f, S) = SumFunctionOnSet(f, R) + SumFunctionOnSet(f, T)
    BY <1>2 DEF R
  <2>9. SumFunctionOnSet(f, S) = SumFunctionOnSet(f, S \ U) + SumFunctionOnSet(f, U)
    <3>1. SumFunctionOnSet(f, U) = f[x] + SumFunctionOnSet(f, T)
      BY <2>2, <2>4
    <3>2. SumFunctionOnSet(f, R) = f[x] + SumFunctionOnSet(f, S \ U) /\ SumFunctionOnSet(f, S \ U) \in Nat
      BY <2>2, <2>5, <2>7
    <3>3. f[x] \in Nat
      BY <2>3
    <3> QED
      BY <2>6, <2>8, <3>1, <3>2, <3>3
  <2> QED
    BY <2>9 DEF U
<1>3. IsFiniteSet(P)
  BY FS_Subset
<1>4. P \in C
  <2> HIDE DEF C
  <2> QED
    BY <1>1, <1>2, <1>3, FiniteInduction
<1> QED
  BY <1>4

\* A sum of zeros.
LEMMA SumZero ==
  ASSUME NEW S, IsFiniteSet(S), NEW f, \A x \in S : f[x] = 0
  PROVE  SumFunctionOnSet(f, S) = 0
<1> DEFINE g == [T \in SUBSET S |-> 0]
<1>1. IsSum(g, S, f)
  BY DEF IsSum
<1>2. g[S] = 0 /\ \A x \in S : f[x] \in Nat
  OBVIOUS
<1> HIDE DEF g
<1> QED
  BY <1>1, <1>2, SumIsUnique

\* A part of a set of naturals has no larger sum.
LEMMA SumOfPart ==
  ASSUME NEW S, IsFiniteSet(S), NEW f, \A x \in S : f[x] \in Nat, NEW P \in SUBSET S
  PROVE  SumFunctionOnSet(f, P) <= SumFunctionOnSet(f, S)
<1>1. IsFiniteSet(P) /\ IsFiniteSet(S \ P)
  BY FS_Subset
<1>2. SumFunctionOnSet(f, S) = SumFunctionOnSet(f, S \ P) + SumFunctionOnSet(f, P)
  BY SumSplit
<1>3. SumFunctionOnSet(f, S \ P) \in Nat
  BY <1>1, SumFacts
<1>4. SumFunctionOnSet(f, P) \in Nat
  BY <1>1, SumFacts
<1> QED
  BY <1>2, <1>3, <1>4

\* As many ones as there are elements.
LEMMA SumOfOnes ==
  ASSUME NEW S, IsFiniteSet(S), NEW f, \A x \in S : f[x] = 1
  PROVE  SumFunctionOnSet(f, S) = Cardinality(S)
<1> DEFINE g == [T \in SUBSET S |-> Cardinality(T)]
<1>1. \A T \in SUBSET S : IsFiniteSet(T) /\ Cardinality(T) \in Nat
  BY FS_Subset, FS_CardinalityType
<1>2. ASSUME NEW T \in SUBSET S, NEW x \in T PROVE g[T] = f[x] + g[T \ {x}]
  <2>1. Cardinality(T \ {x}) = Cardinality(T) - 1
    BY <1>1, FS_RemoveElement
  <2>2. T \ {x} \in SUBSET S /\ f[x] = 1 /\ Cardinality(T) \in Nat
    BY <1>1
  <2> QED
    BY <2>1, <2>2
<1>3. IsSum(g, S, f)
  <2>1. g \in [SUBSET S -> Nat] /\ g[{}] = 0
    BY <1>1, FS_EmptySet
  <2> HIDE DEF g
  <2> QED
    BY <1>2, <2>1 DEF IsSum
<1>4. g[S] = Cardinality(S) /\ \A x \in S : f[x] \in Nat
  OBVIOUS
<1> HIDE DEF g
<1> QED
  BY <1>3, <1>4, SumIsUnique

\* h takes each element of S to another one.
OneToOne(h, S) == \A x, y \in S : h[x] = h[y] => x = y

\* The elements may be renamed.
LEMMA SumImage ==
  ASSUME NEW S, IsFiniteSet(S), NEW h, OneToOne(h, S), NEW f, NEW g,
         \A x \in S : f[x] \in Nat /\ g[h[x]] = f[x]
  PROVE  SumFunctionOnSet(g, {h[x] : x \in S}) = SumFunctionOnSet(f, S)
<1> DEFINE Image(T) == {h[x] : x \in T}
<1> DEFINE C == {T \in SUBSET S : /\ IsFiniteSet(Image(T))
                                 /\ SumFunctionOnSet(g, Image(T)) = SumFunctionOnSet(f, T)}
<1>1. {} \in C
  <2>1. IsFiniteSet({}) /\ Image({}) = {}
    BY FS_EmptySet
  <2>2. \A e : SumFunctionOnSet(e, {}) = 0
    BY <2>1, SumFacts
  <2> QED
    BY <2>1, <2>2
<1>2. ASSUME NEW T \in SUBSET S, NEW x \in S \ T, T \in C PROVE T \cup {x} \in C
  <2> DEFINE U == T \cup {x}
  <2>1. IsFiniteSet(U) /\ U \ {x} = T /\ x \in U /\ \A y \in U : f[y] \in Nat
    BY <1>2, FS_Subset
  <2>2. Image(U) = Image(T) \cup {h[x]} /\ h[x] \notin Image(T) /\ h[x] \in Image(U)
    BY <1>2 DEF OneToOne
  <2>3. Image(U) \ {h[x]} = Image(T)
    BY <2>2
  <2>4. IsFiniteSet(Image(U))
    BY <2>1, FiniteImage
  <2>5. \A z \in Image(U) : g[z] \in Nat
    <3>1. \A y \in U : g[h[y]] \in Nat
      OBVIOUS
    <3> QED
      BY <3>1
  <2>6. g[h[x]] = f[x]
    OBVIOUS
  <2> HIDE DEF U, Image
  <2>7. SumFunctionOnSet(f, U) = f[x] + SumFunctionOnSet(f, T)
    BY <2>1, SumFacts
  <2>8. SumFunctionOnSet(g, Image(U)) = g[h[x]] + SumFunctionOnSet(g, Image(T))
    BY <2>2, <2>3, <2>4, <2>5, SumFacts
  <2>9. SumFunctionOnSet(g, Image(U)) = SumFunctionOnSet(f, U)
    BY <1>2, <2>6, <2>7, <2>8
  <2> QED
    BY <2>4, <2>9 DEF U
<1>3. S \in C
  <2> HIDE DEF C
  <2> QED
    BY <1>1, <1>2, FiniteInduction
<1> QED
  BY <1>3

\* The elements of T that key maps to k.
GroupOf(key, T, k) == {x \in T : key[x] = k}

\* sums has the sum of f over each group.
AreGroupSums(sums, f, key, S, K) ==
  /\ \A x \in S : key[x] \in K
  /\ \A k \in K : sums[k] = SumFunctionOnSet(f, GroupOf(key, S, k))

\* A sum may be taken group by group.
LEMMA SumOfGroups ==
  ASSUME NEW S, IsFiniteSet(S), NEW f, \A x \in S : f[x] \in Nat, NEW key,
         NEW K, IsFiniteSet(K), NEW sums, AreGroupSums(sums, f, key, S, K)
  PROVE  SumFunctionOnSet(sums, K) = SumFunctionOnSet(f, S)
<1> DEFINE Above(T) == {x \in S : key[x] \in T}
<1> DEFINE C == {T \in SUBSET K : SumFunctionOnSet(sums, T) = SumFunctionOnSet(f, Above(T))}
<1>1. \A R \in SUBSET S : IsFiniteSet(R) /\ SumFunctionOnSet(f, R) \in Nat
  <2>1. ASSUME NEW R \in SUBSET S PROVE IsFiniteSet(R) /\ SumFunctionOnSet(f, R) \in Nat
    <3>1. IsFiniteSet(R)
      BY FS_Subset
    <3> QED
      BY <3>1, SumFacts
  <2> QED
    BY <2>1
<1>2. \A k : GroupOf(key, S, k) \in SUBSET S
  BY DEF GroupOf
<1>3. /\ \A x \in S : key[x] \in K
      /\ \A k \in K : sums[k] = SumFunctionOnSet(f, GroupOf(key, S, k))
  BY DEF AreGroupSums
<1>4. {} \in C
  <2>1. IsFiniteSet({}) /\ Above({}) = {}
    BY FS_EmptySet
  <2>2. \A e : SumFunctionOnSet(e, {}) = 0
    BY <2>1, SumFacts
  <2> QED
    BY <2>1, <2>2
<1>5. ASSUME NEW T \in SUBSET K, NEW k \in K \ T, T \in C PROVE T \cup {k} \in C
  <2> DEFINE U == T \cup {k}
  <2> DEFINE G == GroupOf(key, S, k)
  <2>1. IsFiniteSet(U) /\ U \ {k} = T /\ k \in U
    BY <1>5, FS_Subset
  <2>2. \A j \in U : sums[j] \in Nat
    BY <1>1, <1>2, <1>3, <1>5
  <2>3. Above(U) \ G = Above(T) /\ G \in SUBSET Above(U) /\ Above(U) \in SUBSET S
    BY <1>5 DEF GroupOf
  <2>4. IsFiniteSet(Above(U)) /\ \A x \in Above(U) : f[x] \in Nat
    BY <1>1, <2>3
  <2>5. sums[k] = SumFunctionOnSet(f, G)
    BY <1>3, <1>5
  <2>6. G \in SUBSET S /\ SumFunctionOnSet(f, G) \in Nat
    BY <1>1, <1>2
  <2> HIDE DEF U, G, Above
  <2>7. SumFunctionOnSet(sums, U) = sums[k] + SumFunctionOnSet(sums, T)
    BY <2>1, <2>2, SumFacts
  <2>8. SumFunctionOnSet(f, Above(U)) = SumFunctionOnSet(f, Above(T)) + SumFunctionOnSet(f, G)
    BY <2>3, <2>4, SumSplit
  <2>9. SumFunctionOnSet(f, Above(T)) \in Nat
    BY <1>1 DEF Above
  <2>10. SumFunctionOnSet(sums, U) = SumFunctionOnSet(f, Above(U))
    BY <1>5, <2>5, <2>6, <2>7, <2>8, <2>9
  <2> QED
    BY <2>10 DEF U
<1>6. K \in C
  <2> HIDE DEF C
  <2> QED
    BY <1>4, <1>5, FiniteInduction
<1>7. Above(K) = S
  BY <1>3
<1> QED
  BY <1>6, <1>7

\* A nonempty finite set of naturals has a largest element.
LEMMA LargestExists ==
  ASSUME NEW S \in SUBSET Nat, IsFiniteSet(S), S # {}
  PROVE  \E m \in S : \A y \in S : y <= m
<1> DEFINE C == {T \in SUBSET S : T # {} => \E m \in T : \A y \in T : y <= m}
<1>1. {} \in C
  OBVIOUS
<1>2. ASSUME NEW T \in SUBSET S, NEW x \in S \ T, T \in C PROVE T \cup {x} \in C
  <2>1. CASE T = {}
    <3>1. \A y \in T \cup {x} : y <= x
      BY <2>1
    <3> QED
      BY <3>1
  <2>2. CASE T # {}
    <3>1. PICK m \in T : \A y \in T : y <= m
      BY <1>2, <2>2
    <3>2. m \in Nat /\ x \in Nat /\ \A y \in T : y \in Nat
      OBVIOUS
    <3>3. CASE x <= m
      BY <3>1, <3>3
    <3>4. CASE m <= x
      <4>1. \A y \in T \cup {x} : y <= x
        BY <3>1, <3>2, <3>4
      <4> QED
        BY <4>1
    <3> QED
      BY <3>2, <3>3, <3>4
  <2> QED
    BY <2>1, <2>2
<1>3. S \in C
  <2> HIDE DEF C
  <2> QED
    BY <1>1, <1>2, FiniteInduction
<1> QED
  BY <1>3
=============================================================================
