--------------------------- MODULE LatencyProofs ---------------------------
(***************************************************************************)
(* Proofs about the latency decomposition, for every set of phase tables:  *)
(* the sweep awards every nanosecond to the right phase and none twice, and*)
(* the critical path is the longest chain of phases that do not overlap.   *)
(*                                                                         *)
(* The loops run over data of any size: the proofs use the inductions and *)
(* the facts about sums of FiniteSums.                                     *)
(***************************************************************************)
EXTENDS Latency, FiniteSums

-----------------------------------------------------------------------------
(* Least and greatest elements *)

\* SetMin chooses it.
LEMMA SetMinFacts ==
  ASSUME NEW S \in SUBSET Nat, S # {}
  PROVE  SetMin(S) \in S /\ \A y \in S : SetMin(S) <= y
BY LeastExists DEF SetMin

\* A finite set that is totally ordered by a transitive relation has a greatest
\* element.
LEMMA GreatestExists ==
  ASSUME NEW S, IsFiniteSet(S), S # {}, NEW R,
         \A x, y \in S : x = y \/ <<x, y>> \in R \/ <<y, x>> \in R,
         \A x, y, z \in S : <<x, y>> \in R /\ <<y, z>> \in R => <<x, z>> \in R
  PROVE  \E x \in S : \A y \in S : x = y \/ <<y, x>> \in R
<1> DEFINE Greatest(T) == \E x \in T : \A y \in T : x = y \/ <<y, x>> \in R
<1> DEFINE C == {T \in SUBSET S : T = {} \/ Greatest(T)}
<1>1. {} \in C
  OBVIOUS
<1>2. ASSUME NEW T \in SUBSET S, NEW x \in S \ T, T \in C PROVE T \cup {x} \in C
  <2>1. CASE T = {}
    BY <2>1
  <2>2. CASE T # {}
    <3>1. PICK g \in T : \A y \in T : g = y \/ <<y, g>> \in R
      BY <1>2, <2>2
    <3>2. CASE <<x, g>> \in R
      BY <3>1, <3>2
    <3>3. CASE <<g, x>> \in R
      <4>1. \A y \in T : <<y, x>> \in R
        BY <3>1, <3>3
      <4>2. Greatest(T \cup {x})
        BY <4>1
      <4> QED
        BY <4>2
    <3> QED
      BY <1>2, <3>1, <3>2, <3>3
  <2> QED
    BY <2>1, <2>2
<1>3. S \in C
  <2> HIDE DEF C
  <2> QED
    BY <1>1, <1>2, FiniteInduction
<1> QED
  BY <1>3

-----------------------------------------------------------------------------
(* Priorities *)

\* No two phases have the same priority.
LEMMA PriorityFacts ==
  /\ \A p \in Phase : Priority[p] \in 0..12
  /\ \A p, q \in Phase : Priority[p] = Priority[q] => p = q
<1>1. Phase = {"ARRIVAL", "ADMISSION", "QUEUE", "BATCH_WAIT", "DISPATCH", "TRANSFER", "PREFILL",
               "FIRST_TOKEN", "DECODE", "SPECULATION", "RETRY", "RECOVERY", "COMPLETION"}
  BY DEF Phase, PhaseIndex
<1>2. \A p \in Phase : Priority[p] \in 0..12
  BY <1>1 DEF Priority
<1>3. \A p, q \in Phase : Priority[p] = Priority[q] => p = q
  BY <1>1 DEF Priority
<1> QED
  BY <1>2, <1>3

\* The winner of a segment is the one interval of the highest priority.
LEMMA WinnerFacts ==
  ASSUME NEW S \in SUBSET Phase, S # {}
  PROVE  /\ Winner(S) \in S
         /\ \A q \in S : Priority[q] <= Priority[Winner(S)]
         /\ \A p \in S : (\A q \in S : Priority[q] <= Priority[p]) => p = Winner(S)
<1> DEFINE Lack == {12 - Priority[p] : p \in S}
<1>1. \A p \in S : Priority[p] \in 0..12
  BY PriorityFacts
<1>2. Lack \in SUBSET Nat /\ Lack # {}
  BY <1>1
<1>3. PICK x \in Lack : \A y \in Lack : x <= y
  BY <1>2, LeastExists
<1>4. PICK p \in S : x = 12 - Priority[p]
  BY <1>3
<1>5. \A q \in S : Priority[p] >= Priority[q]
  <2>1. ASSUME NEW q \in S PROVE Priority[p] >= Priority[q]
    <3>1. 12 - Priority[q] \in Lack
      OBVIOUS
    <3>2. 12 - Priority[p] <= 12 - Priority[q]
      BY <1>3, <1>4, <3>1
    <3> QED
      BY <1>1, <3>2
  <2> QED
    BY <2>1
<1>6. Winner(S) \in S /\ \A q \in S : Priority[Winner(S)] >= Priority[q]
  BY <1>5 DEF Winner
<1>7. \A r \in S : (\A q \in S : Priority[q] <= Priority[r]) => Priority[r] = Priority[Winner(S)]
  BY <1>1, <1>6
<1>8. \A q \in S : Priority[q] <= Priority[Winner(S)]
  BY <1>1, <1>6
<1> QED
  BY <1>6, <1>7, <1>8, PriorityFacts

-----------------------------------------------------------------------------
(* How much of an interval lies in a set *)

\* A segment that lies in T as a whole adds its length.
LEMMA SegmentInside ==
  ASSUME NEW a \in Nat, NEW b \in Nat, NEW c \in Nat, a <= b, b <= c,
         NEW T, b..(c - 1) \subseteq T
  PROVE  Cardinality((a..(c - 1)) \cap T) = Cardinality((a..(b - 1)) \cap T) + (c - b)
<1> DEFINE Old == (a..(b - 1)) \cap T
<1> DEFINE New == b..(c - 1)
<1>1. (a..(c - 1)) \cap T = Old \cup New
  OBVIOUS
<1>2. Old \cap New = {}
  OBVIOUS
<1>3. IsFiniteSet(a..(b - 1))
  BY FS_Interval
<1>4. IsFiniteSet(Old) /\ Cardinality(Old) \in Nat
  BY <1>3, FS_Subset, FS_CardinalityType
<1>5. IsFiniteSet(New) /\ Cardinality(New) = IF b > c - 1 THEN 0 ELSE (c - 1) - b + 1
  BY FS_Interval
<1>6. Cardinality(New) = c - b
  BY <1>5
<1>7. Cardinality(Old \cup New) = Cardinality(Old) + Cardinality(New) - Cardinality(Old \cap New)
  BY <1>4, <1>5, FS_Union
<1>8. Cardinality(Old \cap New) = 0
  BY <1>2, FS_EmptySet
<1>9. Cardinality(Old \cup New) = Cardinality(Old) + (c - b)
  <2> HIDE DEF Old, New
  <2> QED
    BY <1>4, <1>6, <1>7, <1>8
<1> QED
  BY <1>1, <1>9

\* A segment outside of T adds nothing.
LEMMA SegmentOutside ==
  ASSUME NEW a \in Nat, NEW b \in Nat, NEW c \in Nat, a <= b, b <= c,
         NEW T, (b..(c - 1)) \cap T = {}
  PROVE  Cardinality((a..(c - 1)) \cap T) = Cardinality((a..(b - 1)) \cap T)
<1>1. (a..(c - 1)) \cap T = (a..(b - 1)) \cap T
  <2>1. ASSUME NEW t \in a..(c - 1), t \in T PROVE t \in a..(b - 1)
    <3>1. t \notin b..(c - 1)
      BY <2>1
    <3> QED
      BY <3>1
  <2> QED
    BY <2>1
<1> QED
  BY <1>1

-----------------------------------------------------------------------------
(* The invariant of the sweep *)

\* The nanoseconds the sweep has awarded, those some phase claims, and those a
\* phase claims with the highest priority.
Swept == IF IVs = {} THEN {} ELSE SetMin(Coords)..(prev - 1)
Claimed == {t \in Nat : Claims(t) # {}}
Strongest(p, t) == p \in Claims(t) /\ \A q \in Claims(t) : Priority[q] <= Priority[p]
Won(p) == {t \in Nat : Strongest(p, t)}

\* The sweep stands at a coordinate and has exactly the greater ones before it.
SweepInv ==
  /\ IsPhaseTable(trace)
  /\ todo \in SUBSET Nat
  /\ prev \in Nat
  /\ covered \in Nat
  /\ exclusive \in [IVs -> Nat]
  /\ IVs = {} => todo = {}
  /\ IVs # {} => prev \in Coords /\ todo = {c \in Coords : prev < c}
  /\ pc # "sweep" => todo = {}
  /\ covered = Cardinality(Swept \cap Claimed)
  /\ \A p \in IVs : exclusive[p] = Cardinality(Swept \cap Won(p))

\* The phases of a trace and their coordinates.
LEMMA TraceFacts ==
  ASSUME IsPhaseTable(trace)
  PROVE  /\ IVs \subseteq Phase
         /\ \A p \in IVs : trace[p].start \in Nat /\ trace[p].end \in Nat
         /\ Coords \in SUBSET Nat
         /\ IVs # {} => Coords # {}
         /\ \A p \in IVs : trace[p].start \in Coords /\ trace[p].end \in Coords
<1>1. IVs \subseteq Phase
  BY DEF IsPhaseTable, IVs
<1>2. \A p \in IVs : trace[p] \in IntervalType
  BY DEF IsPhaseTable, IVs
<1>3. \A p \in IVs : trace[p].start \in Nat /\ trace[p].end \in Nat
  BY <1>2 DEF IntervalType
<1>4. \A p \in IVs : trace[p].start \in Coords /\ trace[p].end \in Coords
  BY DEF Coords
<1> QED
  BY <1>1, <1>3, <1>4 DEF Coords

\* SweepExact, with the sets of the invariant.
LEMMA SweptIsExact == SweepInv => SweepExact
<1> SUFFICES ASSUME SweepInv PROVE SweepExact
  OBVIOUS
<1>1. Swept \in SUBSET Nat
  <2>1. CASE IVs = {}
    BY <2>1 DEF Swept
  <2>2. CASE IVs # {}
    <3>1. SetMin(Coords) \in Nat
      BY <2>2, TraceFacts, SetMinFacts DEF SweepInv
    <3> QED
      BY <2>2, <3>1 DEF Swept, SweepInv
  <2> QED
    BY <2>1, <2>2
<1>2. Swept \cap Claimed = {t \in Swept : Claims(t) # {}}
  BY <1>1 DEF Claimed
<1>3. \A p \in IVs :
        Swept \cap Won(p)
          = {t \in Swept : p \in Claims(t) /\ \A q \in Claims(t) : Priority[q] <= Priority[p]}
  BY <1>1 DEF Won, Strongest
<1>4. covered = Cardinality({t \in Swept : Claims(t) # {}})
  BY <1>2 DEF SweepInv
<1>5. \A p \in IVs :
        exclusive[p]
          = Cardinality({t \in Swept : p \in Claims(t) /\ \A q \in Claims(t) : Priority[q] <= Priority[p]})
  BY <1>3 DEF SweepInv
<1> QED
  BY <1>4, <1>5 DEF SweepExact, Swept

\* The decomposition begins with some table of phases.
Start == IsPhaseTable(trace) /\ Begin

LEMMA InitStarts == Init => Start
BY TracesAssumption DEF Init, Start

LEMMA SweepInit == Start => SweepInv
<1> SUFFICES ASSUME Start PROVE SweepInv
  OBVIOUS
<1>0. /\ IsPhaseTable(trace) /\ pc = "sweep" /\ covered = 0
      /\ exclusive = [p \in IVs |-> 0]
      /\ todo = Coords \ {prev}
      /\ IVs = {} => prev = 0
      /\ IVs # {} => prev = SetMin(Coords)
  BY DEF Start, Begin
<1>1. CASE IVs = {}
  <2>1. Coords = {}
    BY <1>1 DEF Coords
  <2>2. Swept = {}
    BY <1>1 DEF Swept
  <2>3. covered = Cardinality(Swept \cap Claimed)
    BY <1>0, <2>2, FS_EmptySet
  <2> QED
    BY <1>0, <1>1, <2>1, <2>3 DEF SweepInv
<1>2. CASE IVs # {}
  <2>1. SetMin(Coords) \in Coords /\ \A c \in Coords : SetMin(Coords) <= c
    BY <1>0, <1>2, TraceFacts, SetMinFacts
  <2>2. Coords \in SUBSET Nat
    BY <1>0, TraceFacts
  <2>3. prev \in Coords /\ \A c \in Coords : prev <= c
    BY <1>0, <1>2, <2>1
  <2>4. todo = {c \in Coords : prev < c}
    <3>1. \A c \in Coords : c # prev <=> prev < c
      BY <2>2, <2>3
    <3> QED
      BY <1>0, <3>1
  <2>5. Swept = {}
    BY <1>0, <1>2, <2>2, <2>3 DEF Swept
  <2>6. covered = Cardinality(Swept \cap Claimed)
    BY <1>0, <2>5, FS_EmptySet
  <2>7. \A p \in IVs : exclusive[p] = Cardinality(Swept \cap Won(p))
    BY <1>0, <2>5, FS_EmptySet
  <2>8. todo \in SUBSET Nat /\ prev \in Nat
    BY <2>2, <2>3, <2>4
  <2>9. covered \in Nat /\ exclusive \in [IVs -> Nat]
    BY <1>0
  <2> QED
    BY <1>0, <1>2, <2>3, <2>4, <2>6, <2>7, <2>8, <2>9 DEF SweepInv
<1> QED
  BY <1>1, <1>2

\* Between two neighbouring coordinates every nanosecond is claimed by the
\* same phases: those that are active at the midpoint.
LEMMA SameClaims ==
  ASSUME SweepInv, todo # {},
         NEW t \in prev..(SetMin(todo) - 1)
  PROVE  Claims(t) = {p \in IVs : Covers(trace[p], Mid(SetMin(todo)))}
<1> DEFINE cur == SetMin(todo)
<1> DEFINE mid == Mid(cur)
<1>1. cur \in todo /\ \A c \in todo : cur <= c
  BY SetMinFacts DEF SweepInv
<1>2. IVs # {} /\ todo = {c \in Coords : prev < c} /\ prev \in Nat
  BY DEF SweepInv
<1>3. cur \in Nat /\ prev < cur
  BY <1>1, <1>2, TraceFacts DEF SweepInv
<1> HIDE DEF cur
<1>4. mid \in prev..(cur - 1)
  BY <1>2, <1>3 DEF Mid
<1> HIDE DEF mid
<1>5. \A c \in Coords : c \in Nat /\ (c <= prev \/ cur <= c)
  BY <1>1, <1>2, TraceFacts DEF SweepInv
<1>6. \A c \in Coords : (c <= t <=> c <= mid) /\ (t < c <=> mid < c)
  <2>1. t \in prev..(cur - 1)
    BY DEF cur
  <2> QED
    BY <1>2, <1>3, <1>4, <1>5, <2>1
<1>7. \A p \in IVs : (trace[p].start <= t /\ t < trace[p].end) <=> Covers(trace[p], mid)
  BY <1>6, TraceFacts DEF Covers, SweepInv
<1> QED
  BY <1>7 DEF Claims, cur, mid

\* A segment adds its length to what is covered, and to the share of the phase
\* that wins it, and nothing to any other.
LEMMA SweepStep == SweepInv /\ Sweep => SweepInv'
<1> SUFFICES ASSUME SweepInv, Sweep PROVE SweepInv'
  OBVIOUS
<1> DEFINE cur == SetMin(todo)
<1> DEFINE active == {p \in IVs : Covers(trace[p], Mid(cur))}
<1> DEFINE from == SetMin(Coords)
<1>1. cur \in todo /\ \A c \in todo : cur <= c
  BY SetMinFacts DEF SweepInv, Sweep
<1>2. IVs # {} /\ todo = {c \in Coords : prev < c} /\ prev \in Coords
  BY <1>1 DEF SweepInv
<1>3. /\ from \in Nat /\ prev \in Nat /\ cur \in Nat
      /\ from <= prev /\ prev < cur
  BY <1>1, <1>2, TraceFacts, SetMinFacts DEF SweepInv
<1>4. /\ trace' = trace /\ pc' = pc /\ prev' = cur /\ todo' = todo \ {cur}
      /\ active = {} => exclusive' = exclusive /\ covered' = covered
      /\ active # {} => /\ exclusive' = [exclusive EXCEPT ![Winner(active)] = @ + (cur - prev)]
                        /\ covered' = covered + (cur - prev)
  BY DEF Sweep
<1>5. IVs' = IVs /\ Coords' = Coords
  BY <1>4 DEF IVs, Coords
<1>6. Claimed' = Claimed /\ \A p : Won(p)' = Won(p)
  BY <1>4, <1>5 DEF Claimed, Won, Strongest, Claims
<1>7. Swept = from..(prev - 1) /\ Swept' = from..(cur - 1)
  BY <1>2, <1>4, <1>5 DEF Swept
<1>8. \A t \in prev..(cur - 1) : t \in Nat /\ Claims(t) = active
  BY <1>1, <1>3, SameClaims
<1>9. todo' \in SUBSET Nat /\ todo' = {c \in Coords : cur < c} /\ cur \in Coords
  <2>1. \A c \in Coords : c \in Nat
    BY TraceFacts DEF SweepInv
  <2>2. \A c \in Coords : (prev < c /\ c # cur) <=> cur < c
    BY <1>1, <1>2, <1>3, <2>1
  <2> QED
    BY <1>1, <1>2, <1>4, <2>1, <2>2
<1>10. pc = "sweep"
  BY DEF Sweep
<1> HIDE DEF cur, active, from
<1>11. CASE active = {}
  <2>1. (prev..(cur - 1)) \cap Claimed = {}
    BY <1>8, <1>11 DEF Claimed
  <2>2. Cardinality(Swept' \cap Claimed) = Cardinality(Swept \cap Claimed)
    BY <1>3, <1>7, <2>1, SegmentOutside
  <2>3. ASSUME NEW p \in IVs
        PROVE  Cardinality(Swept' \cap Won(p)) = Cardinality(Swept \cap Won(p))
    <3>1. (prev..(cur - 1)) \cap Won(p) = {}
      BY <1>8, <1>11 DEF Won, Strongest
    <3> QED
      BY <1>3, <1>7, <3>1, SegmentOutside
  <2>4. covered' = Cardinality(Swept' \cap Claimed')
    BY <1>4, <1>6, <1>11, <2>2 DEF SweepInv
  <2>5. \A p \in IVs' : exclusive'[p] = Cardinality(Swept' \cap Won(p)')
    BY <1>4, <1>5, <1>6, <1>11, <2>3 DEF SweepInv
  <2>6. covered' \in Nat /\ exclusive' \in [IVs' -> Nat]
    BY <1>4, <1>5, <1>11 DEF SweepInv
  <2> QED
    BY <1>2, <1>3, <1>4, <1>5, <1>9, <1>10, <2>4, <2>5, <2>6 DEF SweepInv
<1>12. CASE active # {}
  <2> DEFINE w == Winner(active)
  <2>1. active \subseteq IVs /\ active \subseteq Phase
    BY TraceFacts DEF active, SweepInv
  <2>2. /\ w \in active
        /\ \A q \in active : Priority[q] <= Priority[w]
        /\ \A p \in active : (\A q \in active : Priority[q] <= Priority[p]) => p = w
    BY <1>12, <2>1, WinnerFacts
  <2> HIDE DEF w
  <2>3. prev..(cur - 1) \subseteq Claimed
    BY <1>8, <1>12 DEF Claimed
  <2>4. Cardinality(Swept' \cap Claimed) = Cardinality(Swept \cap Claimed) + (cur - prev)
    <3>1. Cardinality((from..(cur - 1)) \cap Claimed)
            = Cardinality((from..(prev - 1)) \cap Claimed) + (cur - prev)
      <4>1. from \in Nat /\ prev \in Nat /\ cur \in Nat /\ from <= prev /\ prev <= cur
        BY <1>3
      <4> QED
        BY <2>3, <4>1, SegmentInside, ZenonT(60)
    <3> QED
      BY <1>7, <3>1
  <2>5. prev..(cur - 1) \subseteq Won(w)
    BY <1>8, <2>2 DEF Won, Strongest
  <2>6. Cardinality(Swept' \cap Won(w)) = Cardinality(Swept \cap Won(w)) + (cur - prev)
    <3>1. Cardinality((from..(cur - 1)) \cap Won(w))
            = Cardinality((from..(prev - 1)) \cap Won(w)) + (cur - prev)
      <4>1. from \in Nat /\ prev \in Nat /\ cur \in Nat /\ from <= prev /\ prev <= cur
        BY <1>3
      <4> QED
        BY <2>5, <4>1, SegmentInside, ZenonT(60)
    <3> QED
      BY <1>7, <3>1
  <2>7. ASSUME NEW p \in IVs, p # w
        PROVE  Cardinality(Swept' \cap Won(p)) = Cardinality(Swept \cap Won(p))
    <3>1. (prev..(cur - 1)) \cap Won(p) = {}
      BY <1>8, <2>2, <2>7 DEF Won, Strongest
    <3> QED
      BY <1>3, <1>7, <3>1, SegmentOutside
  <2>8. /\ exclusive' = [exclusive EXCEPT ![w] = @ + (cur - prev)]
        /\ covered' = covered + (cur - prev)
    BY <1>4, <1>12 DEF w
  <2>9. covered' = Cardinality(Swept' \cap Claimed')
    BY <1>6, <2>4, <2>8 DEF SweepInv
  <2>10. \A p \in IVs : exclusive'[p] = Cardinality(Swept' \cap Won(p))
    <3>1. exclusive \in [IVs -> Nat] /\ w \in IVs
      BY <2>1, <2>2 DEF SweepInv
    <3>2. exclusive'[w] = exclusive[w] + (cur - prev)
      BY <2>8, <3>1
    <3>3. \A p \in IVs : p # w => exclusive'[p] = exclusive[p]
      BY <2>8, <3>1
    <3> QED
      BY <2>6, <2>7, <3>1, <3>2, <3>3 DEF SweepInv
  <2>11. covered' \in Nat /\ exclusive' \in [IVs' -> Nat]
    <3>1. exclusive \in [IVs -> Nat] /\ covered \in Nat /\ cur - prev \in Nat
      BY <1>3 DEF SweepInv
    <3>2. exclusive' \in [IVs -> Nat]
      BY <2>8, <3>1, <2>1, <2>2
    <3>3. covered' \in Nat
      BY <2>8, <3>1
    <3> QED
      BY <1>5, <3>2, <3>3
  <2>12. \A p \in IVs' : exclusive'[p] = Cardinality(Swept' \cap Won(p)')
    BY <1>5, <1>6, <2>10
  <2> QED
    BY <1>2, <1>3, <1>4, <1>5, <1>9, <1>10, <2>9, <2>11, <2>12 DEF SweepInv
<1> QED
  BY <1>11, <1>12

LEMMA SweepInvStep == SweepInv /\ [Next]_vars => SweepInv'
<1> SUFFICES ASSUME SweepInv, [Next]_vars PROVE SweepInv'
  OBVIOUS
<1>1. CASE Sweep
  BY <1>1, SweepStep
<1>2. CASE SweepEnd \/ Chain \/ ChainEnd \/ Mark \/ MarkEnd \/ UNCHANGED vars
  <2>1. /\ trace' = trace /\ prev' = prev /\ todo' = todo
        /\ exclusive' = exclusive /\ covered' = covered
    BY <1>2 DEF SweepEnd, Chain, ChainEnd, Mark, MarkEnd, vars
  <2>2. pc' # "sweep" => todo = {}
    BY <1>2 DEF SweepEnd, Chain, ChainEnd, Mark, MarkEnd, vars, SweepInv
  <2>3. IVs' = IVs /\ Coords' = Coords
    BY <2>1 DEF IVs, Coords
  <2>4. Swept' = Swept /\ Claimed' = Claimed /\ \A p : Won(p)' = Won(p)
    BY <2>1, <2>3 DEF Swept, Claimed, Won, Strongest, Claims
  <2> QED
    BY <2>1, <2>2, <2>3, <2>4 DEF SweepInv
<1> QED
  BY <1>1, <1>2 DEF Next

LEMMA SweepInvAlways == Spec => []SweepInv
BY InitStarts, SweepInit, SweepInvStep, PTL DEF Spec

\* For every phase table the sweep awards each nanosecond that some phase
\* claims to the one of the highest priority among those that claim it, and to
\* no other, although it looks at one midpoint per segment only.
THEOREM SweepExactCorrect == Spec => []SweepExact
BY SweepInvAlways, SweptIsExact, PTL

-----------------------------------------------------------------------------
(* Lengths of sets of phases *)

LEMMA PhaseFinite == IsFiniteSet(Phase)
<1> DEFINE f == [p \in Phase |-> Priority[p]]
<1>1. f \in Injection(Phase, 0..12)
  BY PriorityFacts DEF Injection, IsInjective
<1>2. IsFiniteSet(0..12)
  <2>1. 0 \in Int /\ 12 \in Int
    OBVIOUS
  <2> QED
    BY <2>1, FS_Interval, Zenon
<1> QED
  BY <1>1, <1>2, FS_Injection

LEMMA DurationFacts ==
  ASSUME IsPhaseTable(trace), NEW p \in IVs
  PROVE  /\ Duration(trace[p]) \in Nat
         /\ Duration(trace[p]) > 0 <=> trace[p].start < trace[p].end
         /\ Duration(trace[p]) > 0 => Duration(trace[p]) = trace[p].end - trace[p].start
BY TraceFacts DEF Duration

LEMMA LengthFacts ==
  ASSUME IsPhaseTable(trace), NEW S \in SUBSET IVs
  PROVE  /\ IsFiniteSet(S)
         /\ Length(S) \in Nat
         /\ S = {} => Length(S) = 0
         /\ \A x \in S : Length(S) = Duration(trace[x]) + Length(S \ {x})
<1> DEFINE f == [p \in S |-> Duration(trace[p])]
<1>1. IsFiniteSet(S)
  BY TraceFacts, PhaseFinite, FS_Subset
<1>2. \A p \in S : f[p] \in Nat
  BY DurationFacts
<1>3. Length(S) = SumFunctionOnSet(f, S)
  BY DEF Length, SumFunction
<1>4. \A x \in S : Length(S \ {x}) = SumFunctionOnSet([p \in S \ {x} |-> Duration(trace[p])], S \ {x})
  BY DEF Length, SumFunction
<1>5. \A x \in S : f[x] = Duration(trace[x])
                   /\ \A y \in S \ {x} : [p \in S \ {x} |-> Duration(trace[p])][y] = f[y]
  OBVIOUS
<1> HIDE DEF f
<1>6. /\ SumFunctionOnSet(f, S) \in Nat
      /\ S = {} => SumFunctionOnSet(f, S) = 0
      /\ \A x \in S : \A h : (\A y \in S \ {x} : h[y] = f[y])
                           => SumFunctionOnSet(f, S) = f[x] + SumFunctionOnSet(h, S \ {x})
  BY <1>1, <1>2, SumFacts
<1>7. ASSUME NEW x \in S PROVE SumFunctionOnSet(f, S) = f[x] + Length(S \ {x})
  BY <1>4, <1>5, <1>6
<1> QED
  BY <1>1, <1>3, <1>5, <1>6, <1>7

\* Phases without extent add nothing.
Extended(S) == {p \in S : Duration(trace[p]) > 0}

LEMMA LengthExtended ==
  ASSUME IsPhaseTable(trace), NEW S \in SUBSET IVs
  PROVE  Length(S) = Length(Extended(S))
<1> DEFINE C == {T \in SUBSET S : Length(T) = Length(Extended(T))}
<1>1. {} \in C
  BY DEF Extended
<1>2. ASSUME NEW T \in SUBSET S, NEW x \in S \ T, T \in C PROVE T \cup {x} \in C
  <2> DEFINE U == T \cup {x}
  <2>1. /\ U \in SUBSET IVs /\ Extended(U) \in SUBSET IVs
        /\ T \in SUBSET IVs /\ Extended(T) \in SUBSET IVs
    BY DEF Extended
  <2>2. x \in U /\ U \ {x} = T
    BY <1>2
  <2>3. Length(U) = Duration(trace[x]) + Length(T)
    BY <2>1, <2>2, LengthFacts
  <2>4. Duration(trace[x]) \in Nat /\ Length(T) \in Nat
    BY <2>1, DurationFacts, LengthFacts
  <2>5. CASE Duration(trace[x]) > 0
    <3>1. x \in Extended(U) /\ Extended(U) \ {x} = Extended(T)
      BY <1>2, <2>5 DEF Extended
    <3>2. Length(Extended(U)) = Duration(trace[x]) + Length(Extended(T))
      BY <2>1, <3>1, LengthFacts
    <3> QED
      BY <1>2, <2>3, <3>2
  <2>6. CASE Duration(trace[x]) = 0
    <3>1. Extended(U) = Extended(T)
      BY <2>6 DEF Extended
    <3> QED
      BY <1>2, <2>3, <2>4, <2>6, <3>1
  <2> QED
    BY <2>4, <2>5, <2>6
<1>3. IsFiniteSet(S)
  BY LengthFacts
<1>4. S \in C
  <2> HIDE DEF C
  <2> QED
    BY <1>1, <1>2, <1>3, FiniteInduction
<1> QED
  BY <1>4

-----------------------------------------------------------------------------
(* The order of the critical path loop *)

\* A strict total order, in which starts never decrease.
LEMMA OrderFacts ==
  ASSUME IsPhaseTable(trace)
  PROVE  /\ \A p, q \in IVs : p = q \/ Precedes(p, q) \/ Precedes(q, p)
         /\ \A p, q \in IVs : Precedes(p, q) => ~Precedes(q, p)
         /\ \A p, q, r \in IVs : Precedes(p, q) /\ Precedes(q, r) => Precedes(p, r)
         /\ \A p, q \in IVs : Precedes(p, q) => trace[p].start <= trace[q].start
<1>1. Phase = {"ARRIVAL", "ADMISSION", "QUEUE", "BATCH_WAIT", "DISPATCH", "TRANSFER", "PREFILL",
               "FIRST_TOKEN", "DECODE", "SPECULATION", "RETRY", "RECOVERY", "COMPLETION"}
  BY DEF Phase, PhaseIndex
<1>2. \A p \in Phase : PhaseIndex[p] \in Nat
  BY <1>1 DEF PhaseIndex
<1>3. \A p, q \in Phase : PhaseIndex[p] = PhaseIndex[q] => p = q
  BY <1>1 DEF PhaseIndex
<1>4. \A p \in IVs : p \in Phase /\ trace[p].start \in Nat /\ trace[p].end \in Nat
  BY TraceFacts
<1>5. \A p, q \in IVs : Precedes(p, q) <=>
        \/ trace[p].start < trace[q].start
        \/ trace[p].start = trace[q].start /\ trace[p].end < trace[q].end
        \/ /\ trace[p].start = trace[q].start /\ trace[p].end = trace[q].end
           /\ PhaseIndex[p] < PhaseIndex[q]
  BY <1>4 DEF Precedes
<1>6. \A p, q \in IVs : p = q \/ Precedes(p, q) \/ Precedes(q, p)
  BY <1>2, <1>3, <1>4, <1>5
<1>7. \A p, q \in IVs : Precedes(p, q) => ~Precedes(q, p)
  BY <1>2, <1>4, <1>5
<1>8. \A p, q, r \in IVs : Precedes(p, q) /\ Precedes(q, r) => Precedes(p, r)
  BY <1>2, <1>4, <1>5
<1>9. \A p, q \in IVs : Precedes(p, q) => trace[p].start <= trace[q].start
  BY <1>4, <1>5
<1> QED
  BY <1>6, <1>7, <1>8, <1>9

\* Every nonempty set of phases has a first and a last one.
LEMMA FirstAndLast ==
  ASSUME IsPhaseTable(trace), NEW S \in SUBSET IVs, S # {}
  PROVE  /\ \E p \in S : \A q \in S : p = q \/ Precedes(p, q)
         /\ \E p \in S : \A q \in S : p = q \/ Precedes(q, p)
<1> DEFINE After == {e \in S \X S : Precedes(e[2], e[1])}
<1> DEFINE Before == {e \in S \X S : Precedes(e[1], e[2])}
<1>1. IsFiniteSet(S)
  BY LengthFacts
<1>2. \A p, q \in S :
        /\ <<p, q>> \in After <=> Precedes(q, p)
        /\ <<p, q>> \in Before <=> Precedes(p, q)
  OBVIOUS
<1> HIDE DEF After, Before
<1>3. /\ \A p, q \in S : p = q \/ <<p, q>> \in After \/ <<q, p>> \in After
      /\ \A p, q, r \in S : <<p, q>> \in After /\ <<q, r>> \in After => <<p, r>> \in After
  BY <1>2, OrderFacts
<1>4. /\ \A p, q \in S : p = q \/ <<p, q>> \in Before \/ <<q, p>> \in Before
      /\ \A p, q, r \in S : <<p, q>> \in Before /\ <<q, r>> \in Before => <<p, r>> \in Before
  BY <1>2, OrderFacts
<1>5. \E p \in S : \A q \in S : p = q \/ <<q, p>> \in After
  BY <1>1, <1>3, GreatestExists
<1>6. \E p \in S : \A q \in S : p = q \/ <<q, p>> \in Before
  BY <1>1, <1>4, GreatestExists
<1> QED
  BY <1>2, <1>5, <1>6

\* BestPred returns a candidate with the longest chain of all, if there is any.
LEMMA BestPredFacts ==
  ASSUME IsPhaseTable(trace), chain \in [IVs -> Nat], NEW S \in SUBSET IVs
  PROVE  /\ S = {} => BestPred(S) = "none"
         /\ S # {} => BestPred(S) \in S /\ \A r \in S : chain[r] <= chain[BestPred(S)]
<1>1. CASE S = {}
  BY <1>1 DEF BestPred
<1>2. CASE S # {}
  <2> DEFINE longest == {q \in S : \A r \in S : chain[r] <= chain[q]}
  <2> DEFINE R == {e \in S \X S : chain[e[1]] <= chain[e[2]]}
  <2>1. IsFiniteSet(S)
    BY LengthFacts
  <2>2. \A p, q \in S : <<p, q>> \in R <=> chain[p] <= chain[q]
    OBVIOUS
  <2>3. \A p \in S : chain[p] \in Nat
    OBVIOUS
  <2> HIDE DEF R
  <2>4. /\ \A p, q \in S : p = q \/ <<p, q>> \in R \/ <<q, p>> \in R
        /\ \A p, q, r \in S : <<p, q>> \in R /\ <<q, r>> \in R => <<p, r>> \in R
    BY <2>2, <2>3
  <2>5. PICK g \in S : \A r \in S : g = r \/ <<r, g>> \in R
    BY <1>2, <2>1, <2>4, GreatestExists
  <2>6. g \in longest
    <3>1. ASSUME NEW r \in S PROVE chain[r] <= chain[g]
      <4>1. CASE g = r
        BY <2>3, <4>1
      <4>2. CASE <<r, g>> \in R
        BY <2>2, <4>2
      <4> QED
        BY <2>5, <4>1, <4>2
    <3> QED
      BY <3>1
  <2>7. \E q \in longest : \A r \in longest : q = r \/ Precedes(q, r)
    <3>1. longest \in SUBSET IVs
      OBVIOUS
    <3> HIDE DEF longest
    <3> QED
      BY <2>6, <3>1, FirstAndLast
  <2>8. BestPred(S) \in longest
    BY <1>2, <2>7 DEF BestPred
  <2> QED
    BY <1>2, <2>8
<1> QED
  BY <1>1, <1>2

-----------------------------------------------------------------------------
(* The invariant of the critical path loop *)

\* The way back from s[0] over pred: n steps, each phase ends before every
\* earlier one of the path starts.
Elems(s, n) == {s[i] : i \in 0..n}

IsPath(s, n) ==
  /\ \A i \in 0..n : s[i] \in visited
  /\ \A i \in 0..(n - 1) : pred[s[i]] = s[i + 1]
  /\ pred[s[n]] = "none"
  /\ \A i, j \in 0..n : i < j => Precedes(s[j], s[i]) /\ trace[s[j]].end <= trace[s[i]].start

HasPath(p) ==
  \E n \in Nat : \E s \in [0..n -> Phase] :
    s[0] = p /\ IsPath(s, n) /\ Length(Elems(s, n)) = chain[p]

\* No chain of phases that ends with p is longer than chain[p].
Longest(p) ==
  \A S \in SUBSET visited :
    /\ S = Extended(S) /\ NonOverlapping(S)
    /\ p \in S /\ \A q \in S : p = q \/ Precedes(q, p)
    => Length(S) <= chain[p]

ChainInv ==
  /\ IsPhaseTable(trace)
  /\ visited \in SUBSET IVs
  /\ chain \in [IVs -> Nat]
  /\ pred \in [IVs -> IVs \cup {"none"}]
  /\ \A p \in visited, q \in IVs \ visited : Precedes(p, q)
  /\ \A p \in visited : chain[p] >= Duration(trace[p]) /\ HasPath(p) /\ Longest(p)
  /\ best = "none" => \A p \in visited : chain[p] = 0
  /\ best # "none" => best \in visited /\ \A p \in visited : chain[p] <= chain[best]
  /\ pc \in {"mark", "done"} => visited = IVs

LEMMA NotNone == "none" \notin Phase
BY DEF Phase, PhaseIndex

LEMMA ChainInit == Start => ChainInv
<1> SUFFICES ASSUME Start PROVE ChainInv
  OBVIOUS
<1>1. /\ IsPhaseTable(trace) /\ visited = {} /\ best = "none" /\ pc = "sweep"
      /\ chain = [p \in IVs |-> 0] /\ pred = [p \in IVs |-> "none"]
  BY DEF Start, Begin
<1> QED
  BY <1>1 DEF ChainInv

\* The chain of the next phase has a path: its own, or the one of its
\* predecessor and itself.
LEMMA PathExtends ==
  ASSUME ChainInv, NEW p \in IVs \ visited, NEW q \in visited,
         trace[q].end <= trace[p].start, Precedes(q, p),
         trace' = trace, visited' = visited \cup {p},
         pred' = [pred EXCEPT ![p] = q],
         chain' = [chain EXCEPT ![p] = Duration(trace[p]) + chain[q]]
  PROVE  HasPath(p)'
<1>1. PICK n \in Nat : \E s \in [0..n -> Phase] :
        s[0] = q /\ IsPath(s, n) /\ Length(Elems(s, n)) = chain[q]
  BY DEF ChainInv, HasPath
<1>2. PICK s \in [0..n -> Phase] :
        s[0] = q /\ IsPath(s, n) /\ Length(Elems(s, n)) = chain[q]
  BY <1>1
<1> DEFINE m == n + 1
<1> DEFINE r == [i \in 0..m |-> IF i = 0 THEN p ELSE s[i - 1]]
<1>3. p \in Phase /\ visited \in SUBSET IVs /\ IVs \subseteq Phase
  BY TraceFacts DEF ChainInv
<1>4. r \in [0..m -> Phase] /\ r[0] = p /\ m \in Nat
  BY <1>3
<1>5. \A i \in 1..m : i - 1 \in 0..n /\ r[i] = s[i - 1] /\ r[i] \in visited
  BY <1>2 DEF IsPath
<1>6. \A i \in 0..m : r[i] \in visited'
  <2>1. \A i \in 0..m : i = 0 \/ i \in 1..m
    OBVIOUS
  <2> QED
    BY <1>4, <1>5, <2>1
<1>7. \A x \in visited : pred'[x] = pred[x]
  BY <1>3 DEF ChainInv
<1>8. pred'[p] = q
  BY DEF ChainInv
<1>9. \A i \in 0..(m - 1) : pred'[r[i]] = r[i + 1]
  <2>1. pred'[r[0]] = r[1]
    BY <1>2, <1>4, <1>8
  <2>2. ASSUME NEW i \in 1..n PROVE pred'[r[i]] = r[i + 1]
    <3>1. i \in 1..m /\ i + 1 \in 1..m /\ i - 1 \in 0..(n - 1) /\ (i - 1) + 1 = i /\ (i + 1) - 1 = i
      OBVIOUS
    <3>2. r[i] = s[i - 1] /\ r[i + 1] = s[i] /\ r[i] \in visited
      BY <1>5, <3>1
    <3>3. pred[s[i - 1]] = s[i]
      BY <1>2, <3>1 DEF IsPath
    <3> QED
      BY <1>7, <3>2, <3>3
  <2>3. \A i \in 0..(m - 1) : i = 0 \/ i \in 1..n
    OBVIOUS
  <2> HIDE DEF r
  <2> QED
    BY <2>1, <2>2, <2>3
<1>10. pred'[r[m]] = "none"
  <2>1. m \in 1..m /\ m - 1 = n
    OBVIOUS
  <2>2. r[m] = s[n] /\ r[m] \in visited
    BY <1>5, <2>1
  <2>3. pred[s[n]] = "none"
    BY <1>2 DEF IsPath
  <2> QED
    BY <1>7, <2>2, <2>3
<1>11. \A i, j \in 0..m : i < j => Precedes(r[j], r[i]) /\ trace[r[j]].end <= trace[r[i]].start
  <2>1. ASSUME NEW j \in 1..m
        PROVE  Precedes(r[j], p) /\ trace[r[j]].end <= trace[p].start
    <3>1. j - 1 \in 0..n /\ r[j] = s[j - 1] /\ r[j] \in visited
      BY <1>5
    <3>2. CASE j - 1 = 0
      BY <1>2, <3>1, <3>2
    <3>3. CASE j - 1 # 0
      <4>1. 0 \in 0..n /\ 0 < j - 1
        BY <3>1, <3>3
      <4>2. Precedes(s[j - 1], q) /\ trace[s[j - 1]].end <= trace[q].start
        BY <1>2, <3>1, <4>1 DEF IsPath
      <4>3. q \in IVs /\ p \in IVs /\ s[j - 1] \in IVs /\ IsPhaseTable(trace)
        BY <1>3, <3>1 DEF ChainInv
      <4>4. Precedes(s[j - 1], p)
        BY <4>2, <4>3, OrderFacts
      <4>5. trace[q].start <= trace[p].start
        BY <4>3, OrderFacts
      <4>6. trace[s[j - 1]].end <= trace[p].start
        BY <4>2, <4>3, <4>5, TraceFacts
      <4> QED
        BY <3>1, <4>4, <4>6
    <3> QED
      BY <3>2, <3>3
  <2>2. ASSUME NEW i \in 1..m, NEW j \in 1..m, i < j
        PROVE  Precedes(r[j], r[i]) /\ trace[r[j]].end <= trace[r[i]].start
    <3>1. i - 1 \in 0..n /\ j - 1 \in 0..n /\ i - 1 < j - 1
      BY <2>2
    <3>2. r[i] = s[i - 1] /\ r[j] = s[j - 1]
      BY <1>5
    <3> QED
      BY <1>2, <3>1, <3>2 DEF IsPath
  <2>3. \A i \in 0..m : i = 0 \/ i \in 1..m
    OBVIOUS
  <2> HIDE DEF r
  <2>4. ASSUME NEW i \in 0..m, NEW j \in 0..m, i < j
        PROVE  Precedes(r[j], r[i]) /\ trace[r[j]].end <= trace[r[i]].start
    <3>1. j \in 1..m
      BY <2>4
    <3> QED
      BY <1>4, <2>1, <2>2, <2>3, <2>4, <3>1
  <2> QED
    BY <2>4
<1>12. IsPath(r, m)'
  <2>1. \A x, y : Precedes(x, y)' <=> Precedes(x, y)
    BY DEF Precedes
  <2> HIDE DEF r
  <2> QED
    BY <1>6, <1>9, <1>10, <1>11, <2>1 DEF IsPath
<1>13. Elems(r, m) = Elems(s, n) \cup {p}
  <2>1. ASSUME NEW x \in Elems(r, m) PROVE x \in Elems(s, n) \cup {p}
    <3>1. PICK i \in 0..m : x = r[i]
      BY <2>1 DEF Elems
    <3>2. CASE i = 0
      BY <1>4, <3>1, <3>2
    <3>3. CASE i # 0
      <4>1. i \in 1..m
        BY <3>3
      <4> QED
        BY <1>5, <3>1, <4>1 DEF Elems
    <3> QED
      BY <3>2, <3>3
  <2>2. ASSUME NEW i \in 0..n PROVE s[i] \in Elems(r, m)
    <3>1. i + 1 \in 1..m /\ i + 1 \in 0..m /\ (i + 1) - 1 = i
      OBVIOUS
    <3>2. r[i + 1] = s[i]
      BY <1>5, <3>1
    <3> HIDE DEF r
    <3> QED
      BY <3>1, <3>2 DEF Elems
  <2>3. p \in Elems(r, m)
    <3>1. 0 \in 0..m
      OBVIOUS
    <3> HIDE DEF r
    <3> QED
      BY <1>4, <3>1 DEF Elems
  <2> QED
    BY <2>1, <2>2, <2>3 DEF Elems
<1>14. Length(Elems(r, m)) = Duration(trace[p]) + Length(Elems(s, n))
  <2>1. Elems(s, n) \subseteq visited
    BY <1>2 DEF Elems, IsPath
  <2>2. p \in Elems(r, m) /\ Elems(r, m) \ {p} = Elems(s, n)
    BY <1>13, <2>1
  <2>3. Elems(r, m) \in SUBSET IVs /\ IsPhaseTable(trace)
    BY <1>3, <1>13, <2>1 DEF ChainInv
  <2> HIDE DEF r
  <2> QED
    BY <2>2, <2>3, LengthFacts
<1>15. chain'[p] = Duration(trace[p]) + chain[q]
  BY DEF ChainInv
<1>16. Length(Elems(r, m))' = chain'[p]
  <2>1. Length(Elems(r, m))' = Length(Elems(r, m))
    BY DEF Length, Elems
  <2> QED
    BY <1>2, <1>14, <1>15, <2>1
<1> HIDE DEF r
<1> QED
  BY <1>4, <1>12, <1>16 DEF HasPath

\* A phase without predecessor is a path of its own.
LEMMA PathAlone ==
  ASSUME ChainInv, NEW p \in IVs \ visited,
         trace' = trace, visited' = visited \cup {p},
         pred' = [pred EXCEPT ![p] = "none"],
         chain' = [chain EXCEPT ![p] = Duration(trace[p])]
  PROVE  HasPath(p)'
<1> DEFINE s == [i \in 0..0 |-> p]
<1>1. p \in Phase /\ {p} \in SUBSET IVs /\ IsPhaseTable(trace)
  BY TraceFacts DEF ChainInv
<1>2. s \in [0..0 -> Phase] /\ \A i \in 0..0 : i = 0 /\ s[i] = p
  BY <1>1
<1>3. pred'[p] = "none" /\ chain'[p] = Duration(trace[p])
  BY DEF ChainInv
<1>4. Elems(s, 0) = {p}
  BY <1>2 DEF Elems
<1> HIDE DEF s
<1>5. IsPath(s, 0)'
  <2>1. 0 \in 0..0 /\ 0..(0 - 1) = {}
    OBVIOUS
  <2> QED
    BY <1>2, <1>3, <2>1 DEF IsPath
<1>6. Length({p}) = Duration(trace[p])
  <2>1. Length({p}) = Duration(trace[p]) + Length({p} \ {p})
    BY <1>1, LengthFacts
  <2>2. {p} \ {p} = {} /\ {} \in SUBSET IVs
    OBVIOUS
  <2>3. Length({}) = 0
    BY <1>1, <2>2, LengthFacts
  <2>4. Duration(trace[p]) \in Nat
    BY <1>1, DurationFacts
  <2> QED
    BY <2>1, <2>2, <2>3, <2>4
<1>7. Length(Elems(s, 0))' = chain'[p]
  <2>1. Length(Elems(s, 0))' = Length(Elems(s, 0))
    BY DEF Length, Elems
  <2> QED
    BY <1>3, <1>4, <1>6, <2>1
<1>8. 0 \in Nat /\ 0 \in 0..0
  OBVIOUS
<1>9. s[0] = p
  BY <1>2, <1>8
<1> QED
  BY <1>2, <1>5, <1>7, <1>8, <1>9 DEF HasPath

\* The next phase leaves the paths of the others alone.
LEMMA PathStays ==
  ASSUME ChainInv, NEW p \in IVs \ visited, NEW x \in visited, NEW a, NEW b,
         trace' = trace, visited' = visited \cup {p},
         pred' = [pred EXCEPT ![p] = a], chain' = [chain EXCEPT ![p] = b]
  PROVE  HasPath(x)'
<1>1. PICK n \in Nat : \E s \in [0..n -> Phase] :
        s[0] = x /\ IsPath(s, n) /\ Length(Elems(s, n)) = chain[x]
  BY DEF ChainInv, HasPath
<1>2. PICK s \in [0..n -> Phase] :
        s[0] = x /\ IsPath(s, n) /\ Length(Elems(s, n)) = chain[x]
  BY <1>1
<1>3. \A y \in visited : pred'[y] = pred[y] /\ chain'[y] = chain[y]
  BY DEF ChainInv
<1>4. \A i \in 0..n : s[i] \in visited
  BY <1>2 DEF IsPath
<1>5. IsPath(s, n)'
  <2>1. \A y, z : Precedes(y, z)' <=> Precedes(y, z)
    BY DEF Precedes
  <2>2. \A i \in 0..n : s[i] \in visited'
    BY <1>4
  <2>3. \A i \in 0..(n - 1) : pred'[s[i]] = s[i + 1]
    <3>1. \A i \in 0..(n - 1) : i \in 0..n
      OBVIOUS
    <3> QED
      BY <1>2, <1>3, <1>4, <3>1 DEF IsPath
  <2>4. pred'[s[n]] = "none"
    <3>1. n \in 0..n
      OBVIOUS
    <3> QED
      BY <1>2, <1>3, <1>4, <3>1 DEF IsPath
  <2>5. \A i, j \in 0..n : i < j => Precedes(s[j], s[i])' /\ trace'[s[j]].end <= trace'[s[i]].start
    BY <1>2, <2>1 DEF IsPath
  <2> QED
    BY <2>2, <2>3, <2>4, <2>5 DEF IsPath
<1>6. Length(Elems(s, n))' = chain'[x]
  <2>1. Length(Elems(s, n))' = Length(Elems(s, n))
    BY DEF Length, Elems
  <2> QED
    BY <1>2, <1>3, <2>1
<1> QED
  BY <1>2, <1>5, <1>6 DEF HasPath

\* A chain of phases that ends with the next one is the next one and a chain
\* that ends before it starts.
LEMMA LongestExtends ==
  ASSUME ChainInv, NEW p \in IVs \ visited,
         trace' = trace, visited' = visited \cup {p},
         chain'[p] \in Nat,
         chain'[p] >= Duration(trace[p]),
         \A q \in Fits(p) : chain'[p] >= Duration(trace[p]) + chain[q]
  PROVE  Longest(p)'
<1>1. IsPhaseTable(trace) /\ visited \in SUBSET IVs /\ chain \in [IVs -> Nat]
  BY DEF ChainInv
<1>2. ASSUME NEW S \in SUBSET visited', S = Extended(S), NonOverlapping(S),
             p \in S, \A q \in S : p = q \/ Precedes(q, p)
      PROVE  Length(S) <= chain'[p]
  <2> DEFINE T == S \ {p}
  <2>1. S \in SUBSET IVs /\ T \in SUBSET visited /\ T \in SUBSET IVs
    BY <1>1, <1>2
  <2>2. Length(S) = Duration(trace[p]) + Length(T)
    BY <1>1, <1>2, <2>1, LengthFacts
  <2>3. Duration(trace[p]) \in Nat /\ Length(T) \in Nat
    BY <1>1, <2>1, DurationFacts, LengthFacts
  <2>4. CASE T = {}
    <3>1. Length(T) = 0
      BY <1>1, <2>1, <2>4, LengthFacts
    <3> QED
      BY <2>2, <2>3, <3>1
  <2>5. CASE T # {}
    <3>1. PICK q \in T : \A r \in T : q = r \/ Precedes(r, q)
      BY <1>1, <2>1, <2>5, FirstAndLast
    <3>2. T = Extended(T) /\ NonOverlapping(T)
      BY <1>2 DEF Extended, NonOverlapping
    <3>3. q \in visited /\ q \in IVs /\ q # p /\ Duration(trace[q]) > 0 /\ Duration(trace[p]) > 0
      BY <1>2, <2>1, <3>1 DEF Extended
    <3>4. Longest(q) /\ chain[q] >= Duration(trace[q])
      BY <3>3 DEF ChainInv
    <3>5. Length(T) <= chain[q]
      BY <2>1, <3>1, <3>2, <3>4 DEF Longest
    <3>6. trace[q].end <= trace[p].start
      <4>1. Precedes(q, p) /\ Disjoint(p, q)
        BY <1>2, <3>1, <3>3 DEF NonOverlapping
      <4>2. trace[q].end <= trace[p].start \/ trace[p].end <= trace[q].start
        BY <1>1, <3>3, <4>1, DurationFacts DEF Disjoint
      <4>3. trace[q].start <= trace[p].start /\ trace[p].start < trace[p].end
        BY <1>1, <3>3, <4>1, OrderFacts, DurationFacts
      <4> QED
        BY <1>1, <3>3, <4>2, <4>3, TraceFacts
    <3>7. chain[q] \in Nat /\ chain[q] > 0
      <4>1. chain[q] \in Nat /\ Duration(trace[q]) \in Nat
        BY <1>1, <3>3, DurationFacts
      <4> QED
        BY <3>3, <3>4, <4>1
    <3>8. q \in Fits(p)
      BY <3>3, <3>6, <3>7 DEF Fits
    <3>9. chain'[p] >= Duration(trace[p]) + chain[q]
      BY <3>8
    <3> HIDE DEF T
    <3> QED
      BY <2>2, <2>3, <3>5, <3>7, <3>9
  <2> QED
    BY <2>4, <2>5
<1>3. \A S :
        /\ Extended(S)' = Extended(S) /\ Length(S)' = Length(S)
        /\ NonOverlapping(S)' <=> NonOverlapping(S)
  BY DEF Extended, NonOverlapping, Disjoint, Length
<1>4. \A x, y : Precedes(x, y)' <=> Precedes(x, y)
  BY DEF Precedes
<1> QED
  BY <1>2, <1>3, <1>4 DEF Longest

\* Chains that end with an earlier phase do not hold the next one.
LEMMA LongestStays ==
  ASSUME ChainInv, NEW p \in IVs \ visited, NEW x \in visited,
         trace' = trace, visited' = visited \cup {p}, chain'[x] = chain[x]
  PROVE  Longest(x)'
<1>1. IsPhaseTable(trace) /\ visited \in SUBSET IVs /\ x # p
  BY DEF ChainInv
<1>2. Precedes(x, p)
  BY DEF ChainInv
<1>3. ~Precedes(p, x)
  BY <1>1, <1>2, OrderFacts
<1>4. ASSUME NEW S \in SUBSET visited', S = Extended(S), NonOverlapping(S),
             x \in S, \A q \in S : x = q \/ Precedes(q, x)
      PROVE  Length(S) <= chain[x]
  <2>1. p \notin S
    BY <1>1, <1>3, <1>4
  <2>2. S \in SUBSET visited
    BY <2>1
  <2>3. Longest(x)
    BY DEF ChainInv
  <2> QED
    BY <1>4, <2>2, <2>3 DEF Longest
<1>5. \A S :
        /\ Extended(S)' = Extended(S) /\ Length(S)' = Length(S)
        /\ NonOverlapping(S)' <=> NonOverlapping(S)
  BY DEF Extended, NonOverlapping, Disjoint, Length
<1>6. \A y, z : Precedes(y, z)' <=> Precedes(y, z)
  BY DEF Precedes
<1> QED
  BY <1>4, <1>5, <1>6 DEF Longest

LEMMA ChainStep == ChainInv /\ Chain => ChainInv'
<1> SUFFICES ASSUME ChainInv, Chain PROVE ChainInv'
  OBVIOUS
<1>p. PICK p : p = CHOOSE x \in IVs \ visited : \A y \in IVs \ visited : x = y \/ Precedes(x, y)
  OBVIOUS
<1>b. PICK before : before = BestPred(Fits(p))
  OBVIOUS
<1>l. PICK len : len = Duration(trace[p]) + (IF before = "none" THEN 0 ELSE chain[before])
  OBVIOUS
<1>1. /\ chain' = [chain EXCEPT ![p] = len]
      /\ pred' = [pred EXCEPT ![p] = before]
      /\ visited' = visited \cup {p}
      /\ best' = IF len > (IF best = "none" THEN 0 ELSE chain[best]) THEN p ELSE best
      /\ trace' = trace /\ pc = "chain" /\ pc' = pc
  BY <1>p, <1>b, <1>l DEF Chain
<1>2. IsPhaseTable(trace) /\ visited \in SUBSET IVs /\ IVs \subseteq Phase
      /\ chain \in [IVs -> Nat] /\ pred \in [IVs -> IVs \cup {"none"}]
  BY TraceFacts DEF ChainInv
<1>3. p \in IVs \ visited /\ \A y \in IVs \ visited : p = y \/ Precedes(p, y)
  <2>1. IVs \ visited # {} /\ IVs \ visited \in SUBSET IVs
    BY <1>2 DEF Chain
  <2> QED
    BY <1>p, <1>2, <2>1, FirstAndLast
<1>4. Fits(p) \in SUBSET visited /\ Fits(p) \in SUBSET IVs
  BY <1>2 DEF Fits
<1>5. /\ before = "none" <=> Fits(p) = {}
      /\ before # "none" => before \in Fits(p) /\ \A r \in Fits(p) : chain[r] <= chain[before]
  BY <1>b, <1>2, <1>4, BestPredFacts, NotNone
<1>6. Duration(trace[p]) \in Nat /\ \A q \in IVs : chain[q] \in Nat
  BY <1>2, <1>3, DurationFacts
<1>7. len \in Nat /\ len >= Duration(trace[p])
      /\ \A q \in Fits(p) : len >= Duration(trace[p]) + chain[q]
  <2>1. CASE before = "none"
    BY <1>l, <1>5, <1>6, <2>1
  <2>2. CASE before # "none"
    <3>1. before \in IVs /\ len = Duration(trace[p]) + chain[before]
      BY <1>l, <1>4, <1>5, <2>2
    <3> QED
      BY <1>4, <1>5, <1>6, <2>2, <3>1
  <2> QED
    BY <2>1, <2>2
<1>8. HasPath(p)'
  <2>1. CASE before = "none"
    <3>1. len = Duration(trace[p])
      BY <1>l, <1>6, <2>1
    <3> QED
      BY <1>1, <1>3, <2>1, <3>1, PathAlone
  <2>2. CASE before # "none"
    <3>1. before \in visited /\ trace[before].end <= trace[p].start
      BY <1>4, <1>5, <2>2 DEF Fits
    <3>2. Precedes(before, p)
      BY <1>3, <3>1 DEF ChainInv
    <3>3. len = Duration(trace[p]) + chain[before]
      BY <1>l, <2>2
    <3>4. chain' = [chain EXCEPT ![p] = Duration(trace[p]) + chain[before]]
      BY <1>1, <3>3
    <3>5. pred' = [pred EXCEPT ![p] = before]
      BY <1>1
    <3> QED
      BY <1>1, <1>3, <3>1, <3>2, <3>4, <3>5, PathExtends
  <2> QED
    BY <2>1, <2>2
<1>9. \A x \in visited : HasPath(x)'
  BY <1>1, <1>3, PathStays
<1>10. chain'[p] = len /\ \A x \in visited : chain'[x] = chain[x] /\ x # p
  BY <1>1, <1>2, <1>3
<1>11. Longest(p)'
  BY <1>1, <1>3, <1>7, <1>10, LongestExtends
<1>12. \A x \in visited : Longest(x)'
  BY <1>1, <1>3, <1>10, LongestStays
<1>13. IVs' = IVs /\ \A x, y : Precedes(x, y)' <=> Precedes(x, y)
  BY <1>1 DEF IVs, Precedes
<1>14. \A x \in visited', y \in IVs' \ visited' : Precedes(x, y)'
  <2>1. ASSUME NEW x \in visited', NEW y \in IVs \ visited' PROVE Precedes(x, y)
    <3>1. CASE x = p
      BY <1>1, <1>3, <2>1, <3>1
    <3>2. CASE x \in visited
      BY <1>1, <2>1, <3>2 DEF ChainInv
    <3> QED
      BY <1>1, <3>1, <3>2
  <2> QED
    BY <1>13, <2>1
<1>15. \A x \in visited' : chain'[x] >= Duration(trace'[x]) /\ HasPath(x)' /\ Longest(x)'
  <2>1. \A x \in visited : chain'[x] >= Duration(trace'[x])
    BY <1>1, <1>10 DEF ChainInv
  <2>2. chain'[p] >= Duration(trace'[p])
    BY <1>1, <1>7, <1>10
  <2> QED
    BY <1>1, <1>8, <1>9, <1>11, <1>12, <2>1, <2>2
<1>16. /\ visited' \in SUBSET IVs'
       /\ chain' \in [IVs' -> Nat]
       /\ pred' \in [IVs' -> IVs' \cup {"none"}]
  <2>1. visited' \in SUBSET IVs
    BY <1>1, <1>2, <1>3
  <2>2. chain' \in [IVs -> Nat]
    BY <1>1, <1>2, <1>7
  <2>3. before \in IVs \cup {"none"}
    BY <1>4, <1>5
  <2>4. pred' \in [IVs -> IVs \cup {"none"}]
    BY <1>1, <1>2, <2>3
  <2> QED
    BY <1>13, <2>1, <2>2, <2>4
<1>17. /\ best' = "none" => \A x \in visited' : chain'[x] = 0
       /\ best' # "none" => best' \in visited' /\ \A x \in visited' : chain'[x] <= chain'[best']
  <2>1. p # "none"
    BY <1>2, <1>3, NotNone
  <2>2. CASE best = "none"
    <3>1. \A x \in visited : chain[x] = 0
      BY <2>2 DEF ChainInv
    <3>2. CASE len > 0
      <4>1. best' = p
        BY <1>1, <2>2, <3>2
      <4> QED
        BY <1>1, <1>7, <1>10, <2>1, <3>1, <4>1
    <3>3. CASE len = 0
      <4>1. best' = "none"
        BY <1>1, <2>2, <3>3
      <4> QED
        BY <1>1, <1>10, <3>1, <3>3, <4>1
    <3> QED
      BY <1>7, <3>2, <3>3
  <2>3. CASE best # "none"
    <3>1. best \in visited /\ \A x \in visited : chain[x] <= chain[best]
      BY <2>3 DEF ChainInv
    <3>2. chain[best] \in Nat /\ \A x \in visited : chain[x] \in Nat
      BY <1>2, <3>1
    <3>3. CASE len > chain[best]
      <4>1. best' = p
        BY <1>1, <2>3, <3>3
      <4>2. \A x \in visited : chain[x] <= len
        BY <1>7, <3>1, <3>2, <3>3
      <4> QED
        BY <1>1, <1>7, <1>10, <2>1, <4>1, <4>2
    <3>4. CASE ~(len > chain[best])
      <4>1. best' = best
        BY <1>1, <2>3, <3>4
      <4>2. len <= chain[best]
        BY <1>7, <3>2, <3>4
      <4> QED
        BY <1>1, <1>10, <2>3, <3>1, <4>1, <4>2
    <3> QED
      BY <3>3, <3>4
  <2> QED
    BY <2>2, <2>3
<1>18. IsPhaseTable(trace)' /\ (pc' \in {"mark", "done"} => visited' = IVs')
  BY <1>1, <1>2
<1> QED
  BY <1>14, <1>15, <1>16, <1>17, <1>18 DEF ChainInv

LEMMA ChainInvStep == ChainInv /\ [Next]_vars => ChainInv'
<1> SUFFICES ASSUME ChainInv, [Next]_vars PROVE ChainInv'
  OBVIOUS
<1>1. CASE Chain
  BY <1>1, ChainStep
<1>2. CASE Sweep \/ SweepEnd \/ ChainEnd \/ Mark \/ MarkEnd \/ UNCHANGED vars
  <2>1. /\ trace' = trace /\ visited' = visited /\ chain' = chain /\ pred' = pred /\ best' = best
    BY <1>2 DEF Sweep, SweepEnd, ChainEnd, Mark, MarkEnd, vars
  <2>2. IVs' = IVs
    BY <2>1 DEF IVs
  <2>3. pc' \in {"mark", "done"} => visited' = IVs'
    BY <1>2, <2>1, <2>2 DEF Sweep, SweepEnd, ChainEnd, Mark, MarkEnd, vars, ChainInv
  <2>4. \A x, y : Precedes(x, y)' <=> Precedes(x, y)
    BY <2>1 DEF Precedes
  <2>5. \A S : Extended(S)' = Extended(S) /\ (NonOverlapping(S)' <=> NonOverlapping(S))
                /\ Length(S)' = Length(S)
    BY <2>1 DEF Extended, NonOverlapping, Disjoint, Length
  <2>6. \A x \in visited : Longest(x)'
    <3>1. \A x \in visited : Longest(x)
      BY DEF ChainInv
    <3> QED
      BY <2>1, <2>4, <2>5, <3>1 DEF Longest
  <2>7. \A x \in visited : HasPath(x)'
    <3>1. \A x \in visited : HasPath(x)
      BY DEF ChainInv
    <3>2. \A s, n : IsPath(s, n) => IsPath(s, n)'
      BY <2>1, <2>4 DEF IsPath
    <3>3. \A s, n : Length(Elems(s, n))' = Length(Elems(s, n))
      BY <2>1 DEF Length, Elems
    <3> QED
      BY <2>1, <3>1, <3>2, <3>3 DEF HasPath
  <2> QED
    BY <2>1, <2>2, <2>3, <2>4, <2>6, <2>7 DEF ChainInv
<1> QED
  BY <1>1, <1>2 DEF Next

LEMMA ChainInvAlways == Spec => []ChainInv
BY InitStarts, ChainInit, ChainInvStep, PTL DEF Spec

-----------------------------------------------------------------------------
(* The invariant of the walk *)

\* The walk has marked the first m phases of a path that begins with best.
WalkAt(s, n, m) ==
  /\ s[0] = best /\ IsPath(s, n) /\ Length(Elems(s, n)) = chain[best]
  /\ on_critical_path = {s[i] : i \in {j \in 0..n : j < m}}
  /\ walk = IF m = n + 1 THEN "none" ELSE s[m]

Walking == \E n \in Nat : \E s \in [0..n -> Phase] : \E m \in 0..(n + 1) : WalkAt(s, n, m)

MarkInv ==
  /\ pc \in {"sweep", "chain"} => on_critical_path = {}
  /\ pc \in {"mark", "done"} =>
       IF best = "none" THEN walk = "none" /\ on_critical_path = {} ELSE Walking
  /\ pc = "done" => walk = "none"

LEMMA MarkInit == Start => MarkInv
BY DEF Start, Begin, MarkInv

\* A path depends on nothing the walk changes.
LEMMA PathKept ==
  ASSUME trace' = trace, visited' = visited, chain' = chain, pred' = pred
  PROVE  /\ \A s, n : IsPath(s, n) => IsPath(s, n)'
         /\ \A s, n : Length(Elems(s, n))' = Length(Elems(s, n))
<1>1. \A x, y : Precedes(x, y)' <=> Precedes(x, y)
  BY DEF Precedes
<1>2. \A s, n : IsPath(s, n) => IsPath(s, n)'
  BY <1>1 DEF IsPath
<1>3. \A s, n : Length(Elems(s, n))' = Length(Elems(s, n))
  BY DEF Length, Elems
<1> QED
  BY <1>2, <1>3

\* The walk begins at the end of the longest chain.
LEMMA WalkBegins == ChainInv /\ MarkInv /\ ChainEnd => MarkInv'
<1> SUFFICES ASSUME ChainInv, MarkInv, ChainEnd PROVE MarkInv'
  OBVIOUS
<1>1. /\ trace' = trace /\ visited' = visited /\ chain' = chain /\ pred' = pred
      /\ best' = best /\ pc' = "mark" /\ walk' = best
      /\ on_critical_path' = on_critical_path /\ on_critical_path = {}
  BY DEF ChainEnd, MarkInv
<1>2. CASE best = "none"
  BY <1>1, <1>2 DEF MarkInv
<1>3. CASE best # "none"
  <2>1. HasPath(best)
    BY <1>3 DEF ChainInv
  <2>2. PICK n \in Nat : \E s \in [0..n -> Phase] :
          s[0] = best /\ IsPath(s, n) /\ Length(Elems(s, n)) = chain[best]
    BY <2>1 DEF HasPath
  <2>3. PICK s \in [0..n -> Phase] :
          s[0] = best /\ IsPath(s, n) /\ Length(Elems(s, n)) = chain[best]
    BY <2>2
  <2>4. IsPath(s, n)' /\ Length(Elems(s, n))' = chain'[best']
    BY <1>1, <2>3, PathKept
  <2>5. {s[i] : i \in {j \in 0..n : j < 0}} = {} /\ 0 \in 0..(n + 1) /\ 0 # n + 1
    OBVIOUS
  <2>6. WalkAt(s, n, 0)'
    BY <1>1, <2>3, <2>4, <2>5 DEF WalkAt
  <2>7. Walking'
    BY <2>5, <2>6 DEF Walking
  <2> QED
    BY <1>1, <1>3, <2>7 DEF MarkInv
<1> QED
  BY <1>2, <1>3

\* It goes down the path.
LEMMA WalkGoesOn == MarkInv /\ Mark => MarkInv'
<1> SUFFICES ASSUME MarkInv, Mark PROVE MarkInv'
  OBVIOUS
<1>1. /\ trace' = trace /\ visited' = visited /\ chain' = chain /\ pred' = pred
      /\ best' = best /\ pc' = "mark" /\ pc = "mark" /\ walk # "none"
      /\ walk' = pred[walk] /\ on_critical_path' = on_critical_path \cup {walk}
  BY DEF Mark
<1>2. best # "none" /\ Walking
  BY <1>1 DEF MarkInv
<1>3. PICK n \in Nat : \E s \in [0..n -> Phase] : \E m \in 0..(n + 1) : WalkAt(s, n, m)
  BY <1>2 DEF Walking
<1>4. PICK s \in [0..n -> Phase] : \E m \in 0..(n + 1) : WalkAt(s, n, m)
  BY <1>3
<1>5. PICK m \in 0..(n + 1) : WalkAt(s, n, m)
  BY <1>4
<1>6. m \in 0..n /\ m # n + 1 /\ walk = s[m] /\ m + 1 \in 0..(n + 1)
  BY <1>1, <1>5 DEF WalkAt
<1>7. IsPath(s, n)' /\ Length(Elems(s, n))' = chain'[best'] /\ s[0] = best'
  BY <1>1, <1>5, PathKept DEF WalkAt
<1>8. on_critical_path' = {s[i] : i \in {j \in 0..n : j < m + 1}}
  <2>1. \A j \in 0..n : j < m + 1 <=> j < m \/ j = m
    BY <1>6
  <2> QED
    BY <1>1, <1>5, <1>6, <2>1 DEF WalkAt
<1>9. walk' = IF m + 1 = n + 1 THEN "none" ELSE s[m + 1]
  <2>1. IsPath(s, n)
    BY <1>5 DEF WalkAt
  <2>2. CASE m = n
    BY <1>1, <1>6, <2>1, <2>2 DEF IsPath
  <2>3. CASE m # n
    <3>1. m \in 0..(n - 1) /\ m + 1 # n + 1
      BY <1>6, <2>3
    <3> QED
      BY <1>1, <1>6, <2>1, <3>1 DEF IsPath
  <2> QED
    BY <2>2, <2>3
<1>10. WalkAt(s, n, m + 1)'
  BY <1>7, <1>8, <1>9 DEF WalkAt
<1>11. Walking'
  BY <1>6, <1>10 DEF Walking
<1> QED
  BY <1>1, <1>2, <1>11 DEF MarkInv

LEMMA MarkInvStep == ChainInv /\ MarkInv /\ [Next]_vars => MarkInv'
<1> SUFFICES ASSUME ChainInv, MarkInv, [Next]_vars PROVE MarkInv'
  OBVIOUS
<1>1. CASE Sweep \/ SweepEnd \/ Chain
  BY <1>1 DEF Sweep, SweepEnd, Chain, MarkInv
<1>2. CASE ChainEnd
  BY <1>2, WalkBegins
<1>3. CASE Mark
  BY <1>3, WalkGoesOn
<1>4. CASE MarkEnd \/ UNCHANGED vars
  <2>1. /\ trace' = trace /\ visited' = visited /\ chain' = chain /\ pred' = pred
        /\ best' = best /\ walk' = walk /\ on_critical_path' = on_critical_path
        /\ \/ pc' = pc
           \/ pc = "mark" /\ pc' = "done" /\ walk = "none"
    BY <1>4 DEF MarkEnd, vars
  <2>2. \A s, n, m : WalkAt(s, n, m) => WalkAt(s, n, m)'
    BY <2>1, PathKept DEF WalkAt
  <2>3. Walking => Walking'
    BY <2>2 DEF Walking
  <2> QED
    BY <2>1, <2>3 DEF MarkInv
<1> QED
  BY <1>1, <1>2, <1>3, <1>4 DEF Next

LEMMA MarkInvAlways == Spec => []MarkInv
BY InitStarts, ChainInvAlways, MarkInit, MarkInvStep, PTL DEF Spec

\* When the walk is over, the marked phases are a path that begins with best.
LEMMA WholePathMarked ==
  ASSUME MarkInv, pc = "done", best # "none"
  PROVE  \E n \in Nat : \E s \in [0..n -> Phase] :
           /\ IsPath(s, n) /\ Length(Elems(s, n)) = chain[best]
           /\ on_critical_path = Elems(s, n)
<1>1. walk = "none" /\ Walking
  BY DEF MarkInv
<1>2. PICK n \in Nat : \E s \in [0..n -> Phase] : \E m \in 0..(n + 1) : WalkAt(s, n, m)
  BY <1>1 DEF Walking
<1>3. PICK s \in [0..n -> Phase] : \E m \in 0..(n + 1) : WalkAt(s, n, m)
  BY <1>2
<1>4. PICK m \in 0..(n + 1) : WalkAt(s, n, m)
  BY <1>3
<1>5. m = n + 1
  <2>1. ASSUME m # n + 1 PROVE FALSE
    <3>1. m \in 0..n /\ walk = s[m]
      BY <1>4, <2>1 DEF WalkAt
    <3> QED
      BY <1>1, <3>1, NotNone
  <2> QED
    BY <2>1
<1>6. on_critical_path = Elems(s, n)
  <2>1. {j \in 0..n : j < n + 1} = 0..n
    OBVIOUS
  <2> QED
    BY <1>4, <1>5, <2>1 DEF WalkAt, Elems
<1> QED
  BY <1>4, <1>6 DEF WalkAt

\* The critical path is made of phases.
LEMMA CriticalPathInside ==
  ASSUME ChainInv, MarkInv, pc = "done"
  PROVE  on_critical_path \in SUBSET IVs
<1>1. CASE best = "none"
  BY <1>1 DEF MarkInv
<1>2. CASE best # "none"
  <2>1. PICK n \in Nat : \E s \in [0..n -> Phase] :
          IsPath(s, n) /\ on_critical_path = Elems(s, n)
    BY <1>2, WholePathMarked
  <2> QED
    BY <2>1 DEF Elems, IsPath, ChainInv
<1> QED
  BY <1>1, <1>2

LEMMA ChainIsLongest == ChainInv /\ MarkInv => CriticalPathLongest
<1> SUFFICES ASSUME ChainInv, MarkInv, pc = "done"
             PROVE  /\ NonOverlapping(on_critical_path)
                    /\ \A S \in SUBSET IVs : NonOverlapping(S) => Length(S) <= Length(on_critical_path)
  BY DEF CriticalPathLongest
<1>1. /\ IsPhaseTable(trace) /\ visited = IVs /\ IVs \subseteq Phase
      /\ chain \in [IVs -> Nat]
  BY TraceFacts DEF ChainInv
<1> DEFINE top == IF best = "none" THEN 0 ELSE chain[best]
<1>2. top \in Nat /\ \A p \in IVs : chain[p] <= top
  <2>1. CASE best = "none"
    BY <1>1, <2>1 DEF ChainInv
  <2>2. CASE best # "none"
    BY <1>1, <2>2 DEF ChainInv
  <2> QED
    BY <2>1, <2>2
<1>3. NonOverlapping(on_critical_path) /\ Length(on_critical_path) = top
  <2>1. CASE best = "none"
    <3>1. on_critical_path = {}
      BY <2>1 DEF MarkInv
    <3>2. {} \in SUBSET IVs
      OBVIOUS
    <3>3. Length({}) = 0
      BY <1>1, <3>2, LengthFacts
    <3> QED
      BY <2>1, <3>1, <3>3 DEF NonOverlapping
  <2>2. CASE best # "none"
    <3>1. PICK n \in Nat : \E s \in [0..n -> Phase] :
            /\ IsPath(s, n) /\ Length(Elems(s, n)) = chain[best]
            /\ on_critical_path = Elems(s, n)
      BY <2>2, WholePathMarked
    <3>2. PICK s \in [0..n -> Phase] :
            /\ IsPath(s, n) /\ Length(Elems(s, n)) = chain[best]
            /\ on_critical_path = Elems(s, n)
      BY <3>1
    <3>3. NonOverlapping(Elems(s, n))
      <4>1. ASSUME NEW i \in 0..n, NEW j \in 0..n, i # j PROVE Disjoint(s[i], s[j])
        <5>1. CASE i < j
          BY <3>2, <5>1 DEF IsPath, Disjoint
        <5>2. CASE j < i
          BY <3>2, <5>2 DEF IsPath, Disjoint
        <5> QED
          BY <4>1, <5>1, <5>2
      <4> QED
        BY <4>1 DEF NonOverlapping, Elems
    <3> QED
      BY <2>2, <3>2, <3>3
  <2> QED
    BY <2>1, <2>2
<1>4. ASSUME NEW S \in SUBSET IVs, NonOverlapping(S) PROVE Length(S) <= top
  <2> DEFINE E == Extended(S)
  <2>1. E \in SUBSET IVs /\ NonOverlapping(E) /\ E = Extended(E)
    BY <1>4 DEF Extended, NonOverlapping
  <2>2. Length(S) = Length(E)
    BY <1>1, LengthExtended
  <2> HIDE DEF E
  <2>3. CASE E = {}
    BY <1>1, <1>2, <2>1, <2>2, <2>3, LengthFacts
  <2>4. CASE E # {}
    <3>1. PICK p \in E : \A q \in E : p = q \/ Precedes(q, p)
      BY <1>1, <2>1, <2>4, FirstAndLast
    <3>2. p \in IVs /\ Longest(p)
      BY <1>1, <2>1 DEF ChainInv
    <3>3. Length(E) <= chain[p]
      BY <1>1, <2>1, <3>1, <3>2 DEF Longest
    <3>4. chain[p] <= top /\ chain[p] \in Nat /\ Length(E) \in Nat
      BY <1>1, <1>2, <2>1, <3>2, LengthFacts
    <3> HIDE DEF top
    <3> QED
      BY <1>2, <2>2, <3>3, <3>4
  <2> QED
    BY <2>3, <2>4
<1> QED
  BY <1>3, <1>4

\* For every phase table the phases the loop marks do not overlap, and no
\* other set of phases that do not overlap is longer, empty ones and those that
\* end before they start included.
THEOREM CriticalPathLongestCorrect == Spec => []CriticalPathLongest
BY ChainInvAlways, MarkInvAlways, ChainIsLongest, PTL

-----------------------------------------------------------------------------
(* What the shares of the phases add up to *)

\* Every nanosecond that is covered is in the share of exactly one phase.
SharesInv == SumFunctionOnSet(exclusive, IVs) = covered

LEMMA SharesInit == Start => SharesInv
<1> SUFFICES ASSUME Start PROVE SharesInv
  OBVIOUS
<1>1. IsPhaseTable(trace) /\ covered = 0 /\ \A p \in IVs : exclusive[p] = 0
  BY DEF Start, Begin
<1>2. IsFiniteSet(IVs)
  BY <1>1, LengthFacts
<1> QED
  BY <1>1, <1>2, SumZero DEF SharesInv

LEMMA SharesStep == SweepInv /\ SharesInv /\ [Next]_vars => SharesInv'
<1> SUFFICES ASSUME SweepInv, SharesInv, [Next]_vars PROVE SharesInv'
  OBVIOUS
<1>1. CASE Sweep
  <2>1. PICK d : d = SetMin(todo) - prev
    OBVIOUS
  <2>2. PICK active : active = {p \in IVs : Covers(trace[p], Mid(SetMin(todo)))}
    OBVIOUS
  <2>3. PICK w : w = Winner(active)
    OBVIOUS
  <2>4. /\ trace' = trace
        /\ active = {} => exclusive' = exclusive /\ covered' = covered
        /\ active # {} => /\ exclusive' = [exclusive EXCEPT ![w] = @ + d]
                          /\ covered' = covered + d
    BY <1>1, <2>1, <2>2, <2>3 DEF Sweep
  <2>5. IVs' = IVs
    BY <2>4 DEF IVs
  <2>6. CASE active = {}
    BY <2>4, <2>5, <2>6 DEF SharesInv
  <2>7. CASE active # {}
    <3>1. IsPhaseTable(trace) /\ exclusive \in [IVs -> Nat]
      BY DEF SweepInv
    <3>2. w \in IVs
      <4>1. active \in SUBSET Phase /\ active \in SUBSET IVs
        BY <2>2, <3>1, TraceFacts
      <4> QED
        BY <2>3, <2>7, <4>1, WinnerFacts
    <3>3. d \in Nat
      <4>1. SetMin(todo) \in todo
        BY <1>1, SetMinFacts DEF Sweep, SweepInv
      <4>2. IVs # {} /\ prev < SetMin(todo) /\ prev \in Nat /\ SetMin(todo) \in Nat
        BY <4>1 DEF SweepInv
      <4> QED
        BY <2>1, <4>2
    <3>4. exclusive' \in [IVs -> Nat] /\ exclusive'[w] = exclusive[w] + d
          /\ \A p \in IVs \ {w} : exclusive'[p] = exclusive[p]
      BY <2>4, <2>7, <3>1, <3>2, <3>3
    <3>5. IsFiniteSet(IVs)
      BY <3>1, LengthFacts
    <3>6. SumFunctionOnSet(exclusive, IVs) = exclusive[w] + SumFunctionOnSet(exclusive, IVs \ {w})
      BY <3>1, <3>2, <3>5, SumFacts
    <3>7. SumFunctionOnSet(exclusive', IVs) = exclusive'[w] + SumFunctionOnSet(exclusive', IVs \ {w})
      BY <3>2, <3>4, <3>5, SumFacts
    <3>8. /\ IsFiniteSet(IVs \ {w})
          /\ \A p \in IVs \ {w} : exclusive[p] \in Nat /\ exclusive'[p] = exclusive[p]
      BY <3>1, <3>4, <3>5, FS_Subset
    <3>9. SumFunctionOnSet(exclusive', IVs \ {w}) = SumFunctionOnSet(exclusive, IVs \ {w})
      BY <3>8, SumSame
    <3>10. SumFunctionOnSet(exclusive, IVs \ {w}) \in Nat
      BY <3>8, SumFacts
    <3>11. exclusive[w] \in Nat
      BY <3>1, <3>2
    <3> QED
      BY <2>4, <2>5, <2>7, <3>3, <3>4, <3>6, <3>7, <3>9, <3>10, <3>11 DEF SharesInv
  <2> QED
    BY <2>6, <2>7
<1>2. CASE SweepEnd \/ Chain \/ ChainEnd \/ Mark \/ MarkEnd \/ UNCHANGED vars
  BY <1>2 DEF SweepEnd, Chain, ChainEnd, Mark, MarkEnd, vars, SharesInv, IVs
<1> QED
  BY <1>1, <1>2 DEF Next

\* The shares of the phases never count a nanosecond twice: they add up to
\* covered_ns, which is the number of nanoseconds some phase claims once the
\* sweep is over.
NoDoubleCount ==
  /\ SumFunctionOnSet(exclusive, IVs) = covered
  /\ pc # "sweep" => covered = Cardinality(Claimed)

LEMMA AllSwept ==
  ASSUME SweepInv, todo = {}
  PROVE  Swept \cap Claimed = Claimed
<1>1. ASSUME NEW t \in Claimed PROVE t \in Swept
  <2>1. PICK p \in IVs : trace[p].start <= t /\ t < trace[p].end
    BY <1>1 DEF Claimed, Claims
  <2>2. t \in Nat
    BY <1>1 DEF Claimed
  <2>3. Coords \in SUBSET Nat /\ trace[p].start \in Coords /\ trace[p].end \in Coords
    BY TraceFacts DEF SweepInv
  <2>4. SetMin(Coords) \in Nat /\ SetMin(Coords) <= trace[p].start
    BY <2>3, SetMinFacts
  <2>5. IVs # {} /\ prev \in Nat /\ trace[p].start \in Nat /\ trace[p].end \in Nat
    BY TraceFacts DEF SweepInv
  <2>6. trace[p].end <= prev
    <3>1. ~(prev < trace[p].end)
      BY <2>3, <2>5 DEF SweepInv
    <3> QED
      BY <2>3, <2>5, <3>1
  <2>7. t \in SetMin(Coords)..(prev - 1)
    BY <2>1, <2>2, <2>3, <2>4, <2>5, <2>6
  <2> QED
    BY <2>5, <2>7 DEF Swept
<1> QED
  BY <1>1

THEOREM NoDoubleCountCorrect == Spec => []NoDoubleCount
<1>1. SweepInv /\ SharesInv => NoDoubleCount
  <2> SUFFICES ASSUME SweepInv, SharesInv PROVE NoDoubleCount
    OBVIOUS
  <2>1. ASSUME pc # "sweep" PROVE covered = Cardinality(Claimed)
    BY <2>1, AllSwept DEF SweepInv
  <2> QED
    BY <2>1 DEF NoDoubleCount, SharesInv
<1>2. Spec => []SharesInv
  BY InitStarts, SweepInvAlways, SharesInit, SharesStep, PTL DEF Spec
<1> QED
  BY <1>1, <1>2, SweepInvAlways, PTL
=============================================================================
