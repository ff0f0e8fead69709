------------------------- MODULE ExplanationProofs -------------------------
(***************************************************************************)
(* Proofs about the explanation of a request, for every set of phase       *)
(* tables: its shares add up to the latency, what it calls structural is a *)
(* longest sequence of phases, and tail factors agree with it.             *)
(***************************************************************************)
EXTENDS Explanation, LatencyProofs

\* The explanation runs the decomposition and changes nothing of it.
ExplainInv == SweepInv /\ ChainInv /\ MarkInv /\ SharesInv

LEMMA ExplainInvAlways == ExplainSpec => []ExplainInv
<1>1. ExplainInit => Start
  BY RequestsAssumption DEF ExplainInit, Start
<1>2. [ExplainNext]_explainvars => [Next]_vars
  BY DEF ExplainNext, explainvars
<1>3. ExplainInit => ExplainInv
  BY <1>1, SweepInit, ChainInit, MarkInit, SharesInit DEF ExplainInv
<1>4. ExplainInv /\ [ExplainNext]_explainvars => ExplainInv'
  BY <1>2, SweepInvStep, ChainInvStep, MarkInvStep, SharesStep DEF ExplainInv
<1> QED
  BY <1>3, <1>4, PTL DEF ExplainSpec

\* What is proved of the decomposition holds of every explanation's.
THEOREM ExplainedDecomposition ==
  ExplainSpec => [](SweepExact /\ CriticalPathLongest)
BY ExplainInvAlways, SweptIsExact, ChainIsLongest, PTL DEF ExplainInv

-----------------------------------------------------------------------------
(* Time within the request *)

LEMMA TotalFacts ==
  ASSUME IsPhaseTable(trace)
  PROVE  /\ trace["TOTAL"].start \in Nat /\ trace["TOTAL"].end \in Nat
         /\ total \in Nat
         /\ IsFiniteSet(trace["TOTAL"].start..(trace["TOTAL"].end - 1))
         /\ Cardinality(trace["TOTAL"].start..(trace["TOTAL"].end - 1)) = total
<1> DEFINE a == trace["TOTAL"].start
<1> DEFINE b == trace["TOTAL"].end
<1>1. trace["TOTAL"] \in IntervalType
  BY DEF IsPhaseTable
<1>2. a \in Nat /\ b \in Nat
  BY <1>1 DEF IntervalType
<1>3. total = IF b >= a THEN b - a ELSE 0
  BY DEF total, Duration
<1> HIDE DEF a, b
<1>4. IsFiniteSet(a..(b - 1)) /\ Cardinality(a..(b - 1)) = IF a > b - 1 THEN 0 ELSE (b - 1) - a + 1
  BY <1>2, FS_Interval
<1>5. Cardinality(a..(b - 1)) = total
  BY <1>2, <1>3, <1>4
<1> QED
  BY <1>2, <1>3, <1>4, <1>5 DEF a, b

\* What phases within the request claim fits into its latency.
LEMMA ClaimsFit ==
  ASSUME IsPhaseTable(trace), WithinTotal, NEW T \in SUBSET Claimed
  PROVE  IsFiniteSet(T) /\ Cardinality(T) <= total
<1> DEFINE U == trace["TOTAL"].start..(trace["TOTAL"].end - 1)
<1>1. T \subseteq U
  <2>1. ASSUME NEW t \in T PROVE t \in U
    <3>1. PICK p \in IVs : trace[p].start <= t /\ t < trace[p].end
      BY DEF Claimed, Claims
    <3>2. t \in Nat
      BY DEF Claimed
    <3>3. trace[p].start >= trace["TOTAL"].start /\ trace[p].end <= trace["TOTAL"].end
      BY DEF WithinTotal
    <3>4. trace[p].start \in Nat /\ trace[p].end \in Nat
      BY TraceFacts
    <3> QED
      BY <3>1, <3>2, <3>3, <3>4, TotalFacts
  <2> QED
    BY <2>1
<1>2. IsFiniteSet(U) /\ Cardinality(U) = total
  BY TotalFacts
<1> HIDE DEF U
<1> QED
  BY <1>1, <1>2, FS_Subset

-----------------------------------------------------------------------------
(* The shares of an explanation *)

\* The phases an explanation names; the others have no share.
Named == {q \in IVs : Duration(trace[q]) # 0 \/ exclusive[q] # 0}

LEMMA NamedShares ==
  ASSUME SweepInv, SharesInv
  PROVE  /\ IsFiniteSet(Named) /\ Named \subseteq Phase
         /\ \A p \in Named : exclusive[p] \in Nat
         /\ SumFunctionOnSet(exclusive, Named) = covered
<1>1. IsPhaseTable(trace) /\ exclusive \in [IVs -> Nat]
  BY DEF SweepInv
<1>2. IsFiniteSet(IVs) /\ Named \in SUBSET IVs /\ IVs \subseteq Phase
  BY <1>1, LengthFacts, TraceFacts DEF Named
<1>3. IsFiniteSet(Named) /\ IsFiniteSet(IVs \ Named)
  BY <1>2, FS_Subset
<1>4. SumFunctionOnSet(exclusive, IVs) = SumFunctionOnSet(exclusive, IVs \ Named) + SumFunctionOnSet(exclusive, Named)
  BY <1>1, <1>2, SumSplit
<1>5. SumFunctionOnSet(exclusive, IVs \ Named) = 0
  <2>1. \A p \in IVs \ Named : exclusive[p] = 0
    BY DEF Named
  <2> QED
    BY <1>3, <2>1, SumZero
<1>6. \A p \in Named : exclusive[p] \in Nat
  BY <1>1, <1>2
<1>7. SumFunctionOnSet(exclusive, Named) \in Nat
  BY <1>3, <1>6, SumFacts
<1> QED
  BY <1>2, <1>3, <1>4, <1>5, <1>6, <1>7 DEF SharesInv

\* The statement about a phase.
Share(p) == Statement(p, p, PathClass(p), exclusive[p], request.phases[p].provenance)

\* It is the only one about that phase.
LEMMA PhaseShareFacts ==
  /\ {s.about : s \in PhaseShares} = Named
  /\ \A s \in PhaseShares : /\ s.about \in Named /\ s.phase = s.about
                            /\ s.cls = PathClass(s.about) /\ s.ns = exclusive[s.about]
<1>1. ASSUME NEW p \in Named
      PROVE  /\ Share(p) \in PhaseShares
             /\ Share(p).about = p
  BY DEF Named, PhaseShares, Share, Statement
<1>2. ASSUME NEW s \in PhaseShares
      PROVE  /\ s.about \in Named /\ s.phase = s.about
             /\ s.cls = PathClass(s.about) /\ s.ns = exclusive[s.about]
  <2>1. PICK p \in Named : s = Share(p)
    BY DEF Named, PhaseShares, Share
  <2>2. s.about = p /\ s.phase = p /\ s.cls = PathClass(p) /\ s.ns = exclusive[p]
    BY <2>1 DEF Share, Statement
  <2> QED
    BY <2>2
<1> QED
  BY <1>1, <1>2

LEMMA SharesOfAll ==
  ASSUME SweepInv, SharesInv
  PROVE  Shares(PhaseShares \cup Unattributed) = covered + gap
<1> DEFINE S == PhaseShares \cup Unattributed
<1> DEFINE X == {s.about : s \in S}
<1> DEFINE f == [x \in X |-> (CHOOSE s \in S : s.about = x).ns]
<1>1. Shares(S) = SumFunctionOnSet(f, X)
  BY DEF Shares, SumFunction
<1>2. /\ IsFiniteSet(Named) /\ Named \subseteq Phase
      /\ \A p \in Named : exclusive[p] \in Nat
      /\ SumFunctionOnSet(exclusive, Named) = covered
  BY NamedShares
<1>3. "gap" \notin Named
  BY <1>2 DEF Phase, PhaseIndex
<1>4. covered \in Nat /\ total \in Nat /\ gap \in Nat
  <2>1. covered \in Nat /\ total \in Nat
    BY TotalFacts DEF SweepInv
  <2> QED
    BY <2>1 DEF gap
<1>5. \A s \in Unattributed : s.about = "gap" /\ s.ns = gap
  BY DEF Unattributed, Statement
<1>6. \A x \in X : \E s \in S : s.about = x
  OBVIOUS
<1>7. \A x \in X : (CHOOSE s \in S : s.about = x) \in S /\ (CHOOSE s \in S : s.about = x).about = x
  BY <1>6
<1>8. ASSUME NEW p \in Named PROVE p \in X /\ f[p] = exclusive[p]
  <2>1. p \in X
    BY PhaseShareFacts
  <2> DEFINE s == CHOOSE s \in S : s.about = p
  <2>2. s \in S /\ s.about = p
    BY <1>7, <2>1
  <2>3. f[p] = s.ns
    BY <2>1
  <2> HIDE DEF s, f
  <2>4. s \in PhaseShares
    BY <1>3, <1>5, <2>2
  <2> QED
    BY <2>1, <2>2, <2>3, <2>4, PhaseShareFacts
<1>9. CASE gap > 0
  <2>1. /\ Unattributed = {Statement("gap", "TOTAL", "TEMPORALLY_CORRELATED", gap, "UNKNOWN")}
        /\ Statement("gap", "TOTAL", "TEMPORALLY_CORRELATED", gap, "UNKNOWN").about = "gap"
    BY <1>9 DEF Unattributed, Statement
  <2>2. X = Named \cup {"gap"}
    BY <2>1, PhaseShareFacts
  <2>3. f["gap"] = gap
    <3> DEFINE s == CHOOSE s \in S : s.about = "gap"
    <3>1. "gap" \in X
      BY <2>2
    <3>2. s \in S /\ s.about = "gap"
      BY <1>7, <3>1
    <3>3. f["gap"] = s.ns
      BY <3>1
    <3> HIDE DEF s, f
    <3>4. s \in Unattributed
      BY <1>3, <3>2, PhaseShareFacts
    <3> QED
      BY <1>5, <3>3, <3>4
  <2> HIDE DEF f, X, S
  <2>4. IsFiniteSet(X) /\ "gap" \in X /\ X \ {"gap"} = Named
    BY <1>2, <1>3, <2>2, FS_AddElement
  <2>5. \A x \in X : f[x] \in Nat
    BY <1>2, <1>4, <1>8, <2>2, <2>3
  <2>6. \A y \in X \ {"gap"} : exclusive[y] = f[y]
    BY <1>8, <2>4
  <2>7. SumFunctionOnSet(f, X) = f["gap"] + SumFunctionOnSet(exclusive, X \ {"gap"})
    BY <2>4, <2>5, <2>6, SumFacts
  <2> QED
    BY <1>1, <1>2, <1>4, <2>3, <2>4, <2>7 DEF S
<1>10. CASE gap = 0
  <2>1. Unattributed = {}
    BY <1>10 DEF Unattributed
  <2>2. X = Named
    BY <2>1, PhaseShareFacts
  <2> HIDE DEF f, X, S
  <2>3. SumFunctionOnSet(f, X) = SumFunctionOnSet(exclusive, Named)
    BY <1>2, <1>8, <2>2, SumSame
  <2> QED
    BY <1>1, <1>2, <1>4, <1>10, <2>3 DEF S
<1> QED
  BY <1>4, <1>9, <1>10

\* The shares an explanation gives to phases and to unattributed time never
\* fall short of the total latency, and are exactly it when no phase reaches
\* beyond the request, for every phase table.
THEOREM SharesAddUpCorrect == ExplainSpec => []SharesAddUp
<1>1. ExplainInv => SharesAddUp
  <2> SUFFICES ASSUME ExplainInv PROVE SharesAddUp
    OBVIOUS
  <2>1. SweepInv /\ SharesInv /\ IsPhaseTable(trace)
    BY DEF ExplainInv, SweepInv
  <2>2. Shares(PhaseShares \cup Unattributed) = covered + gap
    BY <2>1, SharesOfAll
  <2>3. covered \in Nat /\ total \in Nat
    BY <2>1, TotalFacts DEF SweepInv
  <2>4. covered + gap >= total
    BY <2>3 DEF gap
  <2>5. ASSUME WithinTotal PROVE covered + gap = total
    <3>1. Cardinality(Swept \cap Claimed) <= total
      BY <2>1, <2>5, ClaimsFit
    <3>2. covered <= total
      BY <2>1, <3>1 DEF SweepInv
    <3> QED
      BY <2>3, <3>2 DEF gap
  <2> QED
    BY <2>2, <2>4, <2>5 DEF SharesAddUp
<1> QED
  BY <1>1, ExplainInvAlways, PTL

-----------------------------------------------------------------------------
(* Structure and correlation *)

\* The nanoseconds that phases of S claim.
ClaimedBy(S) == {t \in Nat : \E p \in S : trace[p].start <= t /\ t < trace[p].end}

LEMMA ClaimedBySelf ==
  ASSUME IsPhaseTable(trace), NEW p \in IVs
  PROVE  IsFiniteSet(ClaimedBy({p})) /\ Cardinality(ClaimedBy({p})) = Duration(trace[p])
<1> DEFINE a == trace[p].start
<1> DEFINE b == trace[p].end
<1>1. a \in Nat /\ b \in Nat
  BY TraceFacts
<1>2. ClaimedBy({p}) = a..(b - 1)
  BY <1>1 DEF ClaimedBy
<1>3. Duration(trace[p]) = IF b >= a THEN b - a ELSE 0
  BY DEF Duration
<1> HIDE DEF a, b
<1>4. IsFiniteSet(a..(b - 1)) /\ Cardinality(a..(b - 1)) = IF a > b - 1 THEN 0 ELSE (b - 1) - a + 1
  BY <1>1, FS_Interval
<1>5. Cardinality(a..(b - 1)) = Duration(trace[p])
  BY <1>1, <1>3, <1>4
<1> QED
  BY <1>2, <1>4, <1>5

\* Phases that do not overlap claim as much time as they last.
LEMMA LengthClaimed ==
  ASSUME IsPhaseTable(trace), NEW S \in SUBSET IVs, NonOverlapping(S)
  PROVE  IsFiniteSet(ClaimedBy(S)) /\ Cardinality(ClaimedBy(S)) = Length(S)
<1> DEFINE C == {T \in SUBSET S :
                   IsFiniteSet(ClaimedBy(T)) /\ Cardinality(ClaimedBy(T)) = Length(T)}
<1>1. {} \in C
  <2>1. ClaimedBy({}) = {}
    BY DEF ClaimedBy
  <2>2. {} \in SUBSET IVs
    OBVIOUS
  <2>3. Length({}) = 0
    BY <2>2, LengthFacts
  <2> QED
    BY <2>1, <2>3, FS_EmptySet
<1>2. ASSUME NEW T \in SUBSET S, NEW x \in S \ T, T \in C PROVE T \cup {x} \in C
  <2>1. /\ T \cup {x} \in SUBSET IVs /\ T \in SUBSET IVs /\ x \in IVs
        /\ x \in T \cup {x} /\ (T \cup {x}) \ {x} = T
    OBVIOUS
  <2>2. Length(T \cup {x}) = Duration(trace[x]) + Length(T)
    BY <2>1, LengthFacts
  <2>3. ClaimedBy(T \cup {x}) = ClaimedBy(T) \cup ClaimedBy({x})
    BY DEF ClaimedBy
  <2>4. ClaimedBy(T) \cap ClaimedBy({x}) = {}
    <3>1. ASSUME NEW t \in Nat, NEW p \in T,
                 trace[p].start <= t, t < trace[p].end, trace[x].start <= t, t < trace[x].end
          PROVE  FALSE
      <4>1. Disjoint(p, x) /\ p \in IVs
        BY DEF NonOverlapping
      <4>2. /\ trace[p].start \in Nat /\ trace[p].end \in Nat
            /\ trace[x].start \in Nat /\ trace[x].end \in Nat
        BY <2>1, <4>1, TraceFacts
      <4>3. Duration(trace[p]) > 0 /\ Duration(trace[x]) > 0
        BY <3>1, <4>2 DEF Duration
      <4> QED
        BY <3>1, <4>1, <4>2, <4>3 DEF Disjoint
    <3> QED
      BY <3>1 DEF ClaimedBy
  <2>5. IsFiniteSet(ClaimedBy({x})) /\ Cardinality(ClaimedBy({x})) = Duration(trace[x])
    BY <2>1, ClaimedBySelf
  <2>6. IsFiniteSet(ClaimedBy(T)) /\ Cardinality(ClaimedBy(T)) = Length(T)
    BY <1>2
  <2>7. /\ IsFiniteSet(ClaimedBy(T) \cup ClaimedBy({x}))
        /\ Cardinality(ClaimedBy(T) \cup ClaimedBy({x}))
             = Cardinality(ClaimedBy(T)) + Cardinality(ClaimedBy({x}))
                 - Cardinality(ClaimedBy(T) \cap ClaimedBy({x}))
    BY <2>5, <2>6, FS_Union
  <2>8. Cardinality(ClaimedBy(T) \cap ClaimedBy({x})) = 0
    BY <2>4, FS_EmptySet
  <2>9. Length(T) \in Nat /\ Duration(trace[x]) \in Nat
    BY <2>1, LengthFacts, DurationFacts
  <2>10. Cardinality(ClaimedBy(T \cup {x})) = Length(T \cup {x})
    <3>1. Cardinality(ClaimedBy(T) \cup ClaimedBy({x})) = Length(T) + Duration(trace[x])
      BY <2>5, <2>6, <2>7, <2>8, <2>9
    <3>2. Cardinality(ClaimedBy(T \cup {x})) = Length(T) + Duration(trace[x])
      BY <2>3, <3>1
    <3>3. Length(T \cup {x}) = Length(T) + Duration(trace[x])
      BY <2>2, <2>9
    <3> QED
      BY <3>2, <3>3
  <2> QED
    BY <2>3, <2>7, <2>10
<1>3. IsFiniteSet(S)
  BY LengthFacts
<1>4. S \in C
  <2> HIDE DEF C
  <2> QED
    BY <1>1, <1>2, <1>3, FiniteInduction
<1> QED
  BY <1>4

LEMMA LengthFits ==
  ASSUME IsPhaseTable(trace), NEW S \in SUBSET IVs, NonOverlapping(S), WithinTotal
  PROVE  Length(S) <= total
<1>1. ClaimedBy(S) \in SUBSET Claimed
  BY DEF ClaimedBy, Claimed, Claims
<1>2. Cardinality(ClaimedBy(S)) <= total
  BY <1>1, ClaimsFit
<1> QED
  BY <1>2, LengthClaimed

\* A phase without extent wins nothing.
LEMMA NoExtentNoShare ==
  ASSUME SweepInv, NEW p \in IVs, Duration(trace[p]) = 0
  PROVE  exclusive[p] = 0
<1>1. IsPhaseTable(trace)
  BY DEF SweepInv
<1>2. Won(p) = {}
  <2>1. ~(trace[p].start < trace[p].end) /\ trace[p].start \in Nat /\ trace[p].end \in Nat
    BY <1>1, DurationFacts, TraceFacts
  <2> QED
    BY <2>1 DEF Won, Strongest, Claims
<1>3. Swept \cap Won(p) = {}
  BY <1>2
<1> QED
  BY <1>3, FS_EmptySet DEF SweepInv

\* What an explanation says of classes other than direct evidence is, queueing,
\* KV reuse and the gap aside, what its phase shares say.
Told == {s \in ExplainRequest : s.about \notin {"queueing", "kv_reuse", "gap"}}

LEMMA ToldByShares ==
  ASSUME SweepInv
  PROVE  /\ PhaseShares \subseteq Told
         /\ \A s \in Told : s.cls # "DIRECTLY_EVIDENCED" => s \in PhaseShares
<1>1. PhaseShares \subseteq Told
  <2>1. \A s \in PhaseShares : s.about \in Phase
    BY PhaseShareFacts, TraceFacts DEF Named, SweepInv
  <2>2. {"queueing", "kv_reuse", "gap"} \cap Phase = {}
    BY DEF Phase, PhaseIndex
  <2> QED
    BY <2>1, <2>2 DEF Told, ExplainRequest
<1>2. ASSUME NEW s \in Told, s.cls # "DIRECTLY_EVIDENCED" PROVE s \in PhaseShares
  <2>1. \A a, p, q : Evidenced(a, p, q).cls = "DIRECTLY_EVIDENCED"
    BY DEF Evidenced, Statement
  <2>2. s \notin DirectEvidence
    BY <1>2, <2>1 DEF DirectEvidence
  <2>3. s \notin Derived \cup Unattributed
    BY DEF Derived, Unattributed, Statement, Told
  <2> QED
    BY <2>2, <2>3 DEF Told, ExplainRequest
<1> QED
  BY <1>1, <1>2

\* The phases an explanation calls structural follow one another and fit into
\* the latency of a request no phase reaches beyond, and each phase it calls
\* only correlated overlaps one of them, for every phase table: the longest
\* path could otherwise be extended.  The statements on queueing and KV reuse
\* are not covered.
THEOREM StructureIsSequentialCorrect == ExplainSpec => []StructureIsSequential
<1>1. ExplainInv => StructureIsSequential
  <2> SUFFICES ASSUME ExplainInv, pc = "done" PROVE StructureIsSequential
    BY DEF StructureIsSequential
  <2> DEFINE path == {s.phase : s \in {x \in Told : x.cls = "STRUCTURALLY_DERIVED"}}
  <2> DEFINE others == {s.phase : s \in {x \in Told : x.cls = "TEMPORALLY_CORRELATED"}}
  <2>1. SweepInv /\ ChainInv /\ MarkInv /\ IsPhaseTable(trace)
    BY DEF ExplainInv, SweepInv
  <2>0. \A c \in {"STRUCTURALLY_DERIVED", "TEMPORALLY_CORRELATED"} :
          {s.phase : s \in {x \in Told : x.cls = c}} = {p \in Named : PathClass(p) = c}
    <3>1. ASSUME NEW c \in {"STRUCTURALLY_DERIVED", "TEMPORALLY_CORRELATED"}
          PROVE  {x \in Told : x.cls = c} = {x \in PhaseShares : x.cls = c}
      BY <2>1, ToldByShares
    <3>2. ASSUME NEW c
          PROVE  {s.phase : s \in {x \in PhaseShares : x.cls = c}} = {p \in Named : PathClass(p) = c}
      BY PhaseShareFacts
    <3> QED
      BY <3>1, <3>2
  <2>2. path = Named \cap on_critical_path
    BY <2>0 DEF PathClass
  <2>3. others = Named \ on_critical_path
    BY <2>0 DEF PathClass
  <2> HIDE DEF path, others
  <2>4. /\ NonOverlapping(on_critical_path)
        /\ \A S \in SUBSET IVs : NonOverlapping(S) => Length(S) <= Length(on_critical_path)
    BY <2>1, ChainIsLongest DEF CriticalPathLongest
  <2>5. on_critical_path \in SUBSET IVs
    BY <2>1, CriticalPathInside
  <2>6. NonOverlapping(path) /\ (WithinTotal => Length(path) <= total)
    <3>1. path \in SUBSET IVs /\ NonOverlapping(path)
      BY <2>2, <2>4, <2>5 DEF NonOverlapping
    <3> QED
      BY <2>1, <3>1, LengthFits
  <2>7. ASSUME NEW p \in others, \A q \in path : Disjoint(p, q) PROVE FALSE
    <3>1. p \in IVs /\ p \in Named /\ p \notin on_critical_path
      BY <2>3 DEF Named
    <3>2. Duration(trace[p]) \in Nat /\ Duration(trace[p]) # 0
      BY <2>1, <3>1, NoExtentNoShare, DurationFacts DEF Named
    <3> DEFINE S == on_critical_path \cup {p}
    <3>3. S \in SUBSET IVs /\ p \in S /\ S \ {p} = on_critical_path
      BY <2>5, <3>1
    <3>4. \A q \in on_critical_path : Disjoint(p, q) /\ Disjoint(q, p)
      <4>1. ASSUME NEW q \in on_critical_path PROVE Disjoint(p, q)
        <5>1. CASE q \in Named
          BY <2>2, <2>7, <5>1
        <5>2. CASE q \notin Named
          BY <2>5, <5>2 DEF Named, Disjoint
        <5> QED
          BY <5>1, <5>2
      <4> QED
        BY <4>1 DEF Disjoint
    <3>5. NonOverlapping(S)
      BY <2>4, <3>4 DEF NonOverlapping
    <3> HIDE DEF S
    <3>6. Length(S) = Duration(trace[p]) + Length(on_critical_path)
      BY <2>1, <3>3, LengthFacts
    <3>7. Length(S) <= Length(on_critical_path)
      BY <2>4, <3>3, <3>5
    <3>8. Length(on_critical_path) \in Nat
      BY <2>1, <2>5, LengthFacts
    <3> QED
      BY <3>2, <3>6, <3>7, <3>8
  <2>8. \A p \in others : \E q \in path : ~Disjoint(p, q)
    BY <2>7
  <2> QED
    BY <2>2, <2>3, <2>6, <2>8 DEF StructureIsSequential, path, others, Told
<1> QED
  BY <1>1, ExplainInvAlways, PTL

-----------------------------------------------------------------------------
(* Tail factors *)

\* explain_one_tail never names these.
Outer == {"ARRIVAL", "COMPLETION", "ADMISSION"}

\* The requests are what reconstruct_trace makes of some timeline.
Reconstructed == \A r \in Requests : \E v : r.phases = A!Phases(v)

\* In a reconstructed trace those phases are instants.
LEMMA OuterArePoints ==
  ASSUME NEW v, NEW p \in Outer \cap DOMAIN A!Phases(v)
  PROVE  A!Phases(v)[p].start = A!Phases(v)[p].end
<1>1. p \in {"ARRIVAL", "COMPLETION", "ADMISSION"}
  BY DEF Outer
<1>2. CASE p = "ARRIVAL"
  BY <1>2 DEF A!Phases, A!Point, A!Interval
<1>3. CASE p = "COMPLETION"
  BY <1>3 DEF A!Phases, A!Point, A!Interval
<1>4. CASE p = "ADMISSION"
  BY <1>4 DEF A!Phases, A!Point, A!Interval
<1> QED
  BY <1>1, <1>2, <1>3, <1>4

\* A sum of values that are each bounded, 20 times, by b.
LEMMA SumBound ==
  ASSUME NEW S, IsFiniteSet(S), NEW b \in Nat, NEW f,
         \A x \in S : f[x] \in Nat /\ 20 * f[x] <= b
  PROVE  20 * SumFunctionOnSet(f, S) <= Cardinality(S) * b
<1> DEFINE C == {T \in SUBSET S : 20 * SumFunctionOnSet(f, T) <= Cardinality(T) * b}
<1>1. {} \in C
  <2>1. IsFiniteSet({}) /\ Cardinality({}) = 0
    BY FS_EmptySet
  <2>2. SumFunctionOnSet(f, {}) = 0
    BY <2>1, SumFacts
  <2> QED
    BY <2>1, <2>2
<1>2. ASSUME NEW T \in SUBSET S, NEW x \in S \ T, T \in C PROVE T \cup {x} \in C
  <2> DEFINE U == T \cup {x}
  <2>1. IsFiniteSet(T) /\ IsFiniteSet(U)
    BY FS_Subset
  <2>2. x \in U /\ U \ {x} = T /\ \A y \in U : f[y] \in Nat
    OBVIOUS
  <2>3. Cardinality(U) = Cardinality(T) + 1 /\ Cardinality(T) \in Nat
    BY <2>1, FS_AddElement, FS_CardinalityType
  <2> HIDE DEF U
  <2>4. SumFunctionOnSet(f, U) = f[x] + SumFunctionOnSet(f, U \ {x})
    BY <2>1, <2>2, SumFacts
  <2>5. SumFunctionOnSet(f, T) \in Nat
    BY <2>1, SumFacts
  <2>6. 20 * SumFunctionOnSet(f, T) <= Cardinality(T) * b /\ 20 * f[x] <= b /\ f[x] \in Nat
    BY <1>2
  <2>7. Cardinality(U) * b = Cardinality(T) * b + b /\ Cardinality(T) * b \in Nat
    BY <2>3
  <2>8. 20 * SumFunctionOnSet(f, U) = 20 * f[x] + 20 * SumFunctionOnSet(f, T)
    <3>1. SumFunctionOnSet(f, U) = f[x] + SumFunctionOnSet(f, T)
      BY <2>2, <2>4
    <3> QED
      BY <2>5, <2>6, <3>1
  <2>9. 20 * SumFunctionOnSet(f, U) <= Cardinality(U) * b
    BY <2>5, <2>6, <2>7, <2>8
  <2> QED
    BY <2>9 DEF U
<1>3. S \in C
  <2> HIDE DEF C
  <2> QED
    BY <1>1, <1>2, FiniteInduction
<1> QED
  BY <1>3

\* The requests are explained with their own phases.
RequestInv == request \in Requests /\ trace = PhaseTable(request)

LEMMA RequestInvAlways == ExplainSpec => []RequestInv
<1>1. ExplainInit => RequestInv
  BY DEF ExplainInit, RequestInv
<1>2. RequestInv /\ [ExplainNext]_explainvars => RequestInv'
  BY DEF RequestInv, ExplainNext, Next, Sweep, SweepEnd, Chain, ChainEnd, Mark, MarkEnd, explainvars, vars
<1> QED
  BY <1>1, <1>2, PTL DEF ExplainSpec

LEMMA OuterWinNothing ==
  ASSUME Reconstructed, SweepInv, RequestInv, NEW p \in IVs \cap Outer
  PROVE  exclusive[p] = 0
<1>1. PICK v : request.phases = A!Phases(v)
  BY DEF Reconstructed, RequestInv
<1>2. /\ p \in DOMAIN A!Phases(v)
      /\ trace[p].start = A!Phases(v)[p].start /\ trace[p].end = A!Phases(v)[p].end
  <2>1. p \in DOMAIN trace
    BY DEF IVs
  <2> QED
    BY <1>1, <2>1 DEF RequestInv, PhaseTable
<1>3. trace[p].start = trace[p].end
  BY <1>2, OuterArePoints
<1>4. Duration(trace[p]) = 0
  BY <1>3, TraceFacts DEF Duration, SweepInv
<1> QED
  BY <1>4, NoExtentNoShare

\* The phases among the factors of a slow request, and what follows for them
\* from the cut at 5%.
Factors == {q \in IVs \ Outer : Material(q)}

LEMMA MaterialFacts ==
  ASSUME SweepInv, NEW p \in IVs
  PROVE  /\ exclusive[p] \in Nat
         /\ Material(p) => exclusive[p] > 0
         /\ ~Material(p) => 20 * exclusive[p] <= total
<1>1. exclusive[p] \in Nat /\ total \in Nat
  BY TotalFacts DEF SweepInv
<1> QED
  BY <1>1 DEF Material

LEMMA FactorFacts ==
  LET phases == {f \in ExplainOneTail : f.cls # "DIRECTLY_EVIDENCED"}
  IN  /\ {f.name : f \in phases} = Factors
      /\ \A f \in phases : /\ f.name \in Factors
                           /\ f.cls = PathClass(f.name)
                           /\ f.ns = exclusive[f.name]
<1> DEFINE phases == {f \in ExplainOneTail : f.cls # "DIRECTLY_EVIDENCED"}
<1>1. ASSUME NEW p \in Factors
      PROVE  /\ TailFactor(p, PathClass(p), exclusive[p]) \in phases
             /\ TailFactor(p, PathClass(p), exclusive[p]).name = p
  <2>1. TailFactor(p, PathClass(p), exclusive[p]) \in ExplainOneTail
    BY DEF Factors, Outer, ExplainOneTail
  <2>2. /\ TailFactor(p, PathClass(p), exclusive[p]).name = p
        /\ TailFactor(p, PathClass(p), exclusive[p]).cls = PathClass(p)
    BY DEF TailFactor
  <2>3. PathClass(p) # "DIRECTLY_EVIDENCED"
    BY DEF PathClass
  <2> QED
    BY <2>1, <2>2, <2>3
<1>2. ASSUME NEW f \in phases
      PROVE  \E p \in Factors : f = TailFactor(p, PathClass(p), exclusive[p])
  <2>1. \A name : TailFactor(name, "DIRECTLY_EVIDENCED", 0).cls = "DIRECTLY_EVIDENCED"
    BY DEF TailFactor
  <2>2. \/ \E p \in Factors : f = TailFactor(p, PathClass(p), exclusive[p])
        \/ \E name : f = TailFactor(name, "DIRECTLY_EVIDENCED", 0)
    BY DEF Factors, Outer, ExplainOneTail
  <2> QED
    BY <2>1, <2>2
<1>3. ASSUME NEW f \in phases
      PROVE  f.name \in Factors /\ f.cls = PathClass(f.name) /\ f.ns = exclusive[f.name]
  <2>1. PICK p \in Factors : f = TailFactor(p, PathClass(p), exclusive[p])
    BY <1>2
  <2>2. f.name = p /\ f.cls = PathClass(p) /\ f.ns = exclusive[p]
    BY <2>1 DEF TailFactor
  <2> QED
    BY <2>2
<1> QED
  BY <1>1, <1>3

\* Of requests that were reconstructed, tail factors and explanation tell the
\* same story: each phase factor is a statement of the explanation, of the same
\* class and weight, and what the factors leave out of the attributed time is
\* phases below 5% of the latency each.
THEOREM TailMatchesExplanationCorrect ==
  ASSUME Reconstructed
  PROVE  ExplainSpec => []TailMatchesExplanation
<1>1. ExplainInv /\ RequestInv => TailMatchesExplanation
  <2> SUFFICES ASSUME ExplainInv, RequestInv PROVE TailMatchesExplanation
    OBVIOUS
  <2> DEFINE phases == {f \in ExplainOneTail : f.cls # "DIRECTLY_EVIDENCED"}
  <2> DEFINE X == {f.name : f \in phases}
  <2> DEFINE told == SumFunctionOnSet(exclusive, X)
  <2>1. SweepInv /\ SharesInv /\ IsPhaseTable(trace) /\ exclusive \in [IVs -> Nat]
    BY DEF ExplainInv, SweepInv
  <2>2. /\ X = Factors
        /\ \A f \in phases :
             f.name \in Factors /\ f.cls = PathClass(f.name) /\ f.ns = exclusive[f.name]
    BY FactorFacts
  <2>3. Factors \in SUBSET IVs
    BY DEF Factors
  <2>4. ASSUME NEW f \in phases
        PROVE  /\ f.ns > 0
               /\ \E s \in ExplainRequest : s.about = f.name /\ s.cls = f.cls /\ s.ns = f.ns
    <3>1. f.name \in IVs /\ exclusive[f.name] > 0 /\ exclusive[f.name] \in Nat
      BY <2>1, <2>2, <2>3, MaterialFacts DEF Factors
    <3>2. f.name \in Named
      BY <3>1 DEF Named
    <3>3. PICK s \in PhaseShares : s.about = f.name
      BY <3>2, PhaseShareFacts
    <3>4. s.cls = PathClass(f.name) /\ s.ns = exclusive[f.name]
      BY <3>3, PhaseShareFacts
    <3>5. s \in ExplainRequest
      BY DEF ExplainRequest
    <3> QED
      BY <2>2, <3>1, <3>3, <3>4, <3>5
  <2>5. IsFiniteSet(IVs) /\ IsFiniteSet(Factors) /\ IsFiniteSet(IVs \ Factors)
    BY <2>1, <2>3, LengthFacts
  <2>6. told = SumFunctionOnSet(exclusive, Factors)
    BY <2>2
  <2> HIDE DEF told
  <2>7. covered = SumFunctionOnSet(exclusive, IVs \ Factors) + told
    BY <2>1, <2>3, <2>5, <2>6, SumSplit DEF SharesInv
  <2>8. \A p \in IVs \ Factors : exclusive[p] \in Nat /\ 20 * exclusive[p] <= total
    <3>1. total \in Nat
      BY <2>1, TotalFacts
    <3>2. ASSUME NEW p \in IVs \ Factors PROVE exclusive[p] \in Nat /\ 20 * exclusive[p] <= total
      <4>1. CASE p \in Outer
        BY <2>1, <3>1, <4>1, OuterWinNothing
      <4>2. CASE ~Material(p)
        BY <2>1, <4>2, MaterialFacts
      <4> QED
        BY <4>1, <4>2 DEF Factors
    <3> QED
      BY <3>2
  <2>9. 20 * SumFunctionOnSet(exclusive, IVs \ Factors) <= Cardinality(IVs \ Factors) * total
    <3>1. total \in Nat
      BY <2>1, TotalFacts
    <3> QED
      BY <2>5, <2>8, <3>1, SumBound
  <2>10. 20 * (covered - told) <= Cardinality(IVs) * total
    <3>1. Cardinality(IVs \ Factors) <= Cardinality(IVs)
      BY <2>5, FS_Subset
    <3>2. Cardinality(IVs \ Factors) \in Nat /\ Cardinality(IVs) \in Nat /\ total \in Nat
      BY <2>1, <2>5, FS_CardinalityType, TotalFacts
    <3>3. Cardinality(IVs \ Factors) * total <= Cardinality(IVs) * total
      <4>1. \A a, b, c \in Nat : a <= b => a * c <= b * c
        OBVIOUS
      <4> QED
        BY <3>1, <3>2, <4>1
    <3>4. \A p \in Factors : exclusive[p] \in Nat
      BY <2>1, <2>3
    <3>5. SumFunctionOnSet(exclusive, IVs \ Factors) \in Nat /\ told \in Nat
      BY <2>5, <2>6, <2>8, <3>4, SumFacts
    <3>6. covered - told = SumFunctionOnSet(exclusive, IVs \ Factors)
      BY <2>7, <3>5
    <3>7. Cardinality(IVs \ Factors) * total \in Nat /\ Cardinality(IVs) * total \in Nat
      BY <3>2
    <3> QED
      BY <2>9, <3>3, <3>5, <3>6, <3>7
  <2> HIDE DEF phases
  <2>11. /\ \A f \in phases : f.ns > 0 /\
              \E s \in ExplainRequest : s.about = f.name /\ s.cls = f.cls /\ s.ns = f.ns
         /\ 20 * (covered - told) <= Cardinality(IVs) * total
    BY <2>4, <2>10
  <2> QED
    BY <2>11 DEF TailMatchesExplanation, phases, told
<1> QED
  BY <1>1, ExplainInvAlways, RequestInvAlways, PTL

=============================================================================
