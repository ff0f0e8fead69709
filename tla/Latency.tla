------------------------------ MODULE Latency ------------------------------
(***************************************************************************)
(* Latency decomposition of a trace (latency.cpp: decompose_latency), with *)
(* one step for every iteration of its three loops: the sweep over the     *)
(* coordinates that awards every nanosecond to one phase, the dynamic      *)
(* program that finds the longest chain of phases, and the walk that marks *)
(* this chain, the critical path, from its last phase back.                *)
(*                                                                         *)
(* Names of phases, provenance labels and percentages are left out.        *)
(***************************************************************************)
EXTENDS Integers, FiniteSets, Functions

CONSTANT Traces   \* the phase tables decompose_latency may be given

\* enum class Phase, in its order.
PhaseIndex ==
  [ARRIVAL |-> 0, ADMISSION |-> 1, QUEUE |-> 2, BATCH_WAIT |-> 3, DISPATCH |-> 4,
   TRANSFER |-> 5, PREFILL |-> 6, FIRST_TOKEN |-> 7, DECODE |-> 8,
   SPECULATION |-> 9, RETRY |-> 10, RECOVERY |-> 11, COMPLETION |-> 12]

Phase == DOMAIN PhaseIndex

\* phase_priority
Priority ==
  [ARRIVAL |-> 0, ADMISSION |-> 1, QUEUE |-> 2, BATCH_WAIT |-> 3, DISPATCH |-> 4,
   TRANSFER |-> 5, SPECULATION |-> 6, PREFILL |-> 7, FIRST_TOKEN |-> 8,
   DECODE |-> 9, RETRY |-> 10, RECOVERY |-> 11, COMPLETION |-> 12]

IntervalType == [start : Nat, end : Nat]

\* What reconstruct_trace hands over: the intervals of some phases, and the total.
IsPhaseTable(t) ==
  /\ DOMAIN t \subseteq Phase \cup {"TOTAL"}
  /\ "TOTAL" \in DOMAIN t
  /\ \A p \in DOMAIN t : t[p] \in IntervalType

ASSUME TracesAssumption == \A t \in Traces : IsPhaseTable(t)

VARIABLES
  trace,      \* RequestTrace::phases, the phases that exist
  pc,
  prev,       \* the sweep has awarded everything before this coordinate
  todo,       \* coordinates the sweep has not reached
  exclusive,  \* components[p].exclusive_ns
  covered,    \* covered_ns
  visited,    \* phases the critical path loop has processed, in order
  chain,      \* chain[p]: length of the longest chain that ends with p
  pred,       \* pred[p]: the phase before p on that chain, or "none"
  best,       \* best_idx, or "none"
  walk,       \* the phase the walk has reached (the last loop's cur), or "none"
  on_critical_path   \* the phases whose component is so marked

vars == <<trace, pc, prev, todo, exclusive, covered, visited, chain, pred, best,
          walk, on_critical_path>>

IVs == DOMAIN trace \ {"TOTAL"}
Duration(iv) == IF iv.end >= iv.start THEN iv.end - iv.start ELSE 0
SetMin(S) == CHOOSE x \in S : \A y \in S : x <= y
Coords == {trace[p].start : p \in IVs} \cup {trace[p].end : p \in IVs}

\* The locals of decompose_latency before its loops.
Begin ==
  /\ pc = "sweep"
  /\ prev = IF IVs = {} THEN 0 ELSE SetMin(Coords)
  /\ todo = Coords \ {prev}
  /\ exclusive = [p \in IVs |-> 0]
  /\ covered = 0
  /\ visited = {}
  /\ chain = [p \in IVs |-> 0]
  /\ pred = [p \in IVs |-> "none"]
  /\ best = "none"
  /\ walk = "none"
  /\ on_critical_path = {}

Init == trace \in Traces /\ Begin

-----------------------------------------------------------------------------
(* The exclusive sweep *)

Mid(cur) == prev + (cur - prev) \div 2

Covers(iv, t) == iv.start <= t /\ t < iv.end

\* Mutant: ties and overlaps go to the phase that comes first in the enum.
WinnerByIndex(S) == CHOOSE p \in S : \A q \in S : PhaseIndex[p] <= PhaseIndex[q]

\* The interval that gets the segment: no two phases have the same priority.
Winner(S) == CHOOSE p \in S : \A q \in S : Priority[p] >= Priority[q]

\* One segment, from prev to the next coordinate.
Sweep ==
  /\ pc = "sweep" /\ todo # {}
  /\ LET cur == SetMin(todo)
         active == {p \in IVs : Covers(trace[p], Mid(cur))}
     IN  /\ IF active = {}
            THEN UNCHANGED <<exclusive, covered>>
            ELSE /\ exclusive' = [exclusive EXCEPT ![Winner(active)] = @ + (cur - prev)]
                 /\ covered' = covered + (cur - prev)
         /\ prev' = cur
         /\ todo' = todo \ {cur}
  /\ UNCHANGED <<trace, pc, visited, chain, pred, best, walk, on_critical_path>>

SweepEnd ==
  /\ pc = "sweep" /\ todo = {}
  /\ pc' = "chain"
  /\ UNCHANGED <<trace, prev, todo, exclusive, covered, visited, chain, pred, best,
                 walk, on_critical_path>>

-----------------------------------------------------------------------------
(* The critical path *)

\* The order of the loop: by start, then end, then index.
Precedes(p, q) ==
  LET a == trace[p]
      b == trace[q]
  IN  IF a.start # b.start THEN a.start < b.start
      ELSE IF a.end # b.end THEN a.end < b.end
      ELSE PhaseIndex[p] < PhaseIndex[q]

\* Candidates for pred[p], and the one the inner loop keeps: the first, in
\* the loop's order, of those with the longest chain; none if that is 0.
Fits(p) == {q \in visited : trace[q].end <= trace[p].start /\ chain[q] > 0}

\* Mutant: the first phase that fits is kept.
BestPredFirst(S) == IF S = {} THEN "none" ELSE CHOOSE q \in S : \A r \in S : q = r \/ Precedes(q, r)

BestPred(S) ==
  IF S = {} THEN "none"
  ELSE LET longest == {q \in S : \A r \in S : chain[r] <= chain[q]}
       IN  CHOOSE q \in longest : \A r \in longest : q = r \/ Precedes(q, r)

\* Mutant: a phase that begins a chain is its own predecessor.
ChainOwnRoot ==
  /\ pc = "chain" /\ visited # IVs
  /\ LET p == CHOOSE x \in IVs \ visited : \A y \in IVs \ visited : x = y \/ Precedes(x, y)
         before == BestPred(Fits(p))
         len == Duration(trace[p]) + (IF before = "none" THEN 0 ELSE chain[before])
     IN  /\ chain' = [chain EXCEPT ![p] = len]
         /\ pred' = [pred EXCEPT ![p] = IF before = "none" THEN p ELSE before]
         /\ visited' = visited \cup {p}
         /\ best' = IF len > (IF best = "none" THEN 0 ELSE chain[best]) THEN p ELSE best
  /\ UNCHANGED <<trace, pc, prev, todo, exclusive, covered, walk, on_critical_path>>

\* One iteration: the next phase in the order gets its chain.
Chain ==
  /\ pc = "chain" /\ visited # IVs
  /\ LET p == CHOOSE x \in IVs \ visited : \A y \in IVs \ visited : x = y \/ Precedes(x, y)
         before == BestPred(Fits(p))
         len == Duration(trace[p]) + (IF before = "none" THEN 0 ELSE chain[before])
     IN  /\ chain' = [chain EXCEPT ![p] = len]
         /\ pred' = [pred EXCEPT ![p] = before]
         /\ visited' = visited \cup {p}
         /\ best' = IF len > (IF best = "none" THEN 0 ELSE chain[best]) THEN p ELSE best
  /\ UNCHANGED <<trace, pc, prev, todo, exclusive, covered, walk, on_critical_path>>

ChainEnd ==
  /\ pc = "chain" /\ visited = IVs
  /\ pc' = "mark"
  /\ walk' = best
  /\ UNCHANGED <<trace, prev, todo, exclusive, covered, visited, chain, pred, best,
                 on_critical_path>>

\* while (cur >= 0): the phase is marked and the walk goes on to the one before.
Mark ==
  /\ pc = "mark" /\ walk # "none"
  /\ on_critical_path' = on_critical_path \cup {walk}
  /\ walk' = pred[walk]
  /\ UNCHANGED <<trace, pc, prev, todo, exclusive, covered, visited, chain, pred, best>>

MarkEnd ==
  /\ pc = "mark" /\ walk = "none"
  /\ pc' = "done"
  /\ UNCHANGED <<trace, prev, todo, exclusive, covered, visited, chain, pred, best,
                 walk, on_critical_path>>

Next == Sweep \/ SweepEnd \/ Chain \/ ChainEnd \/ Mark \/ MarkEnd

Spec == Init /\ [][Next]_vars /\ WF_vars(Next)

total == Duration(trace["TOTAL"])
gap == IF total >= covered THEN total - covered ELSE 0

-----------------------------------------------------------------------------
(* Properties *)

\* The phases that claim the nanosecond [t, t + 1).
Claims(t) == {p \in IVs : trace[p].start <= t /\ t < trace[p].end}

\* What latency.hpp promises of the sweep, nanosecond by nanosecond: each one
\* that some phase claims is awarded to exactly one of them, the one of the
\* highest priority, although the code only looks at the midpoints of the
\* segments between coordinates.
SweepExact ==
  LET swept == IF IVs = {} THEN {} ELSE SetMin(Coords)..(prev - 1)
      Strongest(p, t) == \A q \in Claims(t) : Priority[q] <= Priority[p]
  IN  /\ covered = Cardinality({t \in swept : Claims(t) # {}})
      /\ \A p \in IVs :
           exclusive[p] = Cardinality({t \in swept : p \in Claims(t) /\ Strongest(p, t)})

\* Two phases that do not overlap, either way round; a phase that ends before
\* it starts, or where it starts, has no extent.
Disjoint(p, q) ==
  \/ Duration(trace[p]) = 0 \/ Duration(trace[q]) = 0
  \/ trace[p].end <= trace[q].start \/ trace[q].end <= trace[p].start

NonOverlapping(S) == \A p, q \in S : p = q \/ Disjoint(p, q)

Length(S) == SumFunction([p \in S |-> Duration(trace[p])])

\* The phases marked as the critical path are a chain of non-overlapping
\* phases, and no other such chain of this trace is longer.
CriticalPathLongest ==
  pc = "done" =>
    /\ NonOverlapping(on_critical_path)
    /\ \A S \in SUBSET IVs : NonOverlapping(S) => Length(S) <= Length(on_critical_path)

\* decompose_latency returns: its last loop, a while, follows predecessors
\* whose table the dynamic program filled, so it ends only if no phase is,
\* over any number of steps, its own predecessor, phases without extent and
\* those that end before they start included.
Terminates == <>(pc = "done")
=============================================================================
