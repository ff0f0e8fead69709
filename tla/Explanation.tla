---------------------------- MODULE Explanation ----------------------------
(***************************************************************************)
(* The explanation of one request (analysis.cpp: explain_request and       *)
(* explain_one_tail), made of the decomposition of its latency, which ends *)
(* before anything is explained, of its resource attribution and of its    *)
(* evidence.                                                               *)
(*                                                                         *)
(* A severity is kept as a number of nanoseconds: the code divides it by   *)
(* the total.  The wording of claims and notes is left out.                *)
(***************************************************************************)
EXTENDS Latency, Sequences

CONSTANTS
  None,
  Requests   \* the reconstructed traces there are to explain

VARIABLE request

explainvars == <<vars, request>>

A == INSTANCE Attribution WITH Pools <- {}, pool <- {}, arrived <- <<>>

\* What decompose_latency sees of a trace.
PhaseTable(t) ==
  [p \in DOMAIN t.phases |-> [start |-> t.phases[p].start, end |-> t.phases[p].end]]

ASSUME RequestsAssumption == \A r \in Requests : IsPhaseTable(PhaseTable(r))

-----------------------------------------------------------------------------
(* explain_request *)

Statement(about, phase, cls, ns, provenance) ==
  [about |-> about, phase |-> phase, cls |-> cls, ns |-> ns, provenance |-> provenance]
Evidenced(about, phase, provenance) ==
  Statement(about, phase, "DIRECTLY_EVIDENCED", 0, provenance)

\* Mutant: a phase that was awarded time counts as structure.
PathClassByShare(p) ==
  IF exclusive[p] > 0 THEN "STRUCTURALLY_DERIVED" ELSE "TEMPORALLY_CORRELATED"

\* Structure where the phase is on the critical path, correlation elsewhere.
PathClass(p) ==
  IF p \in on_critical_path THEN "STRUCTURALLY_DERIVED" ELSE "TEMPORALLY_CORRELATED"

\* Mutant: a phase is reported with its duration, overlaps included.
PhaseSharesByDuration ==
  {Statement(p, p, PathClass(p), Duration(trace[p]), request.phases[p].provenance) :
     p \in {q \in IVs : Duration(trace[q]) # 0 \/ exclusive[q] # 0}}

PhaseShares ==
  {Statement(p, p, PathClass(p), exclusive[p], request.phases[p].provenance) :
     p \in {q \in IVs : Duration(trace[q]) # 0 \/ exclusive[q] # 0}}

\* The evidence that is named in the explanation.
Notable(o) ==
  \/ o.type \in {"RETRY", "FAILURE", "WORKER_RESTART"}
  \/ o.type \in {"MODEL_RESIDENCY", "ADAPTER_RESIDENCY"} /\ A!IsCold(o)

\* The phase the code relates a piece of evidence to.
RelatedPhase(o) ==
  CASE o.type \in {"RETRY", "FAILURE"} -> "RETRY"
    [] o.type = "WORKER_RESTART" -> "RECOVERY"
    [] o.type \in {"MODEL_RESIDENCY", "ADAPTER_RESIDENCY"} -> "PREFILL"

\* Two sources of one request have two boots without any restart.
DirectEvidence ==
  (IF Len(request.boots) > 1 THEN {Evidenced("worker_boots", "RECOVERY", "MEASURED")} ELSE {}) \cup
  (IF request.spans_multiple_epochs THEN {Evidenced("epochs", "TOTAL", "MEASURED")} ELSE {}) \cup
  {Evidenced(o.type, RelatedPhase(o), o.provenance) :
     o \in {x \in Range(request.evidence) : Notable(x)}} \cup
  (IF request.outcome # "UNKNOWN" THEN {Evidenced("outcome", "COMPLETION", "MEASURED")} ELSE {})

\* Derived from the attribution: KV reuse below one half, and the time in the
\* queue, by its duration.
Derived ==
  LET at == A!Attribute(request)
      queue == at.times.queue
  IN
  (IF at.reuse.kv_lookups.value > 0 /\ 2 * at.reuse.kv_hits.value < at.reuse.kv_lookups.value
   THEN {Statement("kv_reuse", "PREFILL", "STRUCTURALLY_DERIVED", 0, "DERIVED")} ELSE {}) \cup
  (IF queue.available /\ queue.value > 0
   THEN {Statement("queueing", "QUEUE", "STRUCTURALLY_DERIVED", queue.value, queue.provenance)} ELSE {})

Unattributed ==
  IF gap > 0 THEN {Statement("gap", "TOTAL", "TEMPORALLY_CORRELATED", gap, "UNKNOWN")} ELSE {}

\* explain_request, once the decomposition is there.  Severities 0..1.
ExplainRequest == PhaseShares \cup DirectEvidence \cup Derived \cup Unattributed

-----------------------------------------------------------------------------
(* explain_one_tail *)

\* Mutant: the cut is at 5% of the duration of a phase.
MaterialByDuration(p) == 20 * Duration(trace[p]) >= (IF total = 0 THEN 1 ELSE total)

\* frac >= 0.05.  A request without a total is divided by 1.
Material(p) == 20 * exclusive[p] >= (IF total = 0 THEN 1 ELSE total)

TailFactor(name, cls, ns) == [name |-> name, cls |-> cls, ns |-> ns]

\* The factors of one slow request.
ExplainOneTail ==
  {TailFactor(p, PathClass(p), exclusive[p]) :
     p \in {q \in IVs \ {"ARRIVAL", "COMPLETION", "ADMISSION"} : Material(q)}} \cup
  (IF Len(request.boots) > 1 THEN {TailFactor("worker_restart", "DIRECTLY_EVIDENCED", 0)} ELSE {}) \cup
  {TailFactor(request.evidence[i].type, "DIRECTLY_EVIDENCED", 0) :
     i \in {j \in DOMAIN request.evidence :
              \/ request.evidence[j].type = "RETRY"
              \/ request.evidence[j].type = "MODEL_RESIDENCY" /\ A!IsCold(request.evidence[j])}}

-----------------------------------------------------------------------------
(* The request is chosen, its latency decomposed, then explained *)

ExplainInit ==
  /\ request \in Requests
  /\ trace = PhaseTable(request)
  /\ Begin

ExplainNext == Next /\ UNCHANGED request

ExplainSpec == ExplainInit /\ [][ExplainNext]_explainvars /\ WF_explainvars(ExplainNext)

-----------------------------------------------------------------------------
(* Properties *)

Shares(S) == SumFunction([x \in {s.about : s \in S} |-> (CHOOSE s \in S : s.about = x).ns])

WithinTotal ==
  \A p \in IVs : trace[p].start >= trace["TOTAL"].start /\ trace[p].end <= trace["TOTAL"].end

\* The shares an explanation gives to phases and to unattributed time never
\* fall short of the total latency, and when no phase reaches beyond the
\* request they add up to exactly 100% of it, however the phases overlap.
SharesAddUp ==
  pc = "done" =>
    LET sum == Shares(PhaseShares \cup Unattributed) IN
    /\ sum >= total
    /\ WithinTotal => sum = total

\* "Correlation is never conflated with causation" (analysis.hpp), as far as it
\* holds: the phases an explanation calls structural follow one another; when
\* none reaches beyond the request they have durations that fit into its
\* latency together; every phase it calls only correlated is another one, and
\* overlaps one of them.  The statements on queueing and KV reuse are excepted:
\* the code calls them structural wherever the queue and the prefill stand, so
\* a queue inside a longer phase is correlated by its share and structural by
\* the queueing statement.
StructureIsSequential ==
  pc = "done" =>
    LET told == {s \in ExplainRequest : s.about \notin {"queueing", "kv_reuse", "gap"}}
        path == {s.phase : s \in {x \in told : x.cls = "STRUCTURALLY_DERIVED"}}
        others == {s.phase : s \in {x \in told : x.cls = "TEMPORALLY_CORRELATED"}}
    IN  /\ NonOverlapping(path) /\ path \cap others = {}
        /\ WithinTotal => Length(path) <= total
        /\ \A p \in others : \E q \in path : ~Disjoint(p, q)

\* Tail factors and explanation tell the same story: each phase factor of a
\* slow request is a statement of its explanation, of the same class and
\* weight, and what they leave out of the attributed time is phases below 5%
\* of the latency each.
TailMatchesExplanation ==
  pc = "done" =>
    LET phases == {f \in ExplainOneTail : f.cls # "DIRECTLY_EVIDENCED"}
        told == SumFunctionOnSet(exclusive, {f.name : f \in phases})
    IN  /\ \A f \in phases : f.ns > 0 /\
             \E s \in ExplainRequest : s.about = f.name /\ s.cls = f.cls /\ s.ns = f.ns
        /\ 20 * (covered - told) <= Cardinality(IVs) * total
=============================================================================
