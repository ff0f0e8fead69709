---------------------------- MODULE Attribution ----------------------------
(***************************************************************************)
(* Three pure functions of a reconstructed trace: the resources a request  *)
(* used (attribution.cpp), its comparison with another request             *)
(* (compare.cpp) and what-if results about it (counterfactual.cpp).        *)
(*                                                                         *)
(* Times are whole units: the conversion of the millisecond fields gpu_ms  *)
(* and cpu_ms to nanoseconds is left out, as is the text of the reports.   *)
(***************************************************************************)
EXTENDS Trace

\* Duration of a phase, 0 when there is none or it ends before it starts.
Dur(t, p) ==
  IF p \in DOMAIN t.phases /\ t.phases[p].end >= t.phases[p].start
  THEN t.phases[p].end - t.phases[p].start ELSE 0

\* What the loops over a list v make of its elements at the positions S.
SumOf(v, S, f(_)) == SumFunction([i \in S |-> f(v[i])])
LargestOf(v, S, f(_)) == Max({0} \cup {f(v[i]) : i \in S})

Typed(v, types) == {i \in DOMAIN v : v[i].type \in types}
CountType(t, type) == Cardinality(Positions(t.evidence, type))

\* A residency observation without is_warm counts as warm.
IsCold(o) == ~BoolField(o, "is_warm", TRUE)

-----------------------------------------------------------------------------
(* attribute_resources *)

Metric(value, provenance, available) ==
  [value |-> value, provenance |-> provenance, available |-> available]

\* mark(a, metric, p, value > 0)
Tally(value, provenance) == Metric(value, provenance, value > 0)

PhaseOf ==
  [queue |-> "QUEUE", batch_wait |-> "BATCH_WAIT", dispatch |-> "DISPATCH",
   transfer |-> "TRANSFER", prefill |-> "PREFILL", first_token |-> "FIRST_TOKEN",
   decode |-> "DECODE", retry |-> "RETRY", recovery |-> "RECOVERY", total |-> "TOTAL"]

Times(t) ==
  [m \in DOMAIN PhaseOf |->
     LET p == PhaseOf[m] IN
     Metric(Dur(t, p), IF p \in DOMAIN t.phases THEN t.phases[p].provenance ELSE "UNKNOWN",
            p \in DOMAIN t.phases)]

ByteMetrics ==
  {"bytes_h2d", "bytes_d2h", "bytes_inter_node", "bytes_kv", "bytes_tensor", "bytes_workspace"}

\* Host-to-device bytes are available as soon as there is any evidence.
Bytes(v) ==
  [m \in ByteMetrics |->
     LET sum == SumOf(v, DOMAIN v, LAMBDA o : U64Field(o, m, 0)) IN
     Metric(sum, "MEASURED", sum > 0 \/ (m = "bytes_h2d" /\ v # <<>>))]

TypeOfCounter ==
  [kernel_hits |-> "KERNEL_HIT", kernel_misses |-> "KERNEL_MISS",
   graph_hits |-> "GRAPH_HIT", graph_misses |-> "GRAPH_MISS",
   kv_lookups |-> "KV_LOOKUP", kv_hits |-> "KV_HIT", kv_misses |-> "KV_MISS"]

\* An observation without a readable count stands for one occurrence.  The
\* two residency counters of the loop are never published.
Reuse(v) ==
  [m \in DOMAIN TypeOfCounter |->
     Tally(SumOf(v, Positions(v, TypeOfCounter[m]), LAMBDA o : U64Field(o, "count", 1)),
           "MEASURED")]

\* Mutant: the last decode step decides the number of output tokens.
TokensOfLastStep(t) ==
  LET v == t.evidence
      steps == Positions(v, "DECODE_STEP_START")
      inputs == Typed(v, {"REQUEST", "PREFILL_START"})
      count == Cardinality(steps)
      timed == count > 0 /\ Dur(t, "DECODE") > 0
  IN  [decode_steps |-> Tally(count, "MEASURED"),
       output_tokens |-> Tally(IF steps = {} THEN 0 ELSE U64Field(v[Max(steps)], "output_tokens", 0),
                               "REPORTED"),
       input_tokens |-> Tally(LargestOf(v, inputs, LAMBDA o : U64Field(o, "input_tokens", 0)),
                              "MEASURED"),
       inter_token_ms |-> Metric(IF timed THEN Dur(t, "DECODE") \div count ELSE 0,
                                 IF timed THEN "DERIVED" ELSE "UNKNOWN", timed)]

Tokens(t) ==
  LET v == t.evidence
      steps == Positions(v, "DECODE_STEP_START")
      inputs == Typed(v, {"REQUEST", "PREFILL_START"})
      count == Cardinality(steps)
      timed == count > 0 /\ Dur(t, "DECODE") > 0
  IN  [decode_steps |-> Tally(count, "MEASURED"),
       output_tokens |-> Tally(LargestOf(v, steps, LAMBDA o : U64Field(o, "output_tokens", 0)),
                               "REPORTED"),
       input_tokens |-> Tally(LargestOf(v, inputs, LAMBDA o : U64Field(o, "input_tokens", 0)),
                              "MEASURED"),
       inter_token_ms |-> Metric(IF timed THEN Dur(t, "DECODE") \div count ELSE 0,
                                 IF timed THEN "DERIVED" ELSE "UNKNOWN", timed)]

Speculation(v) ==
  LET Verified(key) ==
        SumOf(v, Positions(v, "SPECULATION_VERIFY"), LAMBDA o : U64Field(o, key, 0)) IN
  [spec_proposed |-> Tally(SumOf(v, Positions(v, "SPECULATION_START"),
                                 LAMBDA o : U64Field(o, "spec_tokens", 1)), "MEASURED"),
   spec_accepted |-> Tally(Verified("accepted_tokens"), "MEASURED"),
   spec_rejected |-> Tally(Verified("rejected_tokens"), "MEASURED")]

Execution(v) ==
  LET gpu == {i \in DOMAIN v : "gpu_ms" \in DOMAIN v[i].fields} IN
  [gpu_exec |-> Metric(SumOf(v, gpu, LAMBDA o : F64Field(o, "gpu_ms", 0)),
                       IF gpu # {} THEN "MEASURED" ELSE "UNKNOWN", gpu # {}),
   cpu_exec |-> Tally(SumOf(v, DOMAIN v, LAMBDA o : F64Field(o, "cpu_ms", 0)), "REPORTED")]

\* attribute_resources, in the groups of ResourceAttribution.
Attribute(t) ==
  LET v == t.evidence IN
  [times |-> Times(t), bytes |-> Bytes(v), reuse |-> Reuse(v),
   speculation |-> Speculation(v), execution |-> Execution(v), tokens |-> Tokens(t)]

-----------------------------------------------------------------------------
(* compare_traces *)

ComparedPhases == {"QUEUE", "BATCH_WAIT", "DISPATCH", "TRANSFER", "PREFILL", "FIRST_TOKEN",
                   "DECODE", "SPECULATION", "RETRY", "RECOVERY"}

\* any_cold
AnyCold(t) ==
  \E i \in DOMAIN t.evidence :
    t.evidence[i].type \in {"MODEL_RESIDENCY", "ADAPTER_RESIDENCY"} /\ IsCold(t.evidence[i])

\* What compare_traces shows of each side besides times.
Side(t) ==
  [retries |-> CountType(t, "RETRY"), kv_hits |-> CountType(t, "KV_HIT"),
   kernel_hits |-> CountType(t, "KERNEL_HIT"),
   spec_accepted |-> CountType(t, "SPECULATION_VERIFY"),
   bytes_h2d |-> SumOf(t.evidence, DOMAIN t.evidence, LAMBDA o : U64Field(o, "bytes_h2d", 0)),
   worker_restart |-> Len(t.boots) > 1,
   cold_model |-> AnyCold(t)]

CompareTraces(a, b) ==
  [delta_total |-> Dur(b, "TOTAL") - Dur(a, "TOTAL"),
   phase_deltas |-> [p \in {q \in ComparedPhases : Dur(a, q) # 0 \/ Dur(b, q) # 0} |->
                       Dur(b, p) - Dur(a, p)],
   a |-> Side(a), b |-> Side(b)]

-----------------------------------------------------------------------------
(* counterfactual *)

Rules == {"REMOVE_QUEUE_WAIT", "REMOVE_RETRY", "WARM_RESIDENCY", "REDUCE_TRANSFER_BY_HALF"}

ChangedPhase ==
  [REMOVE_QUEUE_WAIT |-> "QUEUE", REMOVE_RETRY |-> "RETRY", WARM_RESIDENCY |-> "PREFILL",
   REDUCE_TRANSFER_BY_HALF |-> "TRANSFER"]

\* Mutant: a halved transfer is taken off whole.
SavedWhole(t, rule) == IF rule = "WARM_RESIDENCY" /\ ~AnyCold(t) THEN 0
                       ELSE Dur(t, ChangedPhase[rule]) + (IF rule = "REMOVE_QUEUE_WAIT" THEN Dur(t, "DISPATCH") ELSE 0)

\* What a rule takes off the total.  0.7 is a double: for some prefill times
\* (90, 170, ...) the code saves one unit less than this.
Saved(t, rule) ==
  CASE rule \in {"REMOVE_QUEUE_WAIT", "REMOVE_RETRY"} -> Dur(t, ChangedPhase[rule])
    [] rule = "WARM_RESIDENCY" -> IF AnyCold(t) THEN (Dur(t, "PREFILL") * 7) \div 10 ELSE 0
    [] rule = "REDUCE_TRANSFER_BY_HALF" -> Dur(t, "TRANSFER") \div 2

Counterfactual(t, rule) ==
  LET total == Dur(t, "TOTAL")
      saved == Saved(t, rule)
      estimated == rule = "WARM_RESIDENCY" /\ AnyCold(t) /\ "PREFILL" \in DOMAIN t.phases
  IN  [original_total |-> total,
       counterfactual_total |-> IF total >= saved THEN total - saved ELSE 0,
       provenance |-> IF estimated THEN "ESTIMATED" ELSE "DERIVED",
       cls |-> IF estimated THEN "PLAUSIBLE_BUT_UNPROVEN" ELSE "STRUCTURALLY_DERIVED"]

-----------------------------------------------------------------------------
(* Properties *)

\* Everything compare_traces and attribute_resources show of an earlier state
\* of the evidence is still there in a later one.
OnlyAdds(was, is, c) ==
  /\ \A p \in {"QUEUE", "TRANSFER", "PREFILL", "DECODE", "SPECULATION"} \cap DOMAIN c.phase_deltas :
       c.phase_deltas[p] >= 0
  /\ \A f \in {"retries", "kv_hits", "kernel_hits", "spec_accepted", "bytes_h2d"} : c.a[f] <= c.b[f]
  /\ \A f \in {"worker_restart", "cold_model"} : c.a[f] => c.b[f]
  /\ \A g \in DOMAIN was : \A m \in DOMAIN was[g] :
       /\ was[g][m].available => is[g][m].available
       /\ g # "times" /\ m # "inter_token_ms" => was[g][m].value <= is[g][m].value

\* Late evidence only adds: comparing a request with itself after one more
\* timed observation (compare_traces, attribute_resources) shows no span that
\* got shorter, no count that fell, no metric that was available and is not
\* any more, and no cold start or restart that went away.
LateEvidenceOnlyAdds ==
  [][Ts(Last(arrived')) # 0 =>
       \E old \in {Reconstruct(arrived)}, new \in {Reconstruct(arrived')} :
         \E was \in {Attribute(old)}, is \in {Attribute(new)}, c \in {CompareTraces(old, new)} :
           OnlyAdds(was, is, c)]_tracevars

\* The units of time of the request during which some other phase ran.
Elsewhere(t, p) ==
  {n \in t.phases["TOTAL"].start..(t.phases["TOTAL"].end - 1) :
     \E q \in DOMAIN t.phases \ {"TOTAL", p} :
       t.phases[q].start <= n /\ n < t.phases[q].end}

\* The changed phase lies within the request and beside all other phases.
StandsAlone(t, p) ==
  /\ p \in DOMAIN t.phases
  /\ t.phases[p].start >= t.phases["TOTAL"].start
  /\ t.phases[p].end <= t.phases["TOTAL"].end
  /\ \A n \in Elsewhere(t, p) : n < t.phases[p].start \/ n >= t.phases[p].end

\* A counterfactual (counterfactual.hpp: "bounded") never makes the request
\* slower; and where the phase it changes overlaps no other, what it takes
\* off is time of that phase: the other phases still fit into what is left,
\* with half of a halved transfer.
CounterfactualBounded ==
  LET t == Reconstruct(arrived) IN
  \A rule \in Rules :
    LET c == Counterfactual(t, rule)
        p == ChangedPhase[rule]
    IN  /\ c.counterfactual_total <= c.original_total
        /\ "TOTAL" \in DOMAIN t.phases /\ StandsAlone(t, p) =>
             c.counterfactual_total >=
               Cardinality(Elsewhere(t, p))
                 + (IF rule = "REDUCE_TRANSFER_BY_HALF" THEN Dur(t, p) \div 2 ELSE 0)
=============================================================================
