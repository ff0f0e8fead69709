-------------------------------- MODULE Tail --------------------------------
(***************************************************************************)
(* What the observatory says of many requests together: percentiles and    *)
(* the tail (analysis.cpp), groups of requests (correlate_by, which_share),*)
(* windows (compare.cpp) and the aggregates of a replay (replay.cpp), over *)
(* a fleet of traces one of which is still receiving evidence.             *)
(*                                                                         *)
(* A percentile is an integer number of tenths of a percent.  Mean and     *)
(* standard deviation, labels and JSON are left out.                       *)
(***************************************************************************)
EXTENDS Attribution

CONSTANT Fleets   \* Fleets[S]: the other requests there may be beside evidence S

LatencyOf(t) == Dur(t, "TOTAL")

\* Lists of traces whose evidence is finite and whose latencies are numbers.
ASSUME FleetsAssumption ==
  \A S \in Pools :
    /\ S \in DOMAIN Fleets
    /\ \A ts \in Fleets[S] :
         /\ Len(ts) \in Nat /\ ts = [i \in 1..Len(ts) |-> ts[i]]
         /\ \A i \in 1..Len(ts) :
              IsFiniteSet(DOMAIN ts[i].evidence) /\ LatencyOf(ts[i]) \in Nat

VARIABLE peers    \* their traces, in the order of their request ids

tailvars == <<pool, arrived, peers>>

-----------------------------------------------------------------------------
(* percentile_of and tail_metrics *)

\* (p / 100.0) * n is computed in doubles.  Where p% of n is an integer the
\* product may come out just above it, and ceil adds one: up to n = 1000
\* requests this happens to the percentiles of tail_metrics for 99.9 of 1000
\* only, and with an option --pct of at most one decimal and up to 40
\* requests, in two cases.
RoundedUp(p, n) == <<p, n>> \in {<<999, 1000>>, <<280, 25>>, <<560, 25>>}

\* Mutant: the rank is rounded down.
RankFloor(p, n) ==
  LET r == (p * n) \div 1000 IN
  IF r < 1 THEN 1 ELSE IF r > n THEN n ELSE r

\* idx, clamped to 1..n.
Rank(p, n) ==
  LET ceil == (p * n + 999) \div 1000
      r == IF RoundedUp(p, n) THEN ceil + 1 ELSE ceil
  IN  IF r < 1 THEN 1 ELSE IF r > n THEN n ELSE r

\* percentile_of
Percentile(vals, p) ==
  IF vals = <<>> THEN 0
  ELSE Sorted(vals, LAMBDA a, b : a < b)[Rank(p, Len(vals))]

\* p50, p90, p95, p99, p99.9
Reported == {500, 900, 950, 990, 999}

TailMetrics(vals) ==
  [count |-> Len(vals),
   min |-> IF vals = <<>> THEN 0 ELSE Min(ToSet(vals)),
   max |-> IF vals = <<>> THEN 0 ELSE Max(ToSet(vals)),
   percentile |-> [p \in Reported |-> Percentile(vals, p)]]

Latencies(ts) == [i \in DOMAIN ts |-> LatencyOf(ts[i])]

\* Mutant: a request at the threshold is not in the tail.
TailOfStrict(ts, p) ==
  {i \in DOMAIN ts : LatencyOf(ts[i]) > Percentile(Latencies(ts), p)}

\* explain_tail: the requests it explains.  Their order, by latency, is
\* unspecified for equal latencies.
TailOf(ts, p) ==
  {i \in DOMAIN ts : LatencyOf(ts[i]) >= Percentile(Latencies(ts), p)}

-----------------------------------------------------------------------------
(* Groups and windows *)

RestartTypes == {"WORKER_RESTART", "WORKER_DOWN"}

SumCounts(ts, S, types) == SumOf(ts, S, LAMBDA t : Cardinality(Typed(t.evidence, types)))

Picked(ts, S) ==
  LET at == SelectSeq([i \in DOMAIN ts |-> i], LAMBDA i : i \in S) IN [n \in DOMAIN at |-> ts[at[n]]]

\* correlate_by: the accumulator of one key, once the requests at S are added.
Summary(ts, S) ==
  LET Count(types) == SumCounts(ts, S, types) IN
  [count |-> Cardinality(S), total |-> SumOf(ts, S, LatencyOf),
   percentile |-> [p \in {500, 900, 990} |-> Percentile(Latencies(Picked(ts, S)), p)],
   retries |-> Count({"RETRY"}), restarts |-> Count(RestartTypes),
   kv_hits |-> Count({"KV_HIT"}), kv_misses |-> Count({"KV_MISS"}),
   kernel_hits |-> Count({"KERNEL_HIT"}), kernel_misses |-> Count({"KERNEL_MISS"})]

\* key[i] is what the key function makes of ts[i].
CorrelateBy(ts, key) ==
  [k \in ToSet(key) |-> Summary(ts, {i \in DOMAIN ts : key[i] = k})]

\* which_share: the requests, by position, whose key is k, and their latencies.
WhichShare(ts, key, k) ==
  [i \in {j \in DOMAIN ts : key[j] = k} |-> LatencyOf(ts[i])]

\* Mutant: a worker that is down is not a restart here.
WindowWithoutDown(ts) ==
  LET Count(types) == SumCounts(ts, DOMAIN ts, types) IN
  [count |-> Len(ts), total |-> SumOf(ts, DOMAIN ts, LatencyOf),
   p90 |-> Percentile(Latencies(ts), 900),
   retries |-> Count({"RETRY"}), restarts |-> Count({"WORKER_RESTART"}), kv_hits |-> Count({"KV_HIT"})]

\* One side of compare_windows.
Window(ts) ==
  LET Count(types) == SumCounts(ts, DOMAIN ts, types) IN
  [count |-> Len(ts), total |-> SumOf(ts, DOMAIN ts, LatencyOf),
   p90 |-> Percentile(Latencies(ts), 900),
   retries |-> Count({"RETRY"}), restarts |-> Count(RestartTypes), kv_hits |-> Count({"KV_HIT"})]

CompareWindows(a, b) == [a |-> Window(a), b |-> Window(b)]

-----------------------------------------------------------------------------
(* replay: the aggregates of its digest *)

\* "retry_events" adds what speculation proposed, accepted and rejected, and
\* a gpu_ms given as a double, as scripts and sources give it, counts 0.
Aggregates(ts) ==
  LET Spec(t) == LET s == Speculation(t.evidence) IN
                 s.spec_proposed.value + s.spec_accepted.value + s.spec_rejected.value
      Gpu(o) == IF U64Field(o, "gpu_ms", 0) > 0 THEN F64Field(o, "gpu_ms", 0) ELSE 0
      Total(f(_)) == SumOf(ts, DOMAIN ts, f)
      Count(types) == SumCounts(ts, DOMAIN ts, types)
      OfAll(t, f(_)) == SumOf(t.evidence, DOMAIN t.evidence, f)
  IN  [request_trace_count |-> Len(ts), metrics |-> TailMetrics(Latencies(ts)),
       retry_events |-> Total(Spec) + Count({"RETRY"}),
       kv_hits |-> Count({"KV_HIT"}), kv_misses |-> Count({"KV_MISS"}),
       bytes_h2d |-> Total(LAMBDA t : OfAll(t, LAMBDA o : U64Field(o, "bytes_h2d", 0))),
       gpu_exec |-> Total(LAMBDA t : OfAll(t, Gpu)), total_latency |-> Total(LatencyOf)]

-----------------------------------------------------------------------------
(* One request's evidence arrives beside the others' *)

Fleet == peers \o (IF arrived = <<>> THEN <<>> ELSE <<Reconstruct(arrived)>>)

TailInit == TraceInit /\ peers \in Fleets[pool]
TailNext == TraceNext /\ UNCHANGED peers
TailSpec == TailInit /\ [][TailNext]_tailvars

-----------------------------------------------------------------------------
(* Properties *)

Percentiles == Reported \cup {0, 10, 280, 333, 560, 750, 1000}

\* percentile_of: "the smallest value at or above p% of the set".  At least
\* p% of the latencies are at or below it; it is one of them; and, but for the
\* rounding of the rank, no smaller one will do: at most one request more than
\* p% leaves are strictly below it.
PercentileRank ==
  LET vals == Latencies(Fleet)
      n == Len(vals)
      Below(v) == Cardinality({i \in 1..n : vals[i] < v})
      AtMost(v) == Cardinality({i \in 1..n : vals[i] <= v})
  IN  n > 0 =>
        \A p \in Percentiles :
          LET v == Percentile(vals, p) IN
          /\ v \in ToSet(vals)
          /\ 1000 * AtMost(v) >= p * n
          /\ \/ Below(v) = 0
             \/ 1000 * Below(v) < p * n
             \/ RoundedUp(p, n) /\ 1000 * (Below(v) - 1) < p * n

\* The tail is never empty, always holds every slowest request and, with
\* requests of other latencies outside it, is separated from them; whatever
\* the percentile, no more than p% of the requests stay outside, but for the
\* rounding of the rank.
TailSeparates ==
  LET ts == Fleet
      n == Len(ts)
  IN  n > 0 =>
        \A p \in Percentiles :
          LET tail == TailOf(ts, p)
              out == DOMAIN ts \ tail
          IN  /\ \E i \in tail : \A j \in DOMAIN ts : LatencyOf(ts[j]) <= LatencyOf(ts[i])
              /\ \A i \in tail, j \in out : LatencyOf(ts[j]) < LatencyOf(ts[i])
              /\ 1000 * (Cardinality(out) - (IF RoundedUp(p, n) THEN 1 ELSE 0)) <= p * n

\* Three tallies of the same fleet agree: the groups of correlate_by by any
\* key, two windows that split the fleet anywhere, and the aggregates of the
\* replay; and which_share picks a group of correlate_by exactly.
TalliesAgree ==
  LET ts == Fleet
      agg == Aggregates(ts)
      Over(f, attr) == SumFunction([k \in DOMAIN f |-> f[k][attr]])
      result == [i \in DOMAIN ts |-> ts[i].outcome]
      boot == [i \in DOMAIN ts |-> IF ts[i].boots = <<>> THEN None ELSE Head(ts[i].boots)]
      byBoot == CorrelateBy(ts, boot)
      byResult == CorrelateBy(ts, result)
  IN  /\ \A g \in {byBoot, byResult} :
           /\ Over(g, "count") = agg.request_trace_count
           /\ Over(g, "total") = agg.total_latency
           /\ Over(g, "kv_hits") = agg.kv_hits /\ Over(g, "kv_misses") = agg.kv_misses
           /\ Over(g, "retries") <= agg.retry_events
      /\ \A i \in 0..Len(ts) :
           LET w == CompareWindows(SubSeq(ts, 1, i), SubSeq(ts, i + 1, Len(ts))) IN
           /\ w.a.count + w.b.count = agg.request_trace_count
           /\ w.a.total + w.b.total = agg.total_latency
           /\ w.a.kv_hits + w.b.kv_hits = agg.kv_hits
           /\ \A attr \in {"retries", "restarts"} :
                w.a[attr] + w.b[attr] = Over(byBoot, attr)
           /\ Max({w.a.p90, w.b.p90}) >= agg.metrics.percentile[900]
      /\ \A r \in DOMAIN byResult :
           LET share == WhichShare(ts, result, r) IN
           /\ Cardinality(DOMAIN share) = byResult[r].count
           /\ SumFunction(share) = byResult[r].total
=============================================================================
