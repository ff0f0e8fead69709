------------------------------- MODULE Trace -------------------------------
(***************************************************************************)
(* Reconstruction of one request's trace (trace.cpp): reconstruct_trace as *)
(* an operator on the list of observations it is given, and a state machine*)
(* in which the evidence of the request arrives in any order.              *)
(*                                                                         *)
(* An observation keeps what reconstruct_trace looks at.  recv_ts and      *)
(* obs_ts are the coordinator's and the source's clock, None when absent;  *)
(* 0 is the code's own value for "no time".  model stands for the five     *)
(* identities (tenant, workload, model, revision, adapter), which are      *)
(* taken from the evidence in the same way; outcome for the outcome code   *)
(* of a COMPLETION; the id's byte order is an integer order.               *)
(***************************************************************************)
EXTENDS Evidence

CONSTANT Pools   \* bodies of evidence the sources may produce about the request

Provenance == {"UNKNOWN", "MEASURED", "REPORTED", "DERIVED", "ESTIMATED",
               "RECONSTRUCTED", "HEURISTIC"}

\* The coordinator keeps one observation per id (Coordinator!IndexUnique).
ASSUME PoolAssumption ==
  \A S \in Pools :
    /\ \A o \in S : /\ o.id \in Nat /\ o.seq \in Nat /\ o.epoch \in Nat
                    /\ {o.recv_ts, o.obs_ts} \subseteq Nat \cup {None}
                    /\ o.provenance \in Provenance
    /\ \A a, b \in S : a.id = b.id => a = b

VARIABLES
  pool,      \* the evidence there is
  arrived    \* by_request_[request]: what has arrived, in arrival order

tracevars == <<pool, arrived>>

-----------------------------------------------------------------------------
(* obs_time and the timeline *)

InRecvDomain(o) == o.recv_ts # None

Ts(o) == IF o.recv_ts # None THEN o.recv_ts
         ELSE IF o.obs_ts # None THEN o.obs_ts ELSE 0

\* Mutant: the last tie-break is dropped.
BeforeUntied(a, b) ==
  IF Ts(a) # Ts(b) THEN Ts(a) < Ts(b)
  ELSE IF InRecvDomain(a) # InRecvDomain(b) THEN InRecvDomain(a)
  ELSE a.seq < b.seq

\* The comparator of the timeline.
Before(a, b) ==
  IF Ts(a) # Ts(b) THEN Ts(a) < Ts(b)
  ELSE IF InRecvDomain(a) # InRecvDomain(b) THEN InRecvDomain(a)
  ELSE IF a.seq # b.seq THEN a.seq < b.seq
  ELSE a.id < b.id

\* std::sort under a total order, by insertion.
Sorted(s, before(_, _)) ==
  LET Insert(v, o) ==
        LET n == Cardinality({i \in 1..Len(v) : ~before(o, v[i])}) IN
        SubSeq(v, 1, n) \o <<o>> \o SubSeq(v, n + 1, Len(v))
  IN  FoldLeft(Insert, <<>>, s)

Timeline(obs) == Sorted(obs, Before)

-----------------------------------------------------------------------------
(* Phase extraction, from a timeline v *)

\* first_obs and last_obs find something when HasType.
Positions(v, t) == {i \in DOMAIN v : v[i].type = t}
HasType(v, t) == Positions(v, t) # {}
FirstObs(v, t) == v[Min(Positions(v, t))]
LastObs(v, t) == v[Max(Positions(v, t))]

\* Their instants, through tdom; without an observation the instant is 0.
Instant(o) == [ts |-> Ts(o), recv |-> InRecvDomain(o)]
NoInstant == [ts |-> 0, recv |-> FALSE]
FirstOf(v, t) == IF HasType(v, t) THEN Instant(FirstObs(v, t)) ELSE NoInstant
LastOf(v, t) == IF HasType(v, t) THEN Instant(LastObs(v, t)) ELSE NoInstant
FirstProvenance(v, t) ==
  IF HasType(v, t) THEN FirstObs(v, t).provenance ELSE "RECONSTRUCTED"

\* The first of the instants that has a time, as the chains of
\* "if (x.ts == 0)" choose it.
OrElse(x, y) == IF x.ts # 0 THEN x ELSE y

\* add_phase
Interval(s, e, prov) ==
  [start |-> s.ts, end |-> e.ts, provenance |-> prov]
Span(s, e) == Interval(s, e, IF s.recv /\ e.recv THEN "MEASURED" ELSE "RECONSTRUCTED")
Point(t, prov) == Interval(t, t, prov)

\* if (e.ts < s.ts) e.ts = s.ts
NotBefore(e, s) == IF e.ts < s.ts THEN [e EXCEPT !.ts = s.ts] ELSE e

Arrival(v) ==
  OrElse(FirstOf(v, "REQUEST"),
         OrElse(FirstOf(v, "QUEUE_ENTER"), IF v = <<>> THEN NoInstant ELSE Instant(Head(v))))

Completion(v) ==
  OrElse(LastOf(v, "COMPLETION"), IF v = <<>> THEN NoInstant ELSE Instant(Last(v)))

\* Mutant: the first end of a phase closes it.
PairFirst(v, start, end) == <<FirstOf(v, start), FirstOf(v, end)>>

\* A phase that lasts from its first start to its last end.
Pair(v, start, end) == <<FirstOf(v, start), LastOf(v, end)>>

Phases(v) ==
  LET queue == Pair(v, "QUEUE_ENTER", "QUEUE_LEAVE")
      trans == Pair(v, "TRANSFER_START", "TRANSFER_END")
      pre   == Pair(v, "PREFILL_START", "PREFILL_END")
      dec   == Pair(v, "DECODE_STEP_START", "DECODE_STEP_END")
      spec  == Pair(v, "SPECULATION_START", "SPECULATION_VERIFY")
      disp  == FirstOf(v, "DISPATCH")
      batch == FirstOf(v, IF HasType(v, "BATCH_FORM") THEN "BATCH_FORM" ELSE "BATCH_SEAL")
      base  == OrElse(pre[2], dec[1])
      Timed(pair) == pair[1].ts # 0 /\ pair[2].ts # 0
      exists ==
        [ARRIVAL     |-> Arrival(v).ts # 0,
         ADMISSION   |-> FirstOf(v, "ADMISSION").ts # 0,
         QUEUE       |-> Timed(queue),
         BATCH_WAIT  |-> /\ HasType(v, "BATCH_FORM") \/ HasType(v, "BATCH_SEAL")
                         /\ disp.ts # 0,
         DISPATCH    |-> disp.ts # 0,
         TRANSFER    |-> Timed(trans),
         PREFILL     |-> Timed(pre),
         FIRST_TOKEN |-> Timed(dec),
         DECODE      |-> Timed(dec),
         SPECULATION |-> Timed(spec),
         RETRY       |-> FirstOf(v, "RETRY").ts # 0,
         RECOVERY    |-> FirstOf(v, "RECOVERY").ts # 0,
         COMPLETION  |-> LastOf(v, "COMPLETION").ts # 0,
         TOTAL       |-> Arrival(v).ts # 0]
      phase ==
        [ARRIVAL     |-> Point(Arrival(v), FirstProvenance(v, "REQUEST")),
         ADMISSION   |-> Point(FirstOf(v, "ADMISSION"), FirstProvenance(v, "ADMISSION")),
         QUEUE       |-> Span(queue[1], queue[2]),
         BATCH_WAIT  |-> Span(batch, disp),
         DISPATCH    |-> Span(disp, NotBefore(OrElse(pre[1], dec[1]), disp)),
         TRANSFER    |-> Span(trans[1], trans[2]),
         PREFILL     |-> Span(pre[1], pre[2]),
         FIRST_TOKEN |-> Interval(base, IF dec[2].ts < base.ts THEN dec[1] ELSE dec[2],
                                  "RECONSTRUCTED"),
         DECODE      |-> Span(dec[1], dec[2]),
         SPECULATION |-> Span(spec[1], spec[2]),
         RETRY       |-> Point(FirstOf(v, "RETRY"), FirstProvenance(v, "RETRY")),
         RECOVERY    |-> Point(FirstOf(v, "RECOVERY"), FirstProvenance(v, "RECOVERY")),
         COMPLETION  |-> Point(LastOf(v, "COMPLETION"),
                               IF HasType(v, "COMPLETION")
                               THEN LastObs(v, "COMPLETION").provenance
                               ELSE "RECONSTRUCTED"),
         TOTAL       |-> Interval(Arrival(v), NotBefore(Completion(v), Arrival(v)),
                                  "RECONSTRUCTED")]
  IN  [p \in {q \in DOMAIN exists : exists[q]} |-> phase[p]]

-----------------------------------------------------------------------------
(* What the trace says about the request as a whole *)

\* Mutant: a failure outranks a completion.
OutcomeFailureFirst(v) ==
  IF HasType(v, "FAILURE") THEN "FAILED"
  ELSE IF HasType(v, "COMPLETION") THEN LastObs(v, "COMPLETION").outcome
  ELSE IF HasType(v, "CANCEL") THEN "CANCELLED"
  ELSE "UNKNOWN"

\* A COMPLETION without a known code counts as completed; without one, a
\* cancellation outranks a failure.
Outcome(v) ==
  IF HasType(v, "COMPLETION")
  THEN LET code == LastObs(v, "COMPLETION").outcome IN
       IF code = "UNKNOWN" THEN "COMPLETED" ELSE code
  ELSE IF HasType(v, "CANCEL") THEN "CANCELLED"
  ELSE IF HasType(v, "FAILURE") THEN "FAILED"
  ELSE "UNKNOWN"

\* min_epoch, where 0 stands for "not set yet".
MinEpoch(v) == FoldLeft(LAMBDA m, o : IF m = 0 \/ o.epoch < m THEN o.epoch ELSE m, 0, v)

\* Mutant: the largest epoch is the one of the last observation.
MaxEpochLast(v) == IF v = <<>> THEN 0 ELSE Last(v).epoch

MaxEpoch(v) == FoldLeft(LAMBDA m, o : IF o.epoch > m THEN o.epoch ELSE m, 0, v)

\* add_boot, add_gen, add_ogen: the boots and generations that fed the trace,
\* each once, in the order of the timeline.
Distinct(v, attr) ==
  FoldLeft(LAMBDA bs, o : IF Contains(bs, o[attr]) THEN bs ELSE Append(bs, o[attr]), <<>>, v)

\* The first identity any observation exposes.
Identity(v) == FoldLeft(LAMBDA m, o : IF m = None THEN o.model ELSE m, None, v)

\* reconstruct_trace
Reconstruct(obs) ==
  LET v == Timeline(obs) IN
  [evidence |-> v, phases |-> Phases(v), outcome |-> Outcome(v), model |-> Identity(v),
   boots |-> Distinct(v, "boot"),
   src_gens |-> Distinct(v, "src_gen"), obs_gens |-> Distinct(v, "obs_gen"),
   min_epoch |-> MinEpoch(v), max_epoch |-> MaxEpoch(v),
   spans_multiple_epochs |-> MinEpoch(v) # MaxEpoch(v)]

-----------------------------------------------------------------------------
(* Evidence arrives *)

TraceInit == pool \in Pools /\ arrived = <<>>

\* The coordinator accepts one more observation of the request.
Arrive(o) ==
  /\ o \notin ToSet(arrived)
  /\ arrived' = Append(arrived, o)
  /\ UNCHANGED pool

TraceNext == \E o \in pool : Arrive(o)

TraceSpec == TraceInit /\ [][TraceNext]_tracevars

-----------------------------------------------------------------------------
(* Properties *)

\* The trace does not depend on the order in which threads, sources and
\* connections delivered the evidence: it is the trace of the same evidence
\* listed by id, which is how replay and load_archive see it.
OrderIndependent ==
  Reconstruct(arrived) =
    Reconstruct(Sorted(arrived, LAMBDA a, b : a.id < b.id))

\* The trace shows every change of authority in its evidence: all the boots
\* and generations that fed it, and spans_multiple_epochs when they come from
\* more than one coordinator epoch (trace.hpp: "preserves every
\* generation/authority transition").
AuthorityTransitionsShown ==
  LET t == Reconstruct(arrived)
      epochs == {o.epoch : o \in ToSet(arrived)}
      Shows(list, attr) == ToSet(list) = {o[attr] : o \in ToSet(arrived)}
  IN  /\ Shows(t.boots, "boot") /\ Shows(t.src_gens, "src_gen") /\ Shows(t.obs_gens, "obs_gen")
      /\ t.spans_multiple_epochs <=> Cardinality(epochs) > 1
      /\ epochs # {} => t.min_epoch = Min(epochs) /\ t.max_epoch = Max(epochs)

\* Once a COMPLETION is in evidence, later arrivals of anything else (a
\* failure or a cancellation that overtook it, a retry) leave the outcome of
\* the request as it is.
CompletionDecides ==
  [][HasType(arrived, "COMPLETION") /\ Last(arrived').type # "COMPLETION" =>
       Reconstruct(arrived').outcome = Reconstruct(arrived).outcome]_tracevars

\* Late evidence only widens what a request is known to have spent queueing,
\* transferring, prefilling, decoding or speculating: no phase that was seen
\* disappears or shrinks when more timed observations come in.
LateEvidenceWidens ==
  [][Ts(Last(arrived')) # 0 =>
       LET old == Reconstruct(arrived).phases
           new == Reconstruct(arrived').phases
       IN  \A p \in DOMAIN old \cap {"QUEUE", "TRANSFER", "PREFILL", "DECODE", "SPECULATION"} :
             /\ p \in DOMAIN new
             /\ new[p].start <= old[p].start
             /\ new[p].end >= old[p].end]_tracevars
=============================================================================
