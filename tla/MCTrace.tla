------------------------------ MODULE MCTrace ------------------------------
(***************************************************************************)
(* Small bodies of evidence about one request.                             *)
(***************************************************************************)
EXTENDS Tail

CONSTANTS b1, b2, m1, m2

\* An observation on the receive clock, and one with the source clock only.
At(id, type, ts) ==
  [id |-> id, type |-> type, recv_ts |-> ts, obs_ts |-> None, seq |-> 0, epoch |-> 1,
   boot |-> b1, src_gen |-> 1, obs_gen |-> 1, model |-> None, outcome |-> "UNKNOWN",
   provenance |-> "MEASURED", fields |-> <<>>]
SourceAt(id, type, ts) == [At(id, type, None) EXCEPT !.obs_ts = ts]

\* Two queue entries (one on each clock, at the same instant), a restart of
\* the worker under a later epoch, ties at 3, a completion, and a failure
\* that was reported after it.
LifePool ==
  { [At(1, "QUEUE_ENTER", 2) EXCEPT !.model = m1],
    [SourceAt(2, "QUEUE_ENTER", 2) EXCEPT !.model = m2],
    At(3, "QUEUE_LEAVE", 3),
    [At(4, "QUEUE_LEAVE", 3) EXCEPT !.boot = b2, !.epoch = 2, !.src_gen = 2],
    At(5, "DISPATCH", 3),
    [At(6, "COMPLETION", 6) EXCEPT !.outcome = "PARTIAL"],
    At(7, "FAILURE", 7) }

\* Two decode steps after a prefill, one more start, a cancellation.
DecodePool ==
  { At(1, "PREFILL_START", 2), At(2, "PREFILL_END", 3),
    [At(3, "DECODE_STEP_START", 3) EXCEPT !.fields = [output_tokens |-> Value("u64", 9)]],
    At(4, "DECODE_STEP_END", 4),
    [At(5, "DECODE_STEP_START", 4) EXCEPT !.seq = 1, !.fields = [output_tokens |-> Value("u64", 5)]],
    [At(6, "DECODE_STEP_END", 5) EXCEPT !.seq = 1, !.epoch = 2, !.obs_gen = 2], At(7, "CANCEL", 5) }

\* What obscli ingest makes of two scripts: lines of one request, with typed
\* words, and the authorities of a worker before and after its restart.
Line(type, recv, words) ==
  [kw |-> "OBS", type |-> type, recv |-> recv, obs_ts |-> 0, model |-> None,
   outcome |-> "UNKNOWN", words |-> words]
Num(n) == Word("integer", n)
True == Word("boolean", 1)
False == Word("boolean", 0)
Sleep == [Line("UNKNOWN", None, <<>>) EXCEPT !.kw = "SLEEP"]

FirstBoot == [id |-> 0, boot |-> b1, src_gen |-> 1, obs_gen |-> 1, epoch |-> 1]
SecondBoot == [id |-> 10, boot |-> b2, src_gen |-> 2, obs_gen |-> 1, epoch |-> 2]

\* A cold start whose transfer and speculation overlap, a retry on a
\* restarted worker, and its recovery.
RetryPool ==
  ToSet(RunScript(FirstBoot,
    << Line("TRANSFER_START", 2, [bytes_h2d |-> Num(64)]),
       Line("TRANSFER_END", 6, [bytes_h2d |-> Num(1), gpu_ms |-> Word("decimal", 3)]),
       Sleep,
       Line("SPECULATION_START", 3, [spec_tokens |-> Num(4)]),
       Line("MODEL_RESIDENCY", 3, [is_warm |-> Num(0)]) >>)) \cup
  ToSet(RunScript(SecondBoot,
    << Line("SPECULATION_VERIFY", 4, [accepted_tokens |-> Num(3), rejected_tokens |-> Num(1)]),
       Line("RETRY", 3, [reason |-> Word("text", 0)]),
       Line("KV_HIT", None, [count |-> Num(0)]) >>))

\* A prefill of a cold model under a warm adapter, with residencies given as
\* words of every kind (other text counts as cold), and a flag where a count
\* belongs.
ColdPool ==
  ToSet(RunScript(FirstBoot,
    << Line("PREFILL_START", 2, [input_tokens |-> Num(7)]),
       Line("PREFILL_END", 12, <<>>),
       Line("MODEL_RESIDENCY", 3, [is_warm |-> False, cached |-> True]),
       Line("ADAPTER_RESIDENCY", 3, [is_warm |-> True]),
       Line("MODEL_RESIDENCY", 4, [is_warm |-> Word("text", 0)]),
       Line("KV_HIT", 5, [count |-> True]) >>))

\* A request whose source knows its own clock only.
SourcePool ==
  { SourceAt(1, "REQUEST", 1), SourceAt(2, "ADMISSION", 2), SourceAt(3, "COMPLETION", 3) }

Lives == {LifePool, DecodePool, RetryPool, ColdPool, SourcePool}

\* Another request, complete, with a latency and more evidence.
Peer(boot, latency, more) ==
  Reconstruct(<<[At(1, "REQUEST", 1) EXCEPT !.boot = boot],
                [At(2, "COMPLETION", 1 + latency) EXCEPT !.boot = boot]>> \o more)
Plain(latency) == Peer(b1, latency, <<>>)

\* Peers with retries, restarts, cache hits and speculation of their own.
Busy ==
  << Peer(b1, 4, <<At(3, "RETRY", 2), At(4, "KV_HIT", 2)>>),
     Peer(b2, 7, <<At(3, "KV_MISS", 2), At(4, "WORKER_DOWN", 2),
                   [At(5, "SPECULATION_START", 3) EXCEPT !.fields = [spec_tokens |-> Value("u64", 4)]]>>) >>

\* Up to three other requests of any latencies, and 24 of which most are as
\* slow as the one that is still arriving may become.
Others ==
  { [i \in DOMAIN l |-> Plain(l[i])] : l \in UNION {[1..n -> 0..3] : n \in 0..3} } \cup
  { [i \in 1..24 |-> Plain(IF i <= k THEN 1 ELSE IF i <= 14 THEN 2 ELSE 3)] : k \in 5..8 }

LiveFleets == [S \in Lives |-> IF S = SourcePool THEN Others ELSE {Busy}]
=============================================================================
