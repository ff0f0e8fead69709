----------------------------- MODULE CudaProof -----------------------------
(***************************************************************************)
(* The evidence obscli cuda produces about its four requests               *)
(* (cuda_proof.cu: mk and add_request), from the times of the kernels it   *)
(* ran.                                                                    *)
(*                                                                         *)
(* obs_ts counts nanoseconds from the start of a request's own clock.      *)
(* recv_ts is a counter that advances by 1000 ns with every observation:   *)
(* it is kept in units of that step.                                       *)
(***************************************************************************)
EXTENDS Evidence, TLC

CONSTANTS
  Boot,                      \* of the one logical source
  ColdPrefill, WarmPrefill,  \* measured times
  Decode, QueueDelay

Step(type, dt, fields) == [type |-> type, dt |-> dt, fields |-> fields]
Plain(type, dt) == Step(type, dt, <<>>)

\* What add_request records: observations, each dt after the one before.
Prefill(ms, loaded, stored) ==
  << Step("PREFILL_START", 300, loaded @@ [input_tokens |-> Value("u64", 256), gpu_ms |-> Value("f64", ms)]),
     Step("PREFILL_END", ms, stored @@ [gpu_ms |-> Value("f64", ms)]) >>

DecodeStep(i, ms) ==
  << Step("DECODE_STEP_START", 300, [output_tokens |-> Value("u64", i), gpu_ms |-> Value("f64", ms)]),
     Step("DECODE_STEP_END", ms, [gpu_ms |-> Value("f64", ms)]) >>

Residency(warm) ==
  << Step("MODEL_RESIDENCY", 100, [is_warm |-> Value("bool", warm)]),
     Plain(IF warm = 1 THEN "KV_HIT" ELSE "KV_MISS", 50) >>

\* The kernels' outcome is not used: a retry is part of the scenario.
Steps(warm, ms, retried, queue) ==
  LET loaded == [bytes_h2d |-> Value("u64", 64)]
      stored == [bytes_d2h |-> Value("u64", 32)]
  IN
  << Plain("REQUEST", 0), Plain("ADMISSION", 500) >> \o
  (IF queue > 0 THEN << Plain("QUEUE_ENTER", 0), Plain("QUEUE_LEAVE", queue) >> ELSE <<>>) \o
  << Plain("BATCH_FORM", 200), Plain("BATCH_SEAL", 200), Plain("DISPATCH", 100),
     Step("TRANSFER_START", 100, loaded), Plain("TRANSFER_END", 200) >> \o
  Prefill(ms, loaded, stored) \o
  (IF retried THEN << Plain("FAILURE", 500), Plain("RETRY", 500) >> \o Prefill(ms, <<>>, <<>>) ELSE <<>>) \o
  DecodeStep(1, Decode) \o DecodeStep(2, Decode) \o Residency(warm) \o
  << Plain("COMPLETION", 200) >>

\* mk: first observations were made before this request.
AddRequest(first, steps) ==
  [i \in DOMAIN steps |->
     [id |-> first + i, type |-> steps[i].type, seq |-> first + i,
      boot |-> Boot, src_gen |-> 1, obs_gen |-> 1, epoch |-> 1,
      recv_ts |-> 1000000 + first + i,
      obs_ts |-> 5000 + FoldLeft(LAMBDA s, x : s + x.dt, 0, SubSeq(steps, 1, i)),
      provenance |-> "MEASURED", model |-> None,
      outcome |-> IF steps[i].type = "COMPLETION" THEN "COMPLETED" ELSE "UNKNOWN",
      fields |-> steps[i].fields]]

\* A cold, a warm, a queued and a retried request.
Scenario ==
  << Steps(0, ColdPrefill, FALSE, 0), Steps(1, WarmPrefill, FALSE, 0),
     Steps(1, WarmPrefill, FALSE, QueueDelay), Steps(1, WarmPrefill, TRUE, 0) >>

CudaEvidence ==
  [r \in 1..4 |->
     AddRequest(FoldLeft(LAMBDA s, x : s + Len(x), 0, SubSeq(Scenario, 1, r - 1)), Scenario[r])]
=============================================================================
