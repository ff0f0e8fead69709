----------------------------- MODULE MCLatency -----------------------------
(***************************************************************************)
(* Requests for the decomposition and its explanation: one observation of  *)
(* each type at any of a few instants, so that phases overlap, nest, touch,*)
(* are empty, and end before they start (an end on another source's        *)
(* clock); requests whose phases reach beyond them, with retries, restarts *)
(* and cold starts; and the requests of the CUDA proof.                    *)
(***************************************************************************)
EXTENDS Explanation

CONSTANTS MaxTs, b1, b2

C == INSTANCE CudaProof WITH
       Boot <- b1, ColdPrefill <- 9000, WarmPrefill <- 2000, Decode <- 1000, QueueDelay <- 3000

Obs(type, ts) ==
  [id |-> 0, type |-> type, recv_ts |-> ts, obs_ts |-> None, seq |-> 0, epoch |-> 1,
   boot |-> b1, src_gen |-> 1, obs_gen |-> 1, model |-> None, outcome |-> "UNKNOWN",
   provenance |-> "MEASURED", fields |-> <<>>]

Request(from, to, middle) ==
  A!Reconstruct(<<Obs("REQUEST", from)>> \o middle \o <<Obs("COMPLETION", to)>>)

\* Queueing, a transfer and decoding at any instants of the request's life.
Within ==
  {Request(1, MaxTs, <<Obs("QUEUE_ENTER", a), Obs("QUEUE_LEAVE", b),
                       Obs("TRANSFER_START", c), Obs("TRANSFER_END", d),
                       Obs("DECODE_STEP_START", e), Obs("DECODE_STEP_END", f)>>) :
     a, b, c, d, e, f \in 1..MaxTs}

\* A restarted worker's evidence of a cold, retried request.
Trouble ==
  << [Obs("RETRY", 3) EXCEPT !.boot = b2, !.epoch = 2],
     [Obs("MODEL_RESIDENCY", None) EXCEPT !.fields = [is_warm |-> A!Value("bool", 0)]],
     [Obs("KV_LOOKUP", None) EXCEPT !.fields = [count |-> A!Value("u64", 3)]],
     Obs("KV_HIT", None) >>

\* A dispatch and a prefill before, after and across the request's own ends,
\* and a batch whose formation carries no timestamp.
Beyond ==
  {Request(2, 4, <<Obs("DISPATCH", a), Obs("PREFILL_START", b), Obs("PREFILL_END", c)>> \o more) :
     a, b, c \in 1..MaxTs, more \in {<<>>, Trouble, <<Obs("BATCH_FORM", None)>>}}

CudaRequests == {A!Reconstruct(C!CudaEvidence[r]) : r \in 1..4}

MCRequests == Within \cup Beyond \cup CudaRequests
MCTraces == {PhaseTable(t) : t \in MCRequests}
=============================================================================
