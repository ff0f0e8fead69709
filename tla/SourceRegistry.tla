--------------------------- MODULE SourceRegistry ---------------------------
(***************************************************************************)
(* The source authority registry (model/source_authority.hpp,              *)
(* authority.cpp): what the coordinator currently believes about each      *)
(* (source, worker) pair, and the envelope test every observation must     *)
(* pass.  The registry is a value, so this module has operators only; the  *)
(* Coordinator module owns it as a variable.                               *)
(*                                                                         *)
(* Abstractions.                                                           *)
(*  - A key stands for the pair (source, worker).  The code indexes its    *)
(*    map by a 64-bit mix of the pair (key_of); the model takes the mix to *)
(*    be injective.                                                        *)
(*  - An observation keeps its id, its authority envelope, its request id  *)
(*    and the two optional fields the registry copies.  The rest of its    *)
(*    payload does not influence the coordinator.                          *)
(*  - The free-text reason of a rejection is the decision it describes.    *)
(***************************************************************************)
EXTENDS Integers

CONSTANTS
  Keys,         \* (source, worker) pairs
  Boots,        \* WorkerBootId values
  ObsIds,       \* ObservationId values
  Requests,     \* non-null RequestId values
  Timestamps,   \* obs_ts values
  None          \* an absent optional field, or the null RequestId

ASSUME NoneAssumption == None \notin Requests /\ None \notin Timestamps

SourceHealth == {"UNKNOWN", "HEALTHY", "DEGRADED", "STALE", "DOWN",
                 "RESTARTING", "REJECTED"}

AuthorityDecision ==
  {"ACCEPTED", "STALE_EPOCH", "STALE_SOURCE_GENERATION",
   "STALE_OBSERVATION_GENERATION", "STALE_BOOT", "DUPLICATE_SEQUENCE",
   "OUT_OF_ORDER_SEQUENCE", "UNREGISTERED_SOURCE", "FRESH_BUT_DOWNHEALTH"}

Optional(S) == S \cup {None}

\* What a HELLO carries (register_hello leaves has_health unset).
HelloPayload ==
  [key : Keys, boot : Boots, src_gen : Nat, obs_gen : Nat, epoch : Nat]

Observation ==
  [id : ObsIds, key : Keys, boot : Boots, src_gen : Nat, obs_gen : Nat,
   epoch : Nat, seq : Nat, request : Optional(Requests),
   obs_ts : Optional(Timestamps), health : Optional(SourceHealth)]

\* last_obs_ts and has_last_ts are one optional field; registered is
\* membership in the registry's domain.
SourceAuthority ==
  [epoch : Nat, src_gen : Nat, obs_gen : Nat, boot : Boots, last_seq : Nat,
   last_obs_ts : Optional(Timestamps), health : SourceHealth,
   restart_count : Nat]

\* by_key_[k] = a : insert or overwrite.
Put(f, k, a) == [x \in DOMAIN f \cup {k} |-> IF x = k THEN a ELSE f[x]]

\* The update of an optional field: keep the old value when absent.
OrKeep(new, old) == IF new = None THEN old ELSE new

-----------------------------------------------------------------------------

\* The condition of the idempotent branch of register_source.
SameBoot(reg, h) ==
  /\ h.key \in DOMAIN reg
  /\ reg[h.key].boot = h.boot
  /\ reg[h.key].src_gen = h.src_gen
  /\ reg[h.key].obs_gen = h.obs_gen

\* Mutant: a replaced authority keeps its predecessor's count.
RestartCountKept(reg, k) ==
  IF k \in DOMAIN reg THEN reg[k].restart_count ELSE 0

\* restart_count numbers the authorities a key has had, from 0.
RestartCount(reg, k) ==
  IF k \in DOMAIN reg THEN reg[k].restart_count + 1 ELSE 0

\* The authority of a boot that has said HELLO and nothing else.
FreshAuthority(reg, h) ==
  [epoch |-> h.epoch, src_gen |-> h.src_gen, obs_gen |-> h.obs_gen,
   boot |-> h.boot, last_seq |-> 0, last_obs_ts |-> None,
   health |-> "HEALTHY", restart_count |-> RestartCount(reg, h.key)]

\* Mutant: a re-registration of the same boot forgets the sequence.
RegisterForgets(reg, h) ==
  Put(reg, h.key, IF SameBoot(reg, h)
                  THEN [reg[h.key] EXCEPT !.epoch = h.epoch, !.last_seq = 0]
                  ELSE FreshAuthority(reg, h))

\* register_source: the same boot and generations only refresh the epoch;
\* anything else replaces the authority.  The code compares neither the boot
\* with earlier boots nor the generations with the current ones.
RegisterSource(reg, h) ==
  Put(reg, h.key, IF SameBoot(reg, h)
                  THEN [reg[h.key] EXCEPT !.epoch = h.epoch]
                  ELSE FreshAuthority(reg, h))

\* mark_restart: the registry itself mints the next generations.
MarkRestart(reg, k, boot, epoch) ==
  Put(reg, k,
      [epoch |-> epoch,
       src_gen |-> IF k \in DOMAIN reg THEN reg[k].src_gen + 1 ELSE 1,
       obs_gen |-> IF k \in DOMAIN reg THEN reg[k].obs_gen + 1 ELSE 1,
       boot |-> boot, last_seq |-> 0, last_obs_ts |-> None,
       health |-> "RESTARTING", restart_count |-> RestartCount(reg, k)])

\* Mutant: a repeated zero is a duplicate, as any other repeated number is.
SequenceDecisionZero(a, o) ==
  IF o.seq < a.last_seq THEN "OUT_OF_ORDER_SEQUENCE"
  ELSE IF o.seq = a.last_seq THEN "DUPLICATE_SEQUENCE"
  ELSE "ACCEPTED"

\* The sequence part of validate, for an envelope that matched.
SequenceDecision(a, o) ==
  IF o.seq < a.last_seq THEN "OUT_OF_ORDER_SEQUENCE"
  ELSE IF o.seq = a.last_seq /\ a.last_seq # 0 THEN "DUPLICATE_SEQUENCE"
  ELSE "ACCEPTED"

\* Mutant: the duplicate test is dropped.
DecisionNoDuplicate(reg, o) ==
  IF o.key \notin DOMAIN reg THEN "UNREGISTERED_SOURCE"
  ELSE LET a == reg[o.key] IN
       IF o.epoch < a.epoch THEN "STALE_EPOCH"
       ELSE IF o.src_gen # a.src_gen THEN "STALE_SOURCE_GENERATION"
       ELSE IF o.obs_gen # a.obs_gen THEN "STALE_OBSERVATION_GENERATION"
       ELSE IF o.boot # a.boot THEN "STALE_BOOT"
       ELSE IF o.seq < a.last_seq THEN "OUT_OF_ORDER_SEQUENCE"
       ELSE "ACCEPTED"

\* Mutant: a newer generation is let through, as a newer epoch is.
DecisionGenerationAhead(reg, o) ==
  IF o.key \notin DOMAIN reg THEN "UNREGISTERED_SOURCE"
  ELSE LET a == reg[o.key] IN
       IF o.epoch < a.epoch THEN "STALE_EPOCH"
       ELSE IF o.src_gen < a.src_gen THEN "STALE_SOURCE_GENERATION"
       ELSE IF o.obs_gen < a.obs_gen THEN "STALE_OBSERVATION_GENERATION"
       ELSE IF o.boot # a.boot THEN "STALE_BOOT"
       ELSE SequenceDecision(a, o)

\* validate, up to its decision: the first failing test names the reason.
\* An epoch ahead of the authority passes; a generation ahead does not.
Decision(reg, o) ==
  IF o.key \notin DOMAIN reg THEN "UNREGISTERED_SOURCE"
  ELSE LET a == reg[o.key] IN
       IF o.epoch < a.epoch THEN "STALE_EPOCH"
       ELSE IF o.src_gen # a.src_gen THEN "STALE_SOURCE_GENERATION"
       ELSE IF o.obs_gen # a.obs_gen THEN "STALE_OBSERVATION_GENERATION"
       ELSE IF o.boot # a.boot THEN "STALE_BOOT"
       ELSE SequenceDecision(a, o)

\* validate, after its decision: an accepted observation advances its
\* authority.
Advance(reg, o) ==
  Put(reg, o.key,
      [reg[o.key] EXCEPT
         !.last_seq    = IF o.seq > @ THEN o.seq ELSE @,
         !.last_obs_ts = OrKeep(o.obs_ts, @),
         !.health      = OrKeep(o.health, @)])
=============================================================================
