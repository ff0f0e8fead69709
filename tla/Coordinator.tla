----------------------------- MODULE Coordinator -----------------------------
(***************************************************************************)
(* The ingestion engine (store/coordinator.hpp, coordinator.cpp).  Every   *)
(* mutating member function runs under the mutex mu_ from its first        *)
(* statement to its last, so each one is a single action here; the order   *)
(* in which handler threads obtain the mutex is the order in which Next    *)
(* interleaves the actions.                                                *)
(*                                                                         *)
(* What the handlers may be given is a parameter: Hellos and Observations  *)
(* are any sets of well-formed payloads.  Nothing is assumed about the     *)
(* sources that sent them; ids in particular are read off the wire.        *)
(***************************************************************************)
EXTENDS SourceRegistry, Sequences, FiniteSets

CONSTANTS
  Hellos,       \* HELLO payloads that may arrive
  Observations, \* OBS payloads that may arrive
  Epochs,       \* values passed to set_epoch and mark_restart
  U32,          \* 2^32 in the code: the modulus of the u32 counters
  MaxStale,     \* bound on the length of the historical evidence
  MaxRestarts   \* bound on the authorities a key may have

ASSUME PayloadAssumption ==
  /\ Hellos \subseteq HelloPayload
  /\ Observations \subseteq Observation
  /\ Epochs \subseteq Nat
ASSUME U32Assumption == U32 \in Nat \ {0}

VARIABLES
  epoch,            \* epoch_
  registry,         \* registry_.by_key_
  accepted,         \* accepted_ : ObservationId -> Observation
  by_request,       \* by_request_ : RequestId -> sequence of observations
  stale,            \* stale_ : rejected observations with their reason
  accepted_total, stale_total, duplicate_total,
  log               \* history variable: accepted observations in the order of
                    \* their acceptance, each with the restart_count of the
                    \* authority that accepted it

vars == <<epoch, registry, accepted, by_request, stale,
          accepted_total, stale_total, duplicate_total, log>>

Reasons == (AuthorityDecision \ {"ACCEPTED"}) \cup {"DUPLICATE_ID"}

StaleEvidence == [obs : Observation, reason : Reasons]
LogEntry == [obs : Observation, session : Nat]

EmptyMap == [x \in {} |-> <<>>]

Increment(n) == (n + 1) % U32

\* Mutant: observations without a request id are indexed too.
IndexAll(idx, o) ==
  Put(idx, o.request,
      Append(IF o.request \in DOMAIN idx THEN idx[o.request] ELSE <<>>, o))

\* by_request_[rid].push_back(o), only for a non-null request id.
Index(idx, o) ==
  IF o.request = None THEN idx
  ELSE Put(idx, o.request,
           Append(IF o.request \in DOMAIN idx THEN idx[o.request] ELSE <<>>, o))

-----------------------------------------------------------------------------

Init ==
  /\ epoch = 1
  /\ registry = EmptyMap
  /\ accepted = EmptyMap
  /\ by_request = EmptyMap
  /\ stale = <<>>
  /\ accepted_total = 0 /\ stale_total = 0 /\ duplicate_total = 0
  /\ log = <<>>

evidence == <<accepted, by_request, stale,
              accepted_total, stale_total, duplicate_total, log>>

SetEpoch(e) ==
  /\ epoch' = e
  /\ UNCHANGED <<registry, evidence>>

\* register_hello takes the epoch from the payload, never from epoch_.
RegisterHello(h) ==
  /\ RestartCount(registry, h.key) <= MaxRestarts
  /\ registry' = RegisterSource(registry, h)
  /\ UNCHANGED <<epoch, evidence>>

\* registry().mark_restart: reachable through the public accessor.
RollAuthority(k, boot, e) ==
  /\ RestartCount(registry, k) <= MaxRestarts
  /\ registry' = MarkRestart(registry, k, boot, e)
  /\ UNCHANGED <<epoch, evidence>>

Retain(o, reason) ==
  /\ Len(stale) < MaxStale
  /\ stale' = Append(stale, [obs |-> o, reason |-> reason])

\* ingest, first exit: the id is already accepted.  Tested before the
\* authority, so a replay from a stale boot counts as a duplicate.
IngestDuplicate(o) ==
  /\ o.id \in DOMAIN accepted
  /\ Retain(o, "DUPLICATE_ID")
  /\ duplicate_total' = Increment(duplicate_total)
  /\ UNCHANGED <<epoch, registry, accepted, by_request,
                 accepted_total, stale_total, log>>

\* Mutant: the rejection is counted but the evidence is dropped.
IngestRejectedDropped(o) ==
  /\ o.id \notin DOMAIN accepted
  /\ Decision(registry, o) # "ACCEPTED"
  /\ Len(stale) < MaxStale
  /\ stale_total' = Increment(stale_total)
  /\ UNCHANGED <<epoch, registry, accepted, by_request, stale,
                 accepted_total, duplicate_total, log>>

\* ingest, second exit: the authority test fails.
IngestRejected(o) ==
  /\ o.id \notin DOMAIN accepted
  /\ Decision(registry, o) # "ACCEPTED"
  /\ Retain(o, Decision(registry, o))
  /\ stale_total' = Increment(stale_total)
  /\ UNCHANGED <<epoch, registry, accepted, by_request,
                 accepted_total, duplicate_total, log>>

\* Mutant: the id test is dropped.
IngestAcceptedAgain(o) ==
  /\ Decision(registry, o) = "ACCEPTED"
  /\ registry' = Advance(registry, o)
  /\ accepted' = Put(accepted, o.id, o)
  /\ by_request' = Index(by_request, o)
  /\ accepted_total' = Increment(accepted_total)
  /\ log' = Append(log, [obs |-> o, session |-> registry[o.key].restart_count])
  /\ UNCHANGED <<epoch, stale, stale_total, duplicate_total>>

\* ingest, third exit: the observation becomes current state.
IngestAccepted(o) ==
  /\ o.id \notin DOMAIN accepted
  /\ Decision(registry, o) = "ACCEPTED"
  /\ registry' = Advance(registry, o)
  /\ accepted' = Put(accepted, o.id, o)
  /\ by_request' = Index(by_request, o)
  /\ accepted_total' = Increment(accepted_total)
  /\ log' = Append(log, [obs |-> o, session |-> registry[o.key].restart_count])
  /\ UNCHANGED <<epoch, stale, stale_total, duplicate_total>>

Ingest(o) == IngestDuplicate(o) \/ IngestRejected(o) \/ IngestAccepted(o)

\* Mutant: the request index survives a reset.
ResetKeepsIndex ==
  /\ registry' = EmptyMap
  /\ accepted' = EmptyMap
  /\ stale' = <<>>
  /\ accepted_total' = 0 /\ stale_total' = 0 /\ duplicate_total' = 0
  /\ log' = <<>>
  /\ UNCHANGED <<epoch, by_request>>

\* reset: everything but epoch_.
Reset ==
  /\ registry' = EmptyMap
  /\ accepted' = EmptyMap
  /\ by_request' = EmptyMap
  /\ stale' = <<>>
  /\ accepted_total' = 0 /\ stale_total' = 0 /\ duplicate_total' = 0
  /\ log' = <<>>
  /\ UNCHANGED epoch

Next ==
  \/ \E e \in Epochs : SetEpoch(e)
  \/ \E h \in Hellos : RegisterHello(h)
  \/ \E k \in Keys, b \in Boots, e \in Epochs : RollAuthority(k, b, e)
  \/ \E o \in Observations : Ingest(o)
  \/ Reset

Spec == Init /\ [][Next]_vars

-----------------------------------------------------------------------------
(* Properties *)

\* Every variable holds a value of the type its C++ member has.
TypeOK ==
  /\ epoch \in Nat
  /\ DOMAIN registry \subseteq Keys
  /\ registry \in [DOMAIN registry -> SourceAuthority]
  /\ DOMAIN accepted \subseteq ObsIds
  /\ accepted \in [DOMAIN accepted -> Observation]
  /\ IsFiniteSet(DOMAIN accepted)
  /\ DOMAIN by_request \subseteq Requests
  /\ by_request \in [DOMAIN by_request -> Seq(Observation)]
  /\ stale \in Seq(StaleEvidence)
  /\ accepted_total \in 0..(U32 - 1)
  /\ stale_total \in 0..(U32 - 1)
  /\ duplicate_total \in 0..(U32 - 1)
  /\ log \in Seq(LogEntry)

\* Nothing is indexed that is not accepted evidence of that very request:
\* a trace built from by_request_ contains no rejected observation.
IndexSound ==
  \A r \in DOMAIN by_request : \A i \in 1..Len(by_request[r]) :
    LET o == by_request[r][i] IN
    /\ o.request = r
    /\ o.id \in DOMAIN accepted
    /\ accepted[o.id] = o

\* Nothing is indexed twice, although push_back never looks at what is there.
IndexUnique ==
  \A r \in DOMAIN by_request : \A i, j \in 1..Len(by_request[r]) :
    by_request[r][i].id = by_request[r][j].id => i = j

\* Every accepted observation that names a request is in its index.
IndexComplete ==
  \A id \in DOMAIN accepted :
    LET o == accepted[id] IN
    o.request # None =>
      /\ o.request \in DOMAIN by_request
      /\ \E i \in 1..Len(by_request[o.request]) : by_request[o.request][i] = o

\* by_request_ is exactly the accepted evidence grouped by request, although
\* the two maps are separate copies that ingest and reset update one by one.
IndexExact == IndexSound /\ IndexUnique /\ IndexComplete

\* The counters reported in acks and STATUS account for all the evidence the
\* coordinator holds, modulo the width of the counters: accepted_total_ is
\* the size of accepted_, and every retained rejection was counted once, as
\* stale or as duplicate.
CountersConserve ==
  /\ accepted_total = Cardinality(DOMAIN accepted) % U32
  /\ (stale_total + duplicate_total) % U32 = Len(stale) % U32

\* The history variable lists the accepted observations, each once.
LogExact ==
  /\ \A i \in 1..Len(log) : /\ log[i].obs.id \in DOMAIN accepted
                            /\ accepted[log[i].obs.id] = log[i].obs
  /\ \A i, j \in 1..Len(log) : log[i].obs.id = log[j].obs.id => i = j

\* Whatever a key's current authority accepted carries its boot and
\* generations and lies at or below its last_seq; what earlier authorities of
\* the key accepted has a smaller session number.
AuthorityCovers ==
  \A i \in 1..Len(log) :
    LET o == log[i].obs IN
    /\ o.key \in DOMAIN registry
    /\ log[i].session <= registry[o.key].restart_count
    /\ log[i].session = registry[o.key].restart_count =>
         /\ o.boot = registry[o.key].boot
         /\ o.src_gen = registry[o.key].src_gen
         /\ o.obs_gen = registry[o.key].obs_gen
         /\ o.seq <= registry[o.key].last_seq

\* Within the life of one authority the accepted sequence numbers strictly
\* increase, whatever order threads, retries and replays deliver them in.
\* The code exempts sequence number 0, which may be accepted repeatedly (under
\* different ids) until the first non-zero one.
SessionOrder ==
  \A i, j \in 1..Len(log) :
    /\ i < j
    /\ log[i].obs.key = log[j].obs.key
    /\ log[i].session = log[j].session
    => \/ log[i].obs.seq < log[j].obs.seq
       \/ log[i].obs.seq = 0 /\ log[j].obs.seq = 0

\* s is t, or t cut short.
Extends(t, s) ==
  Len(s) <= Len(t) /\ \A i \in 1..Len(s) : t[i] = s[i]

\* Short of a reset no step loses or rewrites evidence: an accepted
\* observation stays as it was accepted, and the per-request lists and the
\* stale history only grow at their end (ARCHITECTURE.md: "A later outcome
\* never rewrites an earlier observation or decision").
KeepsEvidence ==
  /\ \A id \in DOMAIN accepted : id \in DOMAIN accepted' /\ accepted'[id] = accepted[id]
  /\ \A r \in DOMAIN by_request :
       r \in DOMAIN by_request' /\ Extends(by_request'[r], by_request[r])
  /\ Extends(stale', stale)

\* A rejected or duplicate observation is retained as history and leaves the
\* current state alone: authority, accepted evidence and index
\* (coordinator.hpp: "retains rejected/stale evidence as historical without
\* mutating current state").
RejectionIsolated ==
  Len(stale') > Len(stale) =>
    UNCHANGED <<epoch, registry, accepted, by_request, accepted_total>>

\* Evidence once accepted is lost or rewritten by a reset only, and evidence
\* that is refused changes nothing but the history it is retained in.
EvidencePreserved == [][(KeepsEvidence \/ Reset) /\ RejectionIsolated]_vars

\* While a key keeps its authority (restart_count unchanged, no reset) that
\* authority keeps its boot and generations and its last_seq never falls, so a
\* repeated HELLO cannot reopen sequence numbers that were used.
SessionMonotone ==
  [][\A k \in DOMAIN registry \cap DOMAIN registry' :
       registry'[k].restart_count = registry[k].restart_count =>
         /\ registry'[k].boot = registry[k].boot
         /\ registry'[k].src_gen = registry[k].src_gen
         /\ registry'[k].obs_gen = registry[k].obs_gen
         /\ registry'[k].last_seq >= registry[k].last_seq]_vars

Sessions ==
  [k \in DOMAIN registry |->
     [number  |-> registry[k].restart_count, boot    |-> registry[k].boot,
      src_gen |-> registry[k].src_gen,       obs_gen |-> registry[k].obs_gen,
      epoch   |-> registry[k].epoch]]

Store == INSTANCE EvidenceStore WITH session <- Sessions, refused <- stale

\* One number per key decides what the whole history of a session would: no
\* evidence is refused without a fault, every reason in stale_ is true of the
\* evidence it stands by, nothing faulty is accepted, and a HELLO that repeats
\* the envelope of the current session cannot open another one.
ImplementsStore == Store!StoreSpec
=============================================================================
