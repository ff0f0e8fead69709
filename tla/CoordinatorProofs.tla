-------------------------- MODULE CoordinatorProofs --------------------------
(***************************************************************************)
(* Proofs about the Coordinator module, for every set of payloads, every   *)
(* counter width and every bound.                                          *)
(***************************************************************************)
EXTENDS Coordinator, FiniteSetTheorems, TLAPS

-----------------------------------------------------------------------------
(* Arithmetic of the u32 counters *)

\* Division with remainder, for a dividend in Nat and a positive divisor.
LEMMA DivMod ==
  ASSUME NEW n \in Nat, NEW m \in Nat, m > 0
  PROVE  /\ n = m * (n \div m) + (n % m)
         /\ n % m \in 0..(m - 1)
         /\ n \div m \in Int
OBVIOUS

\* The remainder is the only number below the divisor that is congruent.
LEMMA ModUnique ==
  ASSUME NEW m \in Nat, m > 0, NEW q \in Int, NEW r \in 0..(m - 1)
  PROVE  (m * q + r) % m = r
OBVIOUS

\* Reducing a summand first does not change the residue of a sum.
LEMMA ModAdd ==
  ASSUME NEW a \in Nat, NEW b \in Nat, NEW m \in Nat, m > 0
  PROVE  ((a % m) + b) % m = (a + b) % m
<1> DEFINE q == a \div m
<1> DEFINE c == (a % m) + b
<1> DEFINE p == c \div m
<1> DEFINE r == c % m
<1>1. a = m * q + (a % m) /\ a % m \in Nat /\ q \in Int BY DivMod
<1>2. c = m * p + r /\ r \in 0..(m - 1) /\ p \in Int BY <1>1, DivMod
<1>3. a + b = m * q + c BY <1>1
<1> HIDE DEF q, c, p, r
<1>4. a + b = m * (q + p) + r BY <1>1, <1>2, <1>3
<1>5. (m * (q + p) + r) % m = r BY ModUnique, <1>1, <1>2
<1> QED BY <1>4, <1>5 DEF r, c

\* The same of the counters' modulus.
LEMMA CounterAdd ==
  ASSUME NEW a \in Nat, NEW b \in Nat
  PROVE  ((a % U32) + b) % U32 = (a + b) % U32
<1>1. U32 \in Nat /\ U32 > 0 BY U32Assumption
<1> QED BY <1>1, ModAdd

\* A counter stays below its modulus.
LEMMA IncrementType ==
  ASSUME NEW n \in Nat
  PROVE  Increment(n) \in 0..(U32 - 1)
BY U32Assumption, DivMod DEF Increment

\* Counting on from a residue is counting on from the number.
LEMMA IncrementMod ==
  ASSUME NEW n \in Nat
  PROVE  Increment(n % U32) = (n + 1) % U32
<1>1. U32 \in Nat /\ U32 > 0 BY U32Assumption
<1>2. ((n % U32) + 1) % U32 = (n + 1) % U32 BY <1>1, CounterAdd
<1> QED BY <1>2 DEF Increment

\* Incrementing one of two counters increments the residue of their sum.
LEMMA IncrementSum ==
  ASSUME NEW a \in Nat, NEW b \in Nat, NEW n \in Nat,
         (a + b) % U32 = n % U32
  PROVE  /\ (Increment(a) + b) % U32 = (n + 1) % U32
         /\ (b + Increment(a)) % U32 = (n + 1) % U32
<1> USE U32Assumption
<1>0. U32 \in Nat /\ U32 > 0 OBVIOUS
<1> DEFINE x == a + 1
<1> DEFINE y == a + b
<1>x. x \in Nat /\ y \in Nat OBVIOUS
<1> HIDE DEF x, y
<1>1. ((x % U32) + b) % U32 = (x + b) % U32 BY <1>x, CounterAdd
<1>2. Increment(y % U32) = (y + 1) % U32 BY <1>x, IncrementMod
<1>3. Increment(n % U32) = (n + 1) % U32 BY IncrementMod
<1>4. x + b = y + 1 BY DEF x, y
<1>5. Increment(a) = x % U32 BY DEF x, Increment
<1>6. y % U32 = n % U32 BY DEF y
<1>7. (Increment(a) + b) % U32 = (n + 1) % U32
  BY <1>1, <1>2, <1>3, <1>4, <1>5, <1>6
<1>8. Increment(a) \in Nat BY IncrementType
<1>9. Increment(a) + b = b + Increment(a) BY <1>8
<1> QED BY <1>7, <1>9

-----------------------------------------------------------------------------
(* The registry *)

RegistryOK(reg) ==
  /\ DOMAIN reg \subseteq Keys
  /\ reg \in [DOMAIN reg -> SourceAuthority]

\* An authority either is replaced by one with a higher number, or keeps its
\* boot and generations and does not fall back in the sequence.
Rolls(old, new) ==
  /\ DOMAIN old \subseteq DOMAIN new
  /\ \A k \in DOMAIN old :
       \/ new[k].restart_count > old[k].restart_count
       \/ /\ new[k].restart_count = old[k].restart_count
          /\ new[k].boot = old[k].boot
          /\ new[k].src_gen = old[k].src_gen
          /\ new[k].obs_gen = old[k].obs_gen
          /\ new[k].last_seq >= old[k].last_seq

\* Insertion into the registry changes one key only.
LEMMA RegistryPut ==
  ASSUME NEW reg, RegistryOK(reg), NEW k \in Keys, NEW a \in SourceAuthority,
         k \in DOMAIN reg =>
           \/ a.restart_count > reg[k].restart_count
           \/ /\ a.restart_count = reg[k].restart_count
              /\ a.boot = reg[k].boot
              /\ a.src_gen = reg[k].src_gen
              /\ a.obs_gen = reg[k].obs_gen
              /\ a.last_seq >= reg[k].last_seq
  PROVE  RegistryOK(Put(reg, k, a)) /\ Rolls(reg, Put(reg, k, a))
<1>1. /\ DOMAIN Put(reg, k, a) = DOMAIN reg \cup {k}
      /\ Put(reg, k, a) \in [DOMAIN reg \cup {k} -> SourceAuthority]
      /\ Put(reg, k, a)[k] = a
      /\ \A x \in DOMAIN reg : x # k => Put(reg, k, a)[x] = reg[x]
  BY DEF Put, RegistryOK
<1>2. RegistryOK(Put(reg, k, a)) BY <1>1 DEF RegistryOK
<1>3. Rolls(reg, Put(reg, k, a))
  BY <1>1 DEF Rolls, RegistryOK, SourceAuthority
<1> QED BY <1>2, <1>3

\* register_source either keeps the authority of its key or starts the next
\* session.
LEMMA RegisterSourceRolls ==
  ASSUME NEW reg, RegistryOK(reg), NEW h \in HelloPayload
  PROVE  /\ RegistryOK(RegisterSource(reg, h))
         /\ Rolls(reg, RegisterSource(reg, h))
<1> DEFINE a == IF SameBoot(reg, h) THEN [reg[h.key] EXCEPT !.epoch = h.epoch]
                ELSE FreshAuthority(reg, h)
<1>1. h.key \in Keys BY DEF HelloPayload
<1>2. a \in SourceAuthority
  BY DEF RegistryOK, SourceAuthority, HelloPayload, SameBoot, FreshAuthority,
         RestartCount, Optional, SourceHealth
<1>3. RegisterSource(reg, h) = Put(reg, h.key, a) BY DEF RegisterSource
<1>4. h.key \in DOMAIN reg =>
        \/ a.restart_count > reg[h.key].restart_count
        \/ /\ a.restart_count = reg[h.key].restart_count
           /\ a.boot = reg[h.key].boot
           /\ a.src_gen = reg[h.key].src_gen
           /\ a.obs_gen = reg[h.key].obs_gen
           /\ a.last_seq >= reg[h.key].last_seq
  BY DEF RegistryOK, SourceAuthority, FreshAuthority, RestartCount
<1> HIDE DEF a
<1> QED BY <1>1, <1>2, <1>3, <1>4, RegistryPut

\* mark_restart starts the next session of its key.
LEMMA MarkRestartRolls ==
  ASSUME NEW reg, RegistryOK(reg), NEW k \in Keys, NEW b \in Boots, NEW e \in Nat
  PROVE  /\ RegistryOK(MarkRestart(reg, k, b, e))
         /\ Rolls(reg, MarkRestart(reg, k, b, e))
<1> DEFINE a ==
      [epoch |-> e,
       src_gen |-> IF k \in DOMAIN reg THEN reg[k].src_gen + 1 ELSE 1,
       obs_gen |-> IF k \in DOMAIN reg THEN reg[k].obs_gen + 1 ELSE 1,
       boot |-> b, last_seq |-> 0, last_obs_ts |-> None,
       health |-> "RESTARTING", restart_count |-> RestartCount(reg, k)]
<1>1. a \in SourceAuthority
  BY DEF RegistryOK, SourceAuthority, RestartCount, Optional, SourceHealth
<1>2. MarkRestart(reg, k, b, e) = Put(reg, k, a) BY DEF MarkRestart
<1>3. k \in DOMAIN reg => a.restart_count > reg[k].restart_count
  BY DEF RegistryOK, SourceAuthority, RestartCount
<1> HIDE DEF a
<1> QED BY <1>1, <1>2, <1>3, RegistryPut

\* What validate does on acceptance keeps the session and does not lower
\* last_seq.
LEMMA AdvanceRolls ==
  ASSUME NEW reg, RegistryOK(reg), NEW o \in Observation, o.key \in DOMAIN reg
  PROVE  /\ RegistryOK(Advance(reg, o))
         /\ Rolls(reg, Advance(reg, o))
         /\ DOMAIN Advance(reg, o) = DOMAIN reg
         /\ Advance(reg, o)[o.key].restart_count = reg[o.key].restart_count
         /\ Advance(reg, o)[o.key].boot = reg[o.key].boot
         /\ Advance(reg, o)[o.key].src_gen = reg[o.key].src_gen
         /\ Advance(reg, o)[o.key].obs_gen = reg[o.key].obs_gen
         /\ Advance(reg, o)[o.key].last_seq >= o.seq
<1> DEFINE a == [reg[o.key] EXCEPT
                   !.last_seq    = IF o.seq > @ THEN o.seq ELSE @,
                   !.last_obs_ts = OrKeep(o.obs_ts, @),
                   !.health      = OrKeep(o.health, @)]
<1>1. o.key \in Keys BY DEF Observation
<1>2. reg[o.key] \in SourceAuthority BY DEF RegistryOK
<1>3. /\ OrKeep(o.obs_ts, reg[o.key].last_obs_ts) \in Optional(Timestamps)
      /\ OrKeep(o.health, reg[o.key].health) \in SourceHealth
  BY <1>2 DEF SourceAuthority, Observation, OrKeep, Optional
<1> DEFINE s == IF o.seq > reg[o.key].last_seq THEN o.seq ELSE reg[o.key].last_seq
<1>4. s \in Nat /\ s >= o.seq /\ s >= reg[o.key].last_seq
  BY <1>2 DEF SourceAuthority, Observation
<1>5. a = [reg[o.key] EXCEPT !.last_seq = s,
                              !.last_obs_ts = OrKeep(o.obs_ts, reg[o.key].last_obs_ts),
                              !.health = OrKeep(o.health, reg[o.key].health)]
  BY <1>2 DEF SourceAuthority
<1> HIDE DEF a, s
<1>6. /\ a \in SourceAuthority
      /\ a.restart_count = reg[o.key].restart_count
      /\ a.boot = reg[o.key].boot
      /\ a.src_gen = reg[o.key].src_gen
      /\ a.obs_gen = reg[o.key].obs_gen
      /\ a.last_seq = s
  BY <1>2, <1>3, <1>4, <1>5 DEF SourceAuthority
<1>7. Advance(reg, o) = Put(reg, o.key, a) BY DEF Advance, a
<1>8. Put(reg, o.key, a)[o.key] = a /\ DOMAIN Put(reg, o.key, a) = DOMAIN reg
  BY DEF Put
<1> QED BY <1>1, <1>4, <1>6, <1>7, <1>8, RegistryPut

\* What acceptance guarantees: a registered key, its boot and generations,
\* and a sequence number beyond last_seq (or zero before any other).
LEMMA AcceptedDecision ==
  ASSUME NEW reg, RegistryOK(reg), NEW o \in Observation,
         Decision(reg, o) = "ACCEPTED"
  PROVE  /\ o.key \in DOMAIN reg
         /\ o.boot = reg[o.key].boot
         /\ o.src_gen = reg[o.key].src_gen
         /\ o.obs_gen = reg[o.key].obs_gen
         /\ o.seq > reg[o.key].last_seq \/ (o.seq = 0 /\ reg[o.key].last_seq = 0)
BY DEF Decision, SequenceDecision, RegistryOK, SourceAuthority, Observation

\* A decision other than acceptance is a reason the history can record.
LEMMA DecisionType ==
  ASSUME NEW reg, NEW o
  PROVE  Decision(reg, o) \in AuthorityDecision
BY DEF Decision, SequenceDecision, AuthorityDecision

\* What AuthorityCovers says of one entry of the log.
Covered(reg, e) ==
  /\ e.obs.key \in DOMAIN reg
  /\ e.session <= reg[e.obs.key].restart_count
  /\ e.session = reg[e.obs.key].restart_count =>
       /\ e.obs.boot = reg[e.obs.key].boot
       /\ e.obs.src_gen = reg[e.obs.key].src_gen
       /\ e.obs.obs_gen = reg[e.obs.key].obs_gen
       /\ e.obs.seq <= reg[e.obs.key].last_seq

\* An authority that rolls forward still covers what it covered.
LEMMA CoveredRolls ==
  ASSUME NEW reg, RegistryOK(reg), NEW new, RegistryOK(new), Rolls(reg, new),
         NEW e \in LogEntry, Covered(reg, e)
  PROVE  Covered(new, e)
<1> DEFINE k == e.obs.key
<1>1. k \in DOMAIN reg /\ k \in DOMAIN new BY DEF Covered, Rolls
<1>2. reg[k] \in SourceAuthority /\ new[k] \in SourceAuthority BY <1>1 DEF RegistryOK
<1>3. /\ reg[k].restart_count \in Nat /\ new[k].restart_count \in Nat
      /\ reg[k].last_seq \in Nat /\ new[k].last_seq \in Nat
  BY <1>2 DEF SourceAuthority
<1>4. e.session \in Nat /\ e.obs.seq \in Nat BY DEF LogEntry, Observation
<1> QED BY <1>1, <1>3, <1>4 DEF Covered, Rolls

-----------------------------------------------------------------------------
(* The inductive invariant.  IndexExact, CountersConserve and SessionOrder *)
(* are the promises; LogExact and AuthorityCovers are what makes them      *)
(* inductive: a new entry of the log has a fresh id, and its sequence      *)
(* number is compared with last_seq, which bounds the entries of the       *)
(* current session.                                                        *)

Inv ==
  /\ TypeOK
  /\ IndexExact
  /\ CountersConserve
  /\ LogExact
  /\ AuthorityCovers
  /\ SessionOrder

\* The state a coordinator starts from, and the state reset leaves.
Cleared ==
  /\ registry = EmptyMap
  /\ accepted = EmptyMap
  /\ by_request = EmptyMap
  /\ stale = <<>>
  /\ accepted_total = 0 /\ stale_total = 0 /\ duplicate_total = 0
  /\ log = <<>>

\* A coordinator without evidence satisfies the invariant.
LEMMA ClearedInv ==
  (epoch \in Nat /\ Cleared) => Inv
<1> SUFFICES ASSUME epoch \in Nat, Cleared PROVE Inv OBVIOUS
<1> USE DEF Cleared, EmptyMap
<1>0. U32 \in Nat /\ U32 > 0 /\ 0 % U32 = 0 BY U32Assumption
<1>1. TypeOK
  <2>1. IsFiniteSet(DOMAIN accepted) BY FS_EmptySet
  <2> QED BY <2>1, <1>0 DEF TypeOK
<1>2. IndexExact BY DEF IndexExact, IndexSound, IndexUnique, IndexComplete
<1>3. CountersConserve
  <2>1. DOMAIN accepted = {} OBVIOUS
  <2>2. Cardinality(DOMAIN accepted) = 0 BY <2>1, FS_EmptySet
  <2> QED BY <2>2, <1>0 DEF CountersConserve
<1>4. LogExact /\ AuthorityCovers /\ SessionOrder
  BY DEF LogExact, AuthorityCovers, SessionOrder
<1> QED BY <1>1, <1>2, <1>3, <1>4 DEF Inv

\* A step that only touches the registry (and the epoch) may roll authorities
\* forward.
LEMMA RegistryStep ==
  ASSUME Inv, epoch' \in Nat, RegistryOK(registry'), Rolls(registry, registry'),
         UNCHANGED evidence
  PROVE  Inv'
<1> USE DEF evidence
<1>1. TypeOK' BY DEF Inv, TypeOK, RegistryOK
<1>2. IndexExact'
  BY DEF Inv, IndexExact, IndexSound, IndexUnique, IndexComplete
<1>3. CountersConserve' BY DEF Inv, CountersConserve
<1>4. LogExact' /\ SessionOrder' BY DEF Inv, LogExact, SessionOrder
<1>5. AuthorityCovers'
  <2>1. \A i \in 1..Len(log) : log[i] \in LogEntry /\ Covered(registry, log[i])
    BY DEF Inv, TypeOK, AuthorityCovers, Covered
  <2>2. RegistryOK(registry) BY DEF Inv, TypeOK, RegistryOK
  <2>3. \A i \in 1..Len(log) : Covered(registry', log[i])
    BY <2>1, <2>2, CoveredRolls
  <2> QED BY <2>3 DEF AuthorityCovers, Covered
<1> QED BY <1>1, <1>2, <1>3, <1>4, <1>5 DEF Inv

\* A step that retains a rejected observation.
LEMMA RetainStep ==
  ASSUME Inv, NEW o \in Observation, NEW reason \in Reasons, Retain(o, reason),
         \/ /\ duplicate_total' = Increment(duplicate_total)
            /\ UNCHANGED stale_total
         \/ /\ stale_total' = Increment(stale_total)
            /\ UNCHANGED duplicate_total,
         UNCHANGED <<epoch, registry, accepted, by_request, accepted_total, log>>
  PROVE  Inv'
<1>0. U32 \in Nat /\ U32 > 0 BY U32Assumption
<1>1. /\ stale \in Seq(StaleEvidence)
      /\ stale_total \in 0..(U32 - 1) /\ duplicate_total \in 0..(U32 - 1)
      /\ stale_total \in Nat /\ duplicate_total \in Nat
  BY <1>0 DEF Inv, TypeOK
<1>2. stale' \in Seq(StaleEvidence) /\ Len(stale') = Len(stale) + 1
  BY <1>1 DEF Retain, StaleEvidence
<1>3. TypeOK'
  <2>1. stale_total' \in 0..(U32 - 1) /\ duplicate_total' \in 0..(U32 - 1)
    BY <1>1, IncrementType
  <2> QED BY <1>2, <2>1 DEF Inv, TypeOK
<1>4. IndexExact'
  BY DEF Inv, IndexExact, IndexSound, IndexUnique, IndexComplete
<1>5. CountersConserve'
  <2>1. (stale_total + duplicate_total) % U32 = Len(stale) % U32
    BY DEF Inv, CountersConserve
  <2>2. Len(stale) \in Nat BY <1>1
  <2>3. (duplicate_total + stale_total) % U32 = Len(stale) % U32
    BY <2>1, <1>1
  <2>4. /\ (Increment(stale_total) + duplicate_total) % U32 = (Len(stale) + 1) % U32
        /\ (stale_total + Increment(duplicate_total)) % U32 = (Len(stale) + 1) % U32
    BY <1>1, <2>1, <2>2, <2>3, IncrementSum
  <2>5. (stale_total' + duplicate_total') % U32 = Len(stale') % U32
    BY <1>2, <2>4
  <2> QED BY <2>5 DEF Inv, CountersConserve
<1>6. LogExact' /\ AuthorityCovers' /\ SessionOrder'
  BY DEF Inv, LogExact, AuthorityCovers, SessionOrder
<1> QED BY <1>3, <1>4, <1>5, <1>6 DEF Inv

\* Appending keeps the old entries in place and puts the new one last.
LEMMA AppendFacts ==
  ASSUME NEW T, NEW s \in Seq(T), NEW e \in T
  PROVE  /\ Append(s, e) \in Seq(T)
         /\ Len(Append(s, e)) = Len(s) + 1
         /\ \A i \in 1..Len(s) : Append(s, e)[i] = s[i]
         /\ Append(s, e)[Len(s) + 1] = e
         /\ Len(s) \in Nat
OBVIOUS

\* Indexing an observation: the list of its request grows by one entry at its
\* end, every other list stays.
LEMMA IndexFacts ==
  ASSUME NEW idx, DOMAIN idx \subseteq Requests,
         idx \in [DOMAIN idx -> Seq(Observation)],
         NEW o \in Observation
  PROVE  /\ DOMAIN Index(idx, o) \subseteq Requests
         /\ Index(idx, o) \in [DOMAIN Index(idx, o) -> Seq(Observation)]
         /\ o.request = None => Index(idx, o) = idx
         /\ o.request # None =>
              /\ DOMAIN Index(idx, o) = DOMAIN idx \cup {o.request}
              /\ \A r \in DOMAIN idx : r # o.request => Index(idx, o)[r] = idx[r]
              /\ LET old == IF o.request \in DOMAIN idx THEN idx[o.request] ELSE <<>>
                 IN  /\ old \in Seq(Observation)
                     /\ Index(idx, o)[o.request] = Append(old, o)
<1>1. CASE o.request = None BY <1>1 DEF Index
<1>2. CASE o.request # None
  <2> DEFINE old == IF o.request \in DOMAIN idx THEN idx[o.request] ELSE <<>>
  <2>1. o.request \in Requests BY <1>2 DEF Observation, Optional
  <2>2. old \in Seq(Observation) OBVIOUS
  <2>3. Append(old, o) \in Seq(Observation) BY <2>2
  <2>4. Index(idx, o) = Put(idx, o.request, Append(old, o)) BY <1>2 DEF Index
  <2> HIDE DEF old
  <2>5. /\ DOMAIN Index(idx, o) = DOMAIN idx \cup {o.request}
        /\ Index(idx, o)[o.request] = Append(old, o)
        /\ \A r \in DOMAIN idx : r # o.request => Index(idx, o)[r] = idx[r]
        /\ Index(idx, o) \in [DOMAIN idx \cup {o.request} -> Seq(Observation)]
    BY <2>3, <2>4 DEF Put
  <2> QED BY <1>2, <2>1, <2>2, <2>5 DEF old
<1> QED BY <1>1, <1>2

\* The accepting exit of ingest preserves the invariant.
LEMMA AcceptStep ==
  ASSUME Inv, NEW o \in Observation, IngestAccepted(o)
  PROVE  Inv'
<1> DEFINE e == [obs |-> o, session |-> registry[o.key].restart_count]
<1>0. U32 \in Nat /\ U32 > 0 BY U32Assumption
<1>1. RegistryOK(registry) BY DEF Inv, TypeOK, RegistryOK
<1>2. /\ o.key \in DOMAIN registry
      /\ o.boot = registry[o.key].boot
      /\ o.src_gen = registry[o.key].src_gen
      /\ o.obs_gen = registry[o.key].obs_gen
      /\ o.seq > registry[o.key].last_seq \/ (o.seq = 0 /\ registry[o.key].last_seq = 0)
  BY <1>1, AcceptedDecision DEF IngestAccepted
<1>3. /\ RegistryOK(registry')
      /\ Rolls(registry, registry')
      /\ DOMAIN registry' = DOMAIN registry
      /\ registry'[o.key].restart_count = registry[o.key].restart_count
      /\ registry'[o.key].boot = registry[o.key].boot
      /\ registry'[o.key].src_gen = registry[o.key].src_gen
      /\ registry'[o.key].obs_gen = registry[o.key].obs_gen
      /\ registry'[o.key].last_seq >= o.seq
  BY <1>1, <1>2, AdvanceRolls DEF IngestAccepted
<1>4. registry[o.key] \in SourceAuthority /\ registry'[o.key] \in SourceAuthority
  BY <1>1, <1>2, <1>3 DEF RegistryOK
<1>5. e \in LogEntry BY <1>4 DEF LogEntry, SourceAuthority
<1>6. log \in Seq(LogEntry) /\ log' = Append(log, e)
  BY DEF Inv, TypeOK, IngestAccepted
<1> HIDE DEF e
<1>7. /\ log' \in Seq(LogEntry)
      /\ Len(log') = Len(log) + 1
      /\ \A i \in 1..Len(log) : log'[i] = log[i]
      /\ log'[Len(log) + 1] = e
      /\ Len(log) \in Nat
  BY <1>5, <1>6, AppendFacts
<1>8. /\ o.id \in ObsIds /\ o.id \notin DOMAIN accepted
      /\ DOMAIN accepted' = DOMAIN accepted \cup {o.id}
      /\ accepted'[o.id] = o
      /\ \A id \in DOMAIN accepted : accepted'[id] = accepted[id]
      /\ accepted' \in [DOMAIN accepted' -> Observation]
  BY DEF Inv, TypeOK, IngestAccepted, Put, Observation
<1>9. e.obs = o /\ e.session = registry[o.key].restart_count BY DEF e
<1>10. /\ DOMAIN by_request \subseteq Requests
       /\ by_request \in [DOMAIN by_request -> Seq(Observation)]
       /\ by_request' = Index(by_request, o)
  BY DEF Inv, TypeOK, IngestAccepted
<1>11. TypeOK'
  <2>1. IsFiniteSet(DOMAIN accepted') BY <1>8, FS_AddElement DEF Inv, TypeOK
  <2>2. accepted_total' \in 0..(U32 - 1)
    BY <1>0, IncrementType DEF Inv, TypeOK, IngestAccepted
  <2>3. /\ DOMAIN by_request' \subseteq Requests
        /\ by_request' \in [DOMAIN by_request' -> Seq(Observation)]
    BY <1>10, IndexFacts
  <2>4. UNCHANGED <<epoch, stale, stale_total, duplicate_total>>
    BY DEF IngestAccepted
  <2> QED BY <1>3, <1>7, <1>8, <2>1, <2>2, <2>3, <2>4 DEF Inv, TypeOK, RegistryOK
<1>12. CountersConserve'
  <2>1. Cardinality(DOMAIN accepted') = Cardinality(DOMAIN accepted) + 1
    BY <1>8, FS_AddElement DEF Inv, TypeOK
  <2>2. Cardinality(DOMAIN accepted) \in Nat BY FS_CardinalityType DEF Inv, TypeOK
  <2>3. accepted_total' = Increment(Cardinality(DOMAIN accepted) % U32)
    BY DEF Inv, CountersConserve, IngestAccepted
  <2>4. accepted_total' = Cardinality(DOMAIN accepted') % U32
    BY <2>1, <2>2, <2>3, IncrementMod
  <2>5. UNCHANGED <<stale, stale_total, duplicate_total>> BY DEF IngestAccepted
  <2> QED BY <2>4, <2>5 DEF Inv, CountersConserve
<1>13. LogExact'
  <2>1. /\ \A i \in 1..Len(log) : /\ log[i].obs.id \in DOMAIN accepted
                                  /\ accepted[log[i].obs.id] = log[i].obs
        /\ \A i, j \in 1..Len(log) : log[i].obs.id = log[j].obs.id => i = j
    BY DEF Inv, LogExact
  <2>2. \A i \in 1..Len(log') : i \in 1..Len(log) \/ i = Len(log) + 1 BY <1>7
  <2>3. ASSUME NEW i \in 1..Len(log')
        PROVE  log'[i].obs.id \in DOMAIN accepted' /\ accepted'[log'[i].obs.id] = log'[i].obs
    BY <1>7, <1>8, <1>9, <2>1, <2>2
  <2>4. ASSUME NEW i \in 1..Len(log'), NEW j \in 1..Len(log'),
               log'[i].obs.id = log'[j].obs.id
        PROVE  i = j
    BY <1>7, <1>8, <1>9, <2>1, <2>2, <2>4
  <2> QED BY <2>3, <2>4 DEF LogExact
<1>14. AuthorityCovers'
  <2>1. \A i \in 1..Len(log) : log[i] \in LogEntry /\ Covered(registry, log[i])
    BY <1>6 DEF Inv, AuthorityCovers, Covered
  <2>2. \A i \in 1..Len(log) : Covered(registry', log[i])
    BY <2>1, <1>1, <1>3, CoveredRolls
  <2>3. Covered(registry', e)
    BY <1>2, <1>3, <1>4, <1>9 DEF Covered, SourceAuthority, Observation
  <2>4. \A i \in 1..Len(log') : Covered(registry', log'[i])
    BY <2>2, <2>3, <1>7
  <2> QED BY <2>4 DEF AuthorityCovers, Covered
<1>15. SessionOrder'
  <2> SUFFICES ASSUME NEW i \in 1..Len(log'), NEW j \in 1..Len(log'), i < j,
                      log'[i].obs.key = log'[j].obs.key,
                      log'[i].session = log'[j].session
               PROVE  \/ log'[i].obs.seq < log'[j].obs.seq
                      \/ log'[i].obs.seq = 0 /\ log'[j].obs.seq = 0
    BY DEF SessionOrder
  <2>1. i \in 1..Len(log) /\ log'[i] = log[i] BY <1>7
  <2>2. CASE j \in 1..Len(log)
    BY <2>1, <2>2, <1>7 DEF Inv, SessionOrder
  <2>3. CASE j = Len(log) + 1
    <3>1. log'[j].obs = o /\ log'[j].session = registry[o.key].restart_count
      BY <2>3, <1>7, <1>9
    <3>2. log[i].obs.key = o.key /\ log[i].session = registry[o.key].restart_count
      BY <2>1, <3>1
    <3>3. log[i].obs.seq <= registry[o.key].last_seq
      BY <2>1, <3>2 DEF Inv, AuthorityCovers
    <3>4. log[i] \in LogEntry BY <2>1, <1>6
    <3>5. log[i].obs.seq \in Nat BY <3>4 DEF LogEntry, Observation
    <3>6. registry[o.key].last_seq \in Nat BY <1>1, <1>2 DEF RegistryOK, SourceAuthority
    <3>7. o.seq \in Nat BY DEF Observation
    <3>8. \/ registry[o.key].last_seq < o.seq
          \/ registry[o.key].last_seq = 0 /\ o.seq = 0
      BY <1>2, <3>6, <3>7
    <3>9. \/ log[i].obs.seq < o.seq
          \/ log[i].obs.seq = 0 /\ o.seq = 0
      BY <3>3, <3>5, <3>6, <3>7, <3>8
    <3> QED BY <2>1, <3>1, <3>9
  <2> QED BY <2>2, <2>3, <1>7
<1>16. IndexExact'
  <2>1. CASE o.request = None
    <3>1. by_request' = by_request BY <2>1, <1>10, IndexFacts
    <3>2. IndexSound' BY <3>1, <1>8 DEF Inv, IndexExact, IndexSound
    <3>3. IndexUnique' BY <3>1 DEF Inv, IndexExact, IndexUnique
    <3>4. IndexComplete'
      BY <2>1, <3>1, <1>8 DEF Inv, IndexExact, IndexComplete
    <3> QED BY <3>2, <3>3, <3>4 DEF IndexExact
  <2>2. CASE o.request # None
    <3> DEFINE r == o.request
    <3> DEFINE old == IF r \in DOMAIN by_request THEN by_request[r] ELSE <<>>
    <3>1. /\ DOMAIN by_request' = DOMAIN by_request \cup {r}
          /\ \A x \in DOMAIN by_request : x # r => by_request'[x] = by_request[x]
          /\ old \in Seq(Observation)
          /\ by_request'[r] = Append(old, o)
      BY <2>2, <1>10, IndexFacts
    <3>2. /\ Len(by_request'[r]) = Len(old) + 1
          /\ \A i \in 1..Len(old) : by_request'[r][i] = old[i]
          /\ by_request'[r][Len(old) + 1] = o
          /\ Len(old) \in Nat
      BY <3>1, AppendFacts
    <3>3. \A i \in 1..Len(old) :
            /\ r \in DOMAIN by_request /\ i \in 1..Len(by_request[r])
            /\ old[i] = by_request[r][i]
      OBVIOUS
    <3>3a. r \in DOMAIN by_request => by_request[r] = old OBVIOUS
    <3> HIDE DEF old
    <3>4. IndexSound'
      <4> SUFFICES ASSUME NEW x \in DOMAIN by_request', NEW i \in 1..Len(by_request'[x])
                   PROVE  /\ by_request'[x][i].request = x
                          /\ by_request'[x][i].id \in DOMAIN accepted'
                          /\ accepted'[by_request'[x][i].id] = by_request'[x][i]
        BY DEF IndexSound
      <4>1. CASE x # r BY <4>1, <3>1, <1>8 DEF Inv, IndexExact, IndexSound
      <4>2. CASE x = r /\ i \in 1..Len(old)
        BY <4>2, <3>2, <3>3, <1>8 DEF Inv, IndexExact, IndexSound
      <4>3. CASE x = r /\ i = Len(old) + 1 BY <4>3, <3>2, <1>8
      <4> QED BY <4>1, <4>2, <4>3, <3>2
    <3>5. IndexUnique'
      <4> SUFFICES ASSUME NEW x \in DOMAIN by_request',
                          NEW i \in 1..Len(by_request'[x]),
                          NEW j \in 1..Len(by_request'[x]),
                          by_request'[x][i].id = by_request'[x][j].id
                   PROVE  i = j
        BY DEF IndexUnique
      <4>1. CASE x # r BY <4>1, <3>1 DEF Inv, IndexExact, IndexUnique
      <4>2. CASE x = r
        <5>1. \A m \in 1..Len(old) : old[m].id # o.id
          BY <3>3, <1>8 DEF Inv, IndexExact, IndexSound
        <5>2. \A m, n \in 1..Len(old) : old[m].id = old[n].id => m = n
          BY <3>3 DEF Inv, IndexExact, IndexUnique
        <5> QED BY <4>2, <5>1, <5>2, <3>2
      <4> QED BY <4>1, <4>2
    <3>6. IndexComplete'
      <4> SUFFICES ASSUME NEW id \in DOMAIN accepted', accepted'[id].request # None
                   PROVE  LET p == accepted'[id] IN
                          /\ p.request \in DOMAIN by_request'
                          /\ \E i \in 1..Len(by_request'[p.request]) :
                               by_request'[p.request][i] = p
        BY DEF IndexComplete
      <4>1. CASE id = o.id
        <5>1. Len(old) + 1 \in 1..Len(by_request'[r]) BY <3>2
        <5> QED BY <4>1, <5>1, <3>1, <3>2, <1>8
      <4>2. CASE id \in DOMAIN accepted
        <5> DEFINE p == accepted[id]
        <5>1. accepted'[id] = p BY <4>2, <1>8
        <5>2. p.request \in DOMAIN by_request BY <4>2, <5>1 DEF Inv, IndexExact, IndexComplete
        <5>3. PICK i \in 1..Len(by_request[p.request]) : by_request[p.request][i] = p
          BY <4>2, <5>1 DEF Inv, IndexExact, IndexComplete
        <5>4. CASE p.request # r BY <5>1, <5>2, <5>3, <5>4, <3>1
        <5>5. CASE p.request = r
          <6>1. i \in 1..Len(old) /\ old[i] = p BY <5>2, <5>3, <5>5, <3>3a
          <6>2. i \in 1..Len(by_request'[r]) /\ by_request'[r][i] = p
            BY <6>1, <3>2
          <6> QED BY <5>1, <5>5, <6>2, <3>1
        <5> QED BY <5>4, <5>5
      <4> QED BY <4>1, <4>2, <1>8
    <3> QED BY <3>4, <3>5, <3>6 DEF IndexExact
  <2> QED BY <2>1, <2>2
<1> QED BY <1>11, <1>12, <1>13, <1>14, <1>15, <1>16 DEF Inv

\* Every step preserves the invariant.
LEMMA NextInv ==
  ASSUME Inv, [Next]_vars
  PROVE  Inv'
<1>1. RegistryOK(registry) BY DEF Inv, TypeOK, RegistryOK
<1>2. epoch \in Nat BY DEF Inv, TypeOK
<1>3. ASSUME NEW e \in Epochs, SetEpoch(e) PROVE Inv'
  <2>1. epoch' \in Nat BY <1>3, PayloadAssumption DEF SetEpoch
  <2>2. registry' = registry /\ UNCHANGED evidence BY <1>3 DEF SetEpoch
  <2>3. Rolls(registry, registry) BY <1>1 DEF Rolls, RegistryOK, SourceAuthority
  <2> QED BY <1>1, <2>1, <2>2, <2>3, RegistryStep
<1>4. ASSUME NEW h \in Hellos, RegisterHello(h) PROVE Inv'
  <2>1. h \in HelloPayload BY PayloadAssumption
  <2>2. RegistryOK(registry') /\ Rolls(registry, registry')
    BY <1>1, <1>4, <2>1, RegisterSourceRolls DEF RegisterHello
  <2>3. epoch' = epoch /\ UNCHANGED evidence BY <1>4 DEF RegisterHello
  <2> QED BY <1>2, <2>2, <2>3, RegistryStep
<1>5. ASSUME NEW k \in Keys, NEW b \in Boots, NEW e \in Epochs, RollAuthority(k, b, e)
      PROVE  Inv'
  <2>1. e \in Nat BY PayloadAssumption
  <2>2. RegistryOK(registry') /\ Rolls(registry, registry')
    BY <1>1, <1>5, <2>1, MarkRestartRolls DEF RollAuthority
  <2>3. epoch' = epoch /\ UNCHANGED evidence BY <1>5 DEF RollAuthority
  <2> QED BY <1>2, <2>2, <2>3, RegistryStep
<1>6. ASSUME NEW o \in Observations, Ingest(o) PROVE Inv'
  <2>1. o \in Observation BY PayloadAssumption
  <2>2. CASE IngestDuplicate(o)
    <3>1. "DUPLICATE_ID" \in Reasons BY DEF Reasons
    <3> QED BY <2>1, <2>2, <3>1, RetainStep DEF IngestDuplicate
  <2>3. CASE IngestRejected(o)
    <3>1. Decision(registry, o) \in Reasons
      BY <2>3, DecisionType DEF Reasons, IngestRejected
    <3> QED BY <2>1, <2>3, <3>1, RetainStep DEF IngestRejected
  <2>4. CASE IngestAccepted(o) BY <2>1, <2>4, AcceptStep
  <2> QED BY <1>6, <2>2, <2>3, <2>4 DEF Ingest
<1>7. CASE Reset
  <2>1. (epoch \in Nat /\ Cleared)' BY <1>2, <1>7 DEF Reset, Cleared
  <2> QED BY <2>1, ClearedInv, PTL
<1>8. CASE UNCHANGED vars
  <2>1. epoch' = epoch /\ registry' = registry /\ UNCHANGED evidence
    BY <1>8 DEF vars, evidence
  <2>2. Rolls(registry, registry) BY <1>1 DEF Rolls, RegistryOK, SourceAuthority
  <2> QED BY <1>1, <1>2, <2>1, <2>2, RegistryStep
<1> QED BY <1>3, <1>4, <1>5, <1>6, <1>7, <1>8 DEF Next

\* The coordinator is type correct, its request index is exact, its counters
\* account for the evidence, and each authority accepts increasing sequence
\* numbers: in every reachable state, for any payloads in any order.
THEOREM CoordinatorInvariant == Spec => []Inv
<1>1. Init => Inv
  <2>1. Init => epoch \in Nat /\ Cleared BY DEF Init, Cleared
  <2> QED BY <2>1, ClearedInv
<1>2. Inv /\ [Next]_vars => Inv' BY NextInv
<1> QED BY <1>1, <1>2, PTL DEF Spec

\* Every member variable keeps its type.
THEOREM TypeCorrect == Spec => []TypeOK
<1>1. Inv => TypeOK BY DEF Inv
<1> QED BY <1>1, CoordinatorInvariant, PTL

\* by_request_ is exactly the accepted evidence grouped by request.
THEOREM IndexCorrect == Spec => []IndexExact
<1>1. Inv => IndexExact BY DEF Inv
<1> QED BY <1>1, CoordinatorInvariant, PTL

\* The u32 counters account for all retained evidence modulo their width.
THEOREM CountersCorrect == Spec => []CountersConserve
<1>1. Inv => CountersConserve BY DEF Inv
<1> QED BY <1>1, CoordinatorInvariant, PTL

\* Under one authority the accepted sequence numbers strictly increase.
THEOREM SessionOrderCorrect == Spec => []SessionOrder
<1>1. Inv => SessionOrder BY DEF Inv
<1> QED BY <1>1, CoordinatorInvariant, PTL

\* What the current authority of a key accepted carries its envelope and lies
\* at or below its last_seq; validate and register_source keep it so.
THEOREM AuthorityCoversCorrect == Spec => []AuthorityCovers
<1>1. Inv => AuthorityCovers BY DEF Inv
<1> QED BY <1>1, CoordinatorInvariant, PTL

-----------------------------------------------------------------------------
(* Action properties *)

\* The registry after a step that is not a reset has rolled forward.
LEMMA NextRolls ==
  ASSUME Inv, Next
  PROVE  Rolls(registry, registry') \/ Reset
<1>1. RegistryOK(registry) BY DEF Inv, TypeOK, RegistryOK
<1>2. Rolls(registry, registry) BY <1>1 DEF Rolls, RegistryOK, SourceAuthority
<1>3. ASSUME NEW e \in Epochs, SetEpoch(e) PROVE Rolls(registry, registry')
  BY <1>2, <1>3 DEF SetEpoch
<1>4. ASSUME NEW h \in Hellos, RegisterHello(h) PROVE Rolls(registry, registry')
  BY <1>1, <1>4, PayloadAssumption, RegisterSourceRolls DEF RegisterHello
<1>5. ASSUME NEW k \in Keys, NEW b \in Boots, NEW e \in Epochs, RollAuthority(k, b, e)
      PROVE  Rolls(registry, registry')
  BY <1>1, <1>5, PayloadAssumption, MarkRestartRolls DEF RollAuthority
<1>6. ASSUME NEW o \in Observations, Ingest(o) PROVE Rolls(registry, registry')
  <2>1. o \in Observation BY PayloadAssumption
  <2>2. CASE IngestDuplicate(o) BY <1>2, <2>2 DEF IngestDuplicate
  <2>3. CASE IngestRejected(o) BY <1>2, <2>3 DEF IngestRejected
  <2>4. CASE IngestAccepted(o)
    <3>1. o.key \in DOMAIN registry
      BY <1>1, <2>1, <2>4, AcceptedDecision DEF IngestAccepted
    <3> QED BY <1>1, <2>1, <2>4, <3>1, AdvanceRolls DEF IngestAccepted
  <2> QED BY <1>6, <2>2, <2>3, <2>4 DEF Ingest
<1> QED BY <1>3, <1>4, <1>5, <1>6 DEF Next

\* While a key keeps its authority, the authority keeps its boot and
\* generations and never falls back in the sequence.
THEOREM SessionMonotoneCorrect == Spec => SessionMonotone
<1> DEFINE A == \A k \in DOMAIN registry \cap DOMAIN registry' :
                  registry'[k].restart_count = registry[k].restart_count =>
                    /\ registry'[k].boot = registry[k].boot
                    /\ registry'[k].src_gen = registry[k].src_gen
                    /\ registry'[k].obs_gen = registry[k].obs_gen
                    /\ registry'[k].last_seq >= registry[k].last_seq
<1>1. ASSUME Inv, Inv', [Next]_vars PROVE A \/ UNCHANGED vars
  <2>1. SUFFICES ASSUME Next PROVE A BY <1>1
  <2>2. CASE Reset BY <2>2 DEF Reset, EmptyMap
  <2>3. CASE Rolls(registry, registry')
    <3>1. RegistryOK(registry) /\ RegistryOK(registry')
      BY <1>1 DEF Inv, TypeOK, RegistryOK
    <3> QED BY <2>3, <3>1 DEF Rolls, RegistryOK, SourceAuthority
  <2> QED BY <1>1, <2>1, <2>2, <2>3, NextRolls
<1>2. Inv /\ Inv' /\ [Next]_vars => [A]_vars BY <1>1
<1> QED BY <1>2, CoordinatorInvariant, PTL DEF Spec, SessionMonotone

\* Short of a reset no step loses or rewrites evidence, and a step that adds
\* to the stale history (the two rejecting exits of ingest) leaves registry,
\* accepted evidence, index and epoch as they were.
THEOREM EvidencePreservedCorrect == Spec => EvidencePreserved
<1>1. ASSUME Inv, Next PROVE KeepsEvidence \/ Reset
  <2>0. /\ by_request \in [DOMAIN by_request -> Seq(Observation)]
        /\ DOMAIN by_request \subseteq Requests
        /\ stale \in Seq(StaleEvidence)
        /\ Len(stale) \in Nat
        /\ \A r \in DOMAIN by_request : Len(by_request[r]) \in Nat
    BY <1>1 DEF Inv, TypeOK
  <2>1. CASE UNCHANGED <<accepted, by_request, stale>>
    BY <2>0, <2>1 DEF KeepsEvidence, Extends
  <2>2. ASSUME NEW o \in Observations, NEW reason \in Reasons, Retain(o, reason),
               UNCHANGED <<accepted, by_request>>
        PROVE  KeepsEvidence
    <3>1. [obs |-> o, reason |-> reason] \in StaleEvidence
      BY PayloadAssumption DEF StaleEvidence
    <3>2. Extends(stale', stale) BY <2>0, <2>2, <3>1, AppendFacts DEF Retain, Extends
    <3> QED BY <2>0, <2>2, <3>2 DEF KeepsEvidence, Extends
  <2>3. ASSUME NEW o \in Observations, IngestAccepted(o) PROVE KeepsEvidence
    <3>1. o \in Observation BY PayloadAssumption
    <3>2. stale' = stale BY <2>3 DEF IngestAccepted
    <3>3. \A id \in DOMAIN accepted : id \in DOMAIN accepted' /\ accepted'[id] = accepted[id]
      BY <2>3 DEF IngestAccepted, Put
    <3>4. \A r \in DOMAIN by_request :
            r \in DOMAIN by_request' /\ Extends(by_request'[r], by_request[r])
      <4>1. by_request' = Index(by_request, o) BY <2>3 DEF IngestAccepted
      <4>2. CASE o.request = None
        <5>1. by_request' = by_request BY <4>1, <4>2 DEF Index
        <5> QED BY <5>1, <2>0 DEF Extends
      <4>3. CASE o.request # None
        <5>1. /\ DOMAIN by_request' = DOMAIN by_request \cup {o.request}
              /\ \A r \in DOMAIN by_request :
                    r # o.request => by_request'[r] = by_request[r]
              /\ o.request \in DOMAIN by_request =>
                    by_request'[o.request] = Append(by_request[o.request], o)
          BY <4>1, <4>3, <3>1, <2>0, IndexFacts
        <5>2. o.request \in DOMAIN by_request =>
                Extends(by_request'[o.request], by_request[o.request])
          BY <5>1, <2>0, <3>1, AppendFacts DEF Extends
        <5> QED BY <5>1, <5>2, <2>0 DEF Extends
      <4> QED BY <4>2, <4>3
    <3> QED BY <3>2, <3>3, <3>4, <2>0 DEF KeepsEvidence, Extends
  <2>4. ASSUME NEW o \in Observations, Ingest(o) PROVE KeepsEvidence
    <3>1. CASE IngestDuplicate(o)
      BY <3>1, <2>2 DEF IngestDuplicate, Reasons
    <3>2. CASE IngestRejected(o)
      BY <3>2, <2>2, DecisionType DEF IngestRejected, Reasons
    <3> QED BY <2>4, <3>1, <3>2, <2>3 DEF Ingest
  <2> QED BY <1>1, <2>1, <2>4
          DEF Next, SetEpoch, RegisterHello, RollAuthority, evidence
<1>2. ASSUME Inv, Next PROVE RejectionIsolated
  <2>1. Len(stale) \in Nat BY <1>2 DEF Inv, TypeOK
  <2>2. CASE UNCHANGED stale BY <2>1, <2>2 DEF RejectionIsolated
  <2>3. CASE Reset
    <3>1. Len(stale') = 0 BY <2>3 DEF Reset
    <3> QED BY <2>1, <3>1 DEF RejectionIsolated
  <2>4. ASSUME NEW o \in Observations, Ingest(o) PROVE RejectionIsolated
    <3>1. CASE IngestDuplicate(o) BY <3>1 DEF IngestDuplicate, RejectionIsolated
    <3>2. CASE IngestRejected(o) BY <3>2 DEF IngestRejected, RejectionIsolated
    <3>3. CASE IngestAccepted(o) BY <2>2, <3>3 DEF IngestAccepted
    <3> QED BY <2>4, <3>1, <3>2, <3>3 DEF Ingest
  <2> QED BY <1>2, <2>2, <2>3, <2>4
          DEF Next, SetEpoch, RegisterHello, RollAuthority, evidence
<1>3. Inv /\ [Next]_vars => [(KeepsEvidence \/ Reset) /\ RejectionIsolated]_vars
  BY <1>1, <1>2
<1> QED BY <1>3, CoordinatorInvariant, PTL DEF Spec, EvidencePreserved

-----------------------------------------------------------------------------
(* The evidence store.  That one number per key can stand for the history  *)
(* of its session takes two facts beside Inv: every accepted id is in the  *)
(* log, and a last_seq other than zero is a number the session has brought.*)

LogComplete ==
  \A id \in DOMAIN accepted : \E i \in 1..Len(log) : log[i].obs.id = id

LastSeqEarned ==
  \A k \in DOMAIN registry : registry[k].last_seq # 0 =>
    \E i \in 1..Len(log) : /\ log[i].obs.key = k
                           /\ log[i].session = registry[k].restart_count
                           /\ log[i].obs.seq = registry[k].last_seq

HistoryInv == Inv /\ LogComplete /\ LastSeqEarned

\* A key keeps its session and its sequence, or starts a session from zero.
Restarts(reg, new) ==
  \A k \in DOMAIN new :
    \/ new[k].last_seq = 0
    \/ /\ k \in DOMAIN reg
       /\ new[k].restart_count = reg[k].restart_count
       /\ new[k].last_seq = reg[k].last_seq

\* A HELLO does one or the other.
LEMMA RegisterSourceRestarts ==
  ASSUME NEW reg, RegistryOK(reg), NEW h \in HelloPayload
  PROVE  Restarts(reg, RegisterSource(reg, h))
<1> DEFINE a == IF SameBoot(reg, h) THEN [reg[h.key] EXCEPT !.epoch = h.epoch]
                ELSE FreshAuthority(reg, h)
<1>1. \/ a.last_seq = 0
      \/ /\ h.key \in DOMAIN reg
         /\ a.restart_count = reg[h.key].restart_count
         /\ a.last_seq = reg[h.key].last_seq
  BY DEF RegistryOK, SourceAuthority, SameBoot, FreshAuthority
<1>2. RegisterSource(reg, h) = Put(reg, h.key, a) BY DEF RegisterSource
<1> HIDE DEF a
<1> QED BY <1>1, <1>2 DEF Restarts, Put

\* mark_restart starts from zero.
LEMMA MarkRestartRestarts ==
  ASSUME NEW reg, RegistryOK(reg), NEW k \in Keys, NEW b \in Boots, NEW e \in Nat
  PROVE  Restarts(reg, MarkRestart(reg, k, b, e))
BY DEF Restarts, MarkRestart, Put

\* What acceptance does to last_seq: it becomes the larger of the two.
LEMMA AdvanceSequence ==
  ASSUME NEW reg, RegistryOK(reg), NEW o \in Observation, o.key \in DOMAIN reg
  PROVE  /\ Advance(reg, o)[o.key].last_seq \in {o.seq, reg[o.key].last_seq}
         /\ \A k \in DOMAIN reg : k # o.key => Advance(reg, o)[k] = reg[k]
<1>1. reg[o.key] \in SourceAuthority BY DEF RegistryOK
<1>2. Advance(reg, o)[o.key].last_seq =
        IF o.seq > reg[o.key].last_seq THEN o.seq ELSE reg[o.key].last_seq
  BY <1>1 DEF Advance, Put, SourceAuthority
<1>3. \A k \in DOMAIN reg : k # o.key => Advance(reg, o)[k] = reg[k]
  BY DEF Advance, Put
<1> QED BY <1>2, <1>3

\* Both facts are inductive.
LEMMA HistoryStep ==
  ASSUME HistoryInv, [Next]_vars
  PROVE  HistoryInv'
<1>0. Inv' BY NextInv DEF HistoryInv
<1>1. RegistryOK(registry) BY DEF HistoryInv, Inv, TypeOK, RegistryOK
<1>2. ASSUME UNCHANGED <<accepted, log>>, Restarts(registry, registry')
      PROVE  HistoryInv'
  <2>1. LogComplete' BY <1>2 DEF HistoryInv, LogComplete
  <2>2. LastSeqEarned' BY <1>2 DEF HistoryInv, LastSeqEarned, Restarts
  <2> QED BY <1>0, <2>1, <2>2 DEF HistoryInv
<1>3. Restarts(registry, registry) BY DEF Restarts
<1>4. ASSUME NEW e \in Epochs, SetEpoch(e) PROVE HistoryInv'
  BY <1>2, <1>3, <1>4 DEF SetEpoch, evidence
<1>5. ASSUME NEW h \in Hellos, RegisterHello(h) PROVE HistoryInv'
  BY <1>1, <1>2, <1>5, PayloadAssumption, RegisterSourceRestarts
     DEF RegisterHello, evidence
<1>6. ASSUME NEW k \in Keys, NEW b \in Boots, NEW e \in Epochs, RollAuthority(k, b, e)
      PROVE  HistoryInv'
  BY <1>1, <1>2, <1>6, PayloadAssumption, MarkRestartRestarts
     DEF RollAuthority, evidence
<1>7. ASSUME NEW o \in Observations, IngestAccepted(o) PROVE HistoryInv'
  <2> DEFINE e == [obs |-> o, session |-> registry[o.key].restart_count]
  <2>1. o \in Observation BY PayloadAssumption
  <2>2. o.key \in DOMAIN registry BY <1>1, <1>7, <2>1, AcceptedDecision DEF IngestAccepted
  <2>3. registry[o.key] \in SourceAuthority BY <1>1, <2>2 DEF RegistryOK
  <2>4. e \in LogEntry BY <2>1, <2>3 DEF LogEntry, SourceAuthority
  <2>5. log \in Seq(LogEntry) /\ log' = Append(log, e)
    BY <1>7 DEF HistoryInv, Inv, TypeOK, IngestAccepted
  <2> HIDE DEF e
  <2>6. /\ Len(log') = Len(log) + 1
        /\ \A i \in 1..Len(log) : log'[i] = log[i]
        /\ log'[Len(log) + 1] = e
        /\ Len(log) \in Nat
    BY <2>4, <2>5, AppendFacts
  <2>7. Len(log) + 1 \in 1..Len(log') /\ \A i \in 1..Len(log) : i \in 1..Len(log')
    BY <2>6
  <2>8. LogComplete'
    <3>1. \A id \in DOMAIN accepted' : id \in DOMAIN accepted \/ id = o.id
      BY <1>7 DEF IngestAccepted, Put
    <3> QED BY <2>6, <2>7, <3>1 DEF HistoryInv, LogComplete, e
  <2>9. LastSeqEarned'
    <3> SUFFICES ASSUME NEW k \in DOMAIN registry', registry'[k].last_seq # 0
                 PROVE  \E i \in 1..Len(log') :
                          /\ log'[i].obs.key = k
                          /\ log'[i].session = registry'[k].restart_count
                          /\ log'[i].obs.seq = registry'[k].last_seq
      BY DEF LastSeqEarned
    <3>1. /\ DOMAIN registry' = DOMAIN registry
          /\ registry'[o.key].restart_count = registry[o.key].restart_count
          /\ registry'[o.key].last_seq \in {o.seq, registry[o.key].last_seq}
          /\ k # o.key => registry'[k] = registry[k]
      BY <1>1, <1>7, <2>1, <2>2, AdvanceRolls, AdvanceSequence DEF IngestAccepted
    <3>2. CASE k = o.key /\ registry'[k].last_seq = o.seq
      BY <3>1, <3>2, <2>6, <2>7 DEF e
    <3>3. CASE /\ registry'[k].restart_count = registry[k].restart_count
               /\ registry'[k].last_seq = registry[k].last_seq
      <4>1. PICK i \in 1..Len(log) : /\ log[i].obs.key = k
                                     /\ log[i].session = registry[k].restart_count
                                     /\ log[i].obs.seq = registry[k].last_seq
        BY <3>1, <3>3 DEF HistoryInv, LastSeqEarned
      <4> QED BY <3>3, <4>1, <2>6, <2>7
    <3> QED BY <3>1, <3>2, <3>3
  <2> QED BY <1>0, <2>8, <2>9 DEF HistoryInv
<1>8. ASSUME NEW o \in Observations, Ingest(o) PROVE HistoryInv'
  <2>1. CASE IngestDuplicate(o) BY <1>2, <1>3, <2>1 DEF IngestDuplicate
  <2>2. CASE IngestRejected(o) BY <1>2, <1>3, <2>2 DEF IngestRejected
  <2> QED BY <1>7, <1>8, <2>1, <2>2 DEF Ingest
<1>9. CASE Reset
  BY <1>0, <1>9 DEF Reset, EmptyMap, HistoryInv, LogComplete, LastSeqEarned
<1>10. CASE UNCHANGED vars BY <1>2, <1>3, <1>10 DEF vars
<1> QED BY <1>4, <1>5, <1>6, <1>8, <1>9, <1>10 DEF Next

\* They hold from the start.
LEMMA HistoryInvariant == Spec => []HistoryInv
<1>1. Init => HistoryInv
  <2>1. Init => Inv
    <3>1. Init => epoch \in Nat /\ Cleared BY DEF Init, Cleared
    <3> QED BY <3>1, ClearedInv
  <2>2. Init => LogComplete /\ LastSeqEarned
    BY DEF Init, EmptyMap, LogComplete, LastSeqEarned
  <2> QED BY <2>1, <2>2 DEF HistoryInv
<1>2. HistoryInv /\ [Next]_vars => HistoryInv' BY HistoryStep
<1> QED BY <1>1, <1>2, PTL DEF Spec

\* The comparison with last_seq finds what a search of the session's history
\* would: a later number, the same number other than zero, or neither.
LEMMA BroughtFacts ==
  ASSUME HistoryInv, NEW o \in Observation, o.key \in DOMAIN registry
  PROVE  /\ (\E p \in Store!Brought(o.key) : p.seq > o.seq)
              <=> o.seq < registry[o.key].last_seq
         /\ (o.seq # 0 /\ \E p \in Store!Brought(o.key) : p.seq = o.seq)
              => o.seq <= registry[o.key].last_seq
         /\ (o.seq = registry[o.key].last_seq /\ registry[o.key].last_seq # 0)
              => \E p \in Store!Brought(o.key) : p.seq = o.seq
<1> DEFINE a == registry[o.key]
<1>1. a \in SourceAuthority BY DEF HistoryInv, Inv, TypeOK
<1>2. a.last_seq \in Nat /\ o.seq \in Nat BY <1>1 DEF SourceAuthority, Observation
<1>3. Sessions[o.key].number = a.restart_count BY DEF Sessions
<1>4. \A p : p \in Store!Brought(o.key) <=>
        \E i \in 1..Len(log) : /\ log[i].obs.key = o.key
                               /\ log[i].session = a.restart_count
                               /\ p = log[i].obs
  BY <1>3 DEF Store!Brought
<1>5. ASSUME NEW p \in Store!Brought(o.key) PROVE p.seq \in Nat /\ p.seq <= a.last_seq
  <2>1. PICK i \in 1..Len(log) : /\ log[i].obs.key = o.key
                                 /\ log[i].session = a.restart_count
                                 /\ p = log[i].obs
    BY <1>4, <1>5
  <2>2. log[i] \in LogEntry BY DEF HistoryInv, Inv, TypeOK
  <2> QED BY <2>1, <2>2 DEF HistoryInv, Inv, AuthorityCovers, LogEntry, Observation
<1>6. a.last_seq # 0 => \E p \in Store!Brought(o.key) : p.seq = a.last_seq
  <2> SUFFICES ASSUME a.last_seq # 0
               PROVE  \E p \in Store!Brought(o.key) : p.seq = a.last_seq
    OBVIOUS
  <2>1. PICK i \in 1..Len(log) : /\ log[i].obs.key = o.key
                                 /\ log[i].session = a.restart_count
                                 /\ log[i].obs.seq = a.last_seq
    BY DEF HistoryInv, LastSeqEarned
  <2> QED BY <2>1, <1>4
<1> HIDE DEF a
<1>7. (\E p \in Store!Brought(o.key) : p.seq > o.seq) <=> o.seq < a.last_seq
  BY <1>2, <1>5, <1>6
<1>8. (\E p \in Store!Brought(o.key) : p.seq = o.seq) => o.seq <= a.last_seq
  BY <1>2, <1>5
<1> QED BY <1>6, <1>7, <1>8 DEF a

\* An id is in the log exactly when it is accepted.
LEMMA UsedIds ==
  ASSUME HistoryInv, NEW o \in Observation
  PROVE  (\E i \in 1..Len(log) : log[i].obs.id = o.id) <=> o.id \in DOMAIN accepted
BY DEF HistoryInv, Inv, LogExact, LogComplete

\* The fields of a session are those of its authority.
LEMMA SessionFields ==
  ASSUME NEW k \in DOMAIN registry
  PROVE  /\ DOMAIN Sessions = DOMAIN registry
         /\ Sessions[k].number = registry[k].restart_count
         /\ Sessions[k].boot = registry[k].boot
         /\ Sessions[k].src_gen = registry[k].src_gen
         /\ Sessions[k].obs_gen = registry[k].obs_gen
         /\ Sessions[k].epoch = registry[k].epoch
BY DEF Sessions

\* The reason validate gives is a fault of the observation, and what it
\* accepts has none.
LEMMA DecisionIsAFault ==
  ASSUME HistoryInv, NEW o \in Observation, o.id \notin DOMAIN accepted
  PROVE  IF Decision(registry, o) = "ACCEPTED"
         THEN Store!Faults(o) = {}
         ELSE Decision(registry, o) \in Store!Faults(o)
<1> DEFINE a == registry[o.key]
<1> DEFINE later == \E p \in Store!Brought(o.key) : p.seq > o.seq
<1> DEFINE again == o.seq # 0 /\ \E p \in Store!Brought(o.key) : p.seq = o.seq
<1>1. ~ \E i \in 1..Len(log) : log[i].obs.id = o.id BY UsedIds
<1>2. DOMAIN Sessions = DOMAIN registry BY DEF Sessions
<1>3. CASE o.key \notin DOMAIN registry
  BY <1>1, <1>2, <1>3 DEF Store!Faults, Decision
<1>4. CASE o.key \in DOMAIN registry
  <2>1. Store!Faults(o) = Store!SessionFaults(o)
    BY <1>1, <1>2, <1>4 DEF Store!Faults
  <2>2. a \in SourceAuthority BY <1>4 DEF HistoryInv, Inv, TypeOK
  <2>3. a.last_seq \in Nat /\ o.seq \in Nat BY <2>2 DEF SourceAuthority, Observation
  <2>4. /\ later <=> o.seq < a.last_seq
        /\ again => o.seq <= a.last_seq
        /\ (o.seq = a.last_seq /\ a.last_seq # 0) => again
    BY <1>4, <2>3, BroughtFacts
  <2>5. /\ Sessions[o.key].boot = a.boot
        /\ Sessions[o.key].src_gen = a.src_gen
        /\ Sessions[o.key].obs_gen = a.obs_gen
        /\ Sessions[o.key].epoch = a.epoch
    BY <1>4, SessionFields
  <2> HIDE DEF later, again, a
  <2>6. \A r : r \in Store!SessionFaults(o) <=>
          \/ r = "STALE_EPOCH" /\ o.epoch < a.epoch
          \/ r = "STALE_SOURCE_GENERATION" /\ o.src_gen # a.src_gen
          \/ r = "STALE_OBSERVATION_GENERATION" /\ o.obs_gen # a.obs_gen
          \/ r = "STALE_BOOT" /\ o.boot # a.boot
          \/ r = "OUT_OF_ORDER_SEQUENCE" /\ later
          \/ r = "DUPLICATE_SEQUENCE" /\ again
    BY <2>5 DEF Store!SessionFaults, later, again
  <2>7. Decision(registry, o) =
          IF o.epoch < a.epoch THEN "STALE_EPOCH"
          ELSE IF o.src_gen # a.src_gen THEN "STALE_SOURCE_GENERATION"
          ELSE IF o.obs_gen # a.obs_gen THEN "STALE_OBSERVATION_GENERATION"
          ELSE IF o.boot # a.boot THEN "STALE_BOOT"
          ELSE IF o.seq < a.last_seq THEN "OUT_OF_ORDER_SEQUENCE"
          ELSE IF o.seq = a.last_seq /\ a.last_seq # 0 THEN "DUPLICATE_SEQUENCE"
          ELSE "ACCEPTED"
    BY <1>4 DEF Decision, SequenceDecision, a
  <2>8. CASE Decision(registry, o) = "ACCEPTED"
    <3>1. /\ ~(o.epoch < a.epoch)
          /\ o.src_gen = a.src_gen /\ o.obs_gen = a.obs_gen /\ o.boot = a.boot
          /\ ~(o.seq < a.last_seq)
          /\ ~(o.seq = a.last_seq /\ a.last_seq # 0)
      BY <2>7, <2>8
    <3>2. ~later BY <3>1, <2>4
    <3>3. ~again
      <4> SUFFICES ASSUME again PROVE FALSE OBVIOUS
      <4>1. o.seq = a.last_seq BY <2>3, <2>4, <3>1
      <4>2. o.seq # 0 BY DEF again
      <4> QED BY <3>1, <4>1, <4>2
    <3>4. Store!SessionFaults(o) = {} BY <2>6, <3>1, <3>2, <3>3
    <3> QED BY <2>1, <2>8, <3>4
  <2>9. CASE Decision(registry, o) # "ACCEPTED"
    <3>1. Decision(registry, o) \in Store!SessionFaults(o)
      <4>1. CASE o.epoch < a.epoch BY <4>1, <2>6, <2>7
      <4>2. CASE ~(o.epoch < a.epoch) /\ o.src_gen # a.src_gen BY <4>2, <2>6, <2>7
      <4>3. CASE /\ ~(o.epoch < a.epoch) /\ o.src_gen = a.src_gen
                 /\ o.obs_gen # a.obs_gen
        BY <4>3, <2>6, <2>7
      <4>4. CASE /\ ~(o.epoch < a.epoch) /\ o.src_gen = a.src_gen
                 /\ o.obs_gen = a.obs_gen /\ o.boot # a.boot
        BY <4>4, <2>6, <2>7
      <4>5. CASE /\ ~(o.epoch < a.epoch) /\ o.src_gen = a.src_gen
                 /\ o.obs_gen = a.obs_gen /\ o.boot = a.boot
        BY <4>5, <2>4, <2>6, <2>7, <2>9
      <4> QED BY <4>1, <4>2, <4>3, <4>4, <4>5
    <3> QED BY <2>1, <2>9, <3>1
  <2> QED BY <2>8, <2>9
<1> QED BY <1>3, <1>4

\* A HELLO opens the next session of its key, under another envelope, or
\* renews the one that is open.
LEMMA RegisterIsHello ==
  ASSUME Inv, NEW h \in Hellos, RegisterHello(h)
  PROVE  Store!Hello(h.key)
<1> DEFINE k == h.key
<1> DEFINE b == IF SameBoot(registry, h) THEN [registry[k] EXCEPT !.epoch = h.epoch]
                ELSE FreshAuthority(registry, h)
<1>1. h \in HelloPayload BY PayloadAssumption
<1>2. RegistryOK(registry) BY DEF Inv, TypeOK, RegistryOK
<1>3. registry' = Put(registry, k, b) BY DEF RegisterHello, RegisterSource
<1>4. /\ k \in DOMAIN registry /\ SameBoot(registry, h) =>
           /\ b.restart_count = registry[k].restart_count
           /\ b.boot = registry[k].boot
           /\ b.src_gen = registry[k].src_gen
           /\ b.obs_gen = registry[k].obs_gen
      /\ k \in DOMAIN registry /\ ~SameBoot(registry, h) =>
           /\ b.restart_count = registry[k].restart_count + 1
           /\ <<b.boot, b.src_gen, b.obs_gen>> #
                <<registry[k].boot, registry[k].src_gen, registry[k].obs_gen>>
      /\ k \notin DOMAIN registry => b.restart_count = 0
  BY <1>1, <1>2 DEF SameBoot, FreshAuthority, RestartCount, RegistryOK,
                    SourceAuthority, HelloPayload
<1> HIDE DEF b
<1>5. /\ DOMAIN Sessions = DOMAIN registry
      /\ DOMAIN Sessions' = DOMAIN registry \cup {k}
      /\ \A x \in DOMAIN registry \ {k} : Sessions'[x] = Sessions[x]
      /\ Sessions'[k].number = b.restart_count
      /\ Sessions'[k].boot = b.boot
      /\ Sessions'[k].src_gen = b.src_gen
      /\ Sessions'[k].obs_gen = b.obs_gen
  BY <1>3 DEF Sessions, Put
<1>6. k \in DOMAIN registry =>
        /\ Sessions[k].number = registry[k].restart_count
        /\ Store!Envelope(Sessions[k]) =
             <<registry[k].boot, registry[k].src_gen, registry[k].obs_gen>>
  BY SessionFields DEF Store!Envelope
<1>7. Store!Envelope(Sessions'[k]) = <<b.boot, b.src_gen, b.obs_gen>>
  BY <1>5 DEF Store!Envelope
<1>8. UNCHANGED <<log, stale>> BY DEF RegisterHello, evidence
<1>9. Store!Opened(k) \/ Store!Renewed(k)
  BY <1>4, <1>5, <1>6, <1>7 DEF Store!Opened, Store!Renewed
<1> QED BY <1>5, <1>8, <1>9 DEF Store!Hello

\* mark_restart opens the next session: it mints a generation of its own.
LEMMA RollIsHello ==
  ASSUME Inv, NEW k \in Keys, NEW b \in Boots, NEW e \in Epochs, RollAuthority(k, b, e)
  PROVE  Store!Hello(k)
<1>1. RegistryOK(registry) BY DEF Inv, TypeOK, RegistryOK
<1>2. /\ DOMAIN registry' = DOMAIN registry \cup {k}
      /\ \A x \in DOMAIN registry \ {k} : registry'[x] = registry[x]
      /\ registry'[k].restart_count = RestartCount(registry, k)
      /\ k \in DOMAIN registry => registry'[k].src_gen = registry[k].src_gen + 1
  BY DEF RollAuthority, MarkRestart, Put
<1>3. /\ DOMAIN Sessions = DOMAIN registry
      /\ DOMAIN Sessions' = DOMAIN registry \cup {k}
      /\ \A x \in DOMAIN registry \ {k} : Sessions'[x] = Sessions[x]
      /\ Sessions'[k].number = RestartCount(registry, k)
      /\ Sessions'[k].src_gen = registry'[k].src_gen
  BY <1>2 DEF Sessions
<1>4. ASSUME k \in DOMAIN registry PROVE Store!Opened(k)
  <2>1. registry[k].src_gen \in Nat BY <1>1, <1>4 DEF RegistryOK, SourceAuthority
  <2>2. Sessions'[k].src_gen # Sessions[k].src_gen BY <1>2, <1>3, <1>4, <2>1, SessionFields
  <2>3. Store!Envelope(Sessions'[k]) # Store!Envelope(Sessions[k])
    BY <2>2 DEF Store!Envelope
  <2>4. Sessions'[k].number = Sessions[k].number + 1
    BY <1>3, <1>4, SessionFields DEF RestartCount
  <2> QED BY <1>3, <1>4, <2>3, <2>4 DEF Store!Opened
<1>5. ASSUME k \notin DOMAIN registry PROVE Store!Opened(k)
  BY <1>3, <1>5 DEF RestartCount, Store!Opened
<1>6. UNCHANGED <<log, stale>> BY DEF RollAuthority, evidence
<1>7. Store!Opened(k) BY <1>4, <1>5
<1> QED BY <1>3, <1>6, <1>7 DEF Store!Hello

\* Accepting an observation does not touch the session it belongs to.
LEMMA AcceptKeepsSessions ==
  ASSUME Inv, NEW o \in Observation, IngestAccepted(o)
  PROVE  Sessions' = Sessions /\ o.key \in DOMAIN registry
<1>1. RegistryOK(registry) BY DEF Inv, TypeOK, RegistryOK
<1>2. o.key \in DOMAIN registry BY <1>1, AcceptedDecision DEF IngestAccepted
<1>3. registry[o.key] \in SourceAuthority BY <1>1, <1>2 DEF RegistryOK
<1> DEFINE a == [registry[o.key] EXCEPT
                   !.last_seq    = IF o.seq > @ THEN o.seq ELSE @,
                   !.last_obs_ts = OrKeep(o.obs_ts, @),
                   !.health      = OrKeep(o.health, @)]
<1>4. /\ a.restart_count = registry[o.key].restart_count
      /\ a.boot = registry[o.key].boot
      /\ a.src_gen = registry[o.key].src_gen
      /\ a.obs_gen = registry[o.key].obs_gen
      /\ a.epoch = registry[o.key].epoch
  BY <1>3 DEF SourceAuthority
<1>5. registry' = Put(registry, o.key, a) BY DEF IngestAccepted, Advance
<1> HIDE DEF a
<1>6. Sessions' = Sessions BY <1>2, <1>4, <1>5 DEF Sessions, Put
<1> QED BY <1>2, <1>6

\* Every step of the coordinator is a step of the store, or leaves it alone.
LEMMA NextIsStoreNext ==
  ASSUME HistoryInv, [Next]_vars
  PROVE  [Store!StoreNext]_(Store!storevars)
<1>0. Inv BY DEF HistoryInv
<1>1. ASSUME NEW e \in Epochs, SetEpoch(e) PROVE UNCHANGED Store!storevars
  BY <1>1 DEF SetEpoch, evidence, Store!storevars, Sessions
<1>2. ASSUME NEW h \in Hellos, RegisterHello(h) PROVE Store!StoreNext
  <2>1. h.key \in Keys BY PayloadAssumption DEF HelloPayload
  <2> QED BY <1>0, <1>2, <2>1, RegisterIsHello DEF Store!StoreNext
<1>3. ASSUME NEW k \in Keys, NEW b \in Boots, NEW e \in Epochs, RollAuthority(k, b, e)
      PROVE  Store!StoreNext
  BY <1>0, <1>3, RollIsHello DEF Store!StoreNext
<1>4. ASSUME NEW o \in Observations, Ingest(o) PROVE Store!StoreNext
  <2>1. o \in Observation BY PayloadAssumption
  <2>2. CASE IngestDuplicate(o)
    <3>1. Store!Faults(o) = {"DUPLICATE_ID"}
      BY <2>1, <2>2, UsedIds DEF IngestDuplicate, Store!Faults
    <3>2. Store!Refuse(o)
      BY <2>2, <3>1 DEF IngestDuplicate, Retain, Store!Refuse, Sessions
    <3> QED BY <3>2 DEF Store!StoreNext
  <2>3. CASE IngestRejected(o)
    <3>1. Decision(registry, o) \in Store!Faults(o)
      BY <2>1, <2>3, DecisionIsAFault DEF IngestRejected
    <3>2. Store!Refuse(o)
      BY <2>3, <3>1 DEF IngestRejected, Retain, Store!Refuse, Sessions
    <3> QED BY <3>2 DEF Store!StoreNext
  <2>4. CASE IngestAccepted(o)
    <3>1. Store!Faults(o) = {}
      BY <2>1, <2>4, DecisionIsAFault DEF IngestAccepted
    <3>2. Sessions' = Sessions /\ o.key \in DOMAIN registry
      BY <1>0, <2>1, <2>4, AcceptKeepsSessions
    <3>3. Sessions[o.key].number = registry[o.key].restart_count
      BY <3>2, SessionFields
    <3>4. Store!Admit(o)
      BY <2>4, <3>1, <3>2, <3>3 DEF IngestAccepted, Store!Admit
    <3> QED BY <3>4 DEF Store!StoreNext
  <2> QED BY <1>4, <2>2, <2>3, <2>4 DEF Ingest
<1>5. CASE Reset
  BY <1>5 DEF Reset, EmptyMap, Sessions, Store!StoreNext, Store!Forget, Store!StoreInit
<1>6. CASE UNCHANGED vars BY <1>6 DEF vars, Store!storevars, Sessions
<1> QED BY <1>1, <1>2, <1>3, <1>4, <1>5, <1>6 DEF Next

\* The coordinator implements the evidence store: one number per key decides
\* what the whole history of a session would, for any payloads in any order.
THEOREM CoordinatorImplementsStore == Spec => ImplementsStore
<1>1. Init => Store!StoreInit BY DEF Init, EmptyMap, Sessions, Store!StoreInit
<1>2. HistoryInv /\ [Next]_vars => [Store!StoreNext]_(Store!storevars)
  BY NextIsStoreNext
<1> QED BY <1>1, <1>2, HistoryInvariant, PTL DEF Spec, ImplementsStore, Store!StoreSpec
=============================================================================
