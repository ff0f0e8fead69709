# A TLA+ verification project for Serving Observatory

Serving Observatory collects typed observations about served requests from source
processes, decides which of them carry current authority, and reconstructs per-request
traces, latency breakdowns, explanations and replayable archives from what it accepted.
This directory models that path in TLA+, checks it with TLC on small instances, and proves
with TLAPS, for every value of the constants that section 4 admits, every safety and action
property of the passing runs: of the coordinator, its server, the transport, the archive, the traces,
attributions and comparisons, the latency decomposition, the explanations, and the
percentiles and tallies of many requests.

## 1. Inventory

| Component (source) | State | Operations | Hard part | What makes it correct |
|---|---|---|---|---|
| Source registry (`authority.cpp`) | `by_key_`: current authority of each (source, worker): boot, generations, epoch, last_seq, health, restart count | `register_source`, `validate`, `mark_restart` | restarts, repeated and late HELLOs, sequence 0 | within one authority sequence numbers increase; a session is never reopened |
| Coordinator (`coordinator.cpp`) | epoch, registry, `accepted_`, `by_request_`, `stale_`, three u32 totals, under one mutex | `set_epoch`, `register_hello`, `ingest`, `reset`, the registry accessor | duplicates decided before authority; four containers updated by one call | the index is the accepted evidence; counters account for everything; rejected evidence changes nothing current |
| Coordinator server (`coordinator.cpp`) | accept thread, handler threads, `running_`, `stop_requested_` | `start`, `accept_loop`, `handle_client`, `stop` | stop against accept and handlers, idle probe, blocked sends | answers are true, stop returns and leaves the coordinator at rest |
| Source client (`source.cpp`, `obscli source`) | session, configuration, script position | `connect`, `send_hello`, `send_observation`, fire mode, `recv_ack`, `disconnect` | timeouts and late acks, kills, restarts | the ack is about the observation that was sent; the process ends |
| Network and protocol (`network.cpp`, `protocol.cpp`) | socket buffers | `send_all`, `recv_exact`, `recv_frame`, `recv_some`, `accept`, frame codec | partial reads, timeouts, resets | nothing is delivered after something was lost |
| Persistence (`persistence.cpp`) | an archive file | `build_archive`, `save_archive`, `load_archive` | snapshot in parts, truncation in place, crash, unflushed data | a loaded archive is one that was saved; a reported save loads |
| Replay (`replay.cpp`) | none | `replay`, digests | must not depend on arrival order | same evidence, same digests |
| Trace (`trace.cpp`) | none | `reconstruct_trace` | two clocks, ties, missing times, retries, several boots and epochs | depends on the evidence only, shows authority transitions |
| Latency (`latency.cpp`) | none | `decompose_latency` | overlaps, points, inverted intervals | each nanosecond counted once; a longest chain |
| Attribution, counterfactual (`attribution.cpp`, `counterfactual.cpp`) | none | `attribute_resources`, the four what-if rules | missing evidence, what counts as measured | late evidence only adds; no rule saves more than the phase it shortens |
| Analysis (`analysis.cpp`) | none | `explain_request`, `explain_tail`, `percentile_of`, `tail_metrics`, `correlate_by`, `which_share` | ranks at the ends, overlapping phases, empty groups | shares of a latency add up to no less than it, and to exactly it when no phase reaches beyond the request; correlation is kept apart from structure; percentiles and the tail have their rank |
| Comparison, aggregates (`compare.cpp`, `replay.cpp`) | none | `compare_traces`, `compare_windows`, aggregates of a replay | the same events tallied in three places | the tallies agree |
| Typed fields, scripts (`observation.cpp`, `cli.cpp`) | none | `u64_field`, `f64_field`, `bool_field`; `parse_script`, `apply_entry` | variant alternatives read as another type | feeds the trace checks with evidence as it is really produced |
| CUDA proof (`cuda_proof.cu`) | a counter that stands for the receive clock | `mk`, `add_request` | evidence on two clocks | its requests are inputs of the latency checks |
| Core (ids, SHA-256, JSON, codec, enums) | none | conversions | bit level | abstract values here |
| `obscli` views, multiprocess proof, tests | none | I/O and drivers | | not modelled |

How they interact. Source processes talk to the server over one TCP connection each. A
handler thread decodes a frame, calls the coordinator under its mutex, and sends the
answer outside of it. `obscli serve` polls for a stop condition, calls `stop()`, then
`save_archive`; `obscli ingest` does the same without a network. Loading an archive
re-runs `replay`, which groups accepted observations by request, reconstructs each trace
and compares digests. Latency decomposition and attribution read one trace, an explanation
reads all three of one request, the tail, the windows and the aggregates read many.

`PROJECT.json` lists the hazards of this code at their lines, and for each the property
that would catch it going wrong.

## 2. Modules

| Module | Models | Notes |
|---|---|---|
| `SourceRegistry` | the registry as functions on a map | extended by everything below |
| `Coordinator` | one action per operation, one per exit of `ingest` | `log` is a history variable: what was accepted, under which session (the restart count of its key) |
| `EvidenceStore` | what the coordinator promises: evidence is judged by the whole history of its session | abstract specification, implemented by `Coordinator` and `CoordinatorServer` |
| `MCCoordinator` | instance | |
| `CoordinatorProofs` | theorems about `Coordinator` | |
| `CoordinatorServer` | extends `Coordinator` with threads, sockets and source processes | every change of coordinator state is an action of `Coordinator` |
| `MCCoordinatorServer` | scenarios: a worker with up to three boots | |
| `ServerProofs` | theorems about `CoordinatorServer`, its processes, their HELLOs, what arrives of a script and what its source is told | extends `CoordinatorProofs` |
| `FrameChannel` | what one direction of a connection promises: a lossy FIFO channel of whole frames | abstract specification |
| `Wire` | one direction of a connection byte by byte, with the two loops that read it | implements `FrameChannel` |
| `MCWire`, `WireProofs` | instance; theorems about `Wire` | |
| `Archive` | extends `Coordinator` with the saving thread and the file | the file is a sequence of tokens, one per encoded item |
| `MCArchive` | instance | |
| `ArchiveProofs` | theorems about `Archive` | extends `CoordinatorProofs` |
| `Evidence` | typed payload fields and their accessors; from the lines of a script to observations | |
| `Trace` | extends `Evidence`: `reconstruct_trace` as an operator, and evidence arriving in any order | |
| `Attribution` | extends `Trace`: attribution, comparison of two traces, counterfactuals | |
| `Tail` | extends `Attribution`: percentiles, tail, groups, windows, aggregates over a fleet of which one request is still receiving evidence | |
| `MCTrace` | bodies of evidence and fleets | composes `Evidence`, `Trace`, `Attribution` and `Tail` |
| `FiniteSums` | induction over numbers and finite sets, and lemmas about sums over finite sets | used by the three modules of proofs below |
| `TraceProofs` | theorems about `Trace`, `Attribution` and `Tail`, and what they need to know of folds | extends `FiniteSums` |
| `Latency` | the three loops of `decompose_latency`, one step per iteration | |
| `LatencyProofs` | theorems about `Latency` | extends `FiniteSums` |
| `Explanation` | extends `Latency` and instantiates `Attribution`: `explain_request`, `explain_tail` of one request | |
| `ExplanationProofs` | theorems about `Explanation` | extends `LatencyProofs` |
| `CudaProof` | the evidence `obscli cuda` makes of four measured kernel times | |
| `MCLatency` | requests built from small bodies of evidence and from `CudaProof` | composes `Trace`, `Attribution`, `Latency`, `Explanation` and `CudaProof` |

Operators whose comment starts with "Mutant" are plausible bugs of the definition they
precede. `PROJECT.json` names, for each property, the mutant that must violate it.

### Correspondence and abstraction

* Ids, boots, keys and requests are model values. The pair (source, worker) is one key,
  so a collision of the 64-bit `key_of` is left out. Payload fields that no decision
  looks at are left out.
* A coordinator call is one step: its mutex is held for the whole call. The network calls
  around it are separate steps (`HandleObs` computes the answer, `Reply` sends it).
* Each direction of a connection is a queue of at most `Cap` frames. `send_all` waits for
  room; `recv` waits for a frame, end of stream or a timeout. `aligned` says whether the
  handler reads at a frame boundary; only the one-byte probe moves it off.
* `TcpListener::accept` sets a receive timeout on the listening socket. Whether accepted
  sockets inherit it depends on the platform; `ServerTimeout` covers both.
* A killed process may have frames in flight; they are delivered or lost to a reset.
* The counters wrap at `U32`, a small number in the runs and any positive number in the
  proofs. `LengthMod` stands for the u32 cast of the archive's body length.
* Saving: each part of the snapshot has its own lock and so its own step; the stream
  reports success before it is flushed; a crash may hit between any two steps, and the
  restarted process has an empty coordinator.
* `CoordinatorServer` keeps frames whole and bounds buffers; `Wire` has the bytes of one
  direction and no bounds. In `Wire` a byte is its offset in the stream; what was written
  is a prefix, what was received another (`written`, `consumed`). A `recv` returns any
  piece of what was written; a timeout may hit at any read, also where bytes are under
  way. Off a frame boundary a length is any of `Misread`, and no misplaced body passes
  the checksum. `reader` chooses between the loop of `handle_client` and a source's
  `recv_ack` calls; they differ in what a failure leads to.
* A field of an observation keeps the alternative of its variant, because the accessors
  read some alternatives and not others. A word of a script is a Boolean, an
  integer, a decimal or other text; 0 and 1 become Booleans like `false` and `true`, and
  `is_warm` is a Boolean whatever its word is, as in the code.
* The wording of claims, severities as fractions, mean and standard deviation are left
  out. Percentiles are integers in tenths of a percent; `Rank` says what the double
  product and cast yield for them, its rounding included (`RoundedUp`).
* In `Trace`, `None` is an absent timestamp and 0 is what the code uses for it. Five
  identity fields are treated alike in the code and are one field here.

## 3. Runs

Passing runs:

| Run | Shows |
|---|---|
| `coordinator` | index, counters, session order, coverage of accepted evidence by authority, preservation of evidence, isolation of rejections; the coordinator implements `EvidenceStore` |
| `server_restart` | a worker restarted twice, with blocking sockets, kills and stop at any moment: honest acks, complete answers, quiescence after stop, authority falls back only through an unanswered HELLO, stop returns, source processes end |
| `server_idle` | with timeouts on both sides, late acks, fire mode, an undecodable observation, resets: no holes in the evidence, no source is told of more acceptances or refusals than there were |
| `archive` | with ingestion during the save, failing writes, crashes and damage: the archive is closed, a reported save that was flushed loads back, load returns what was written or an error |
| `wire` | bytes in any pieces, timeouts, probes, a close in the middle of a frame, resets: each reader acts on a lossy FIFO channel of whole frames (`FrameChannel`), loses nothing while no timeout hits, and its loop ends once the sender is gone |
| `trace` | independence of arrival order, authority transitions, stability of traces, attribution and comparison under late evidence, bounds of the counterfactuals, rank of percentiles, separation of the tail, agreement of the three tallies of a fleet |
| `latency` | the sweep against a nanosecond-by-nanosecond definition, the critical path against all subsets of phases, the end of the walk along it; the shares of an explanation against the total, its structural claims against the phases, the tail factors against the explanation |

Runs that violate a property on purpose, each a disagreement between the code and a
comment or test (quoted in `PROJECT.json`, findings):

| Run | What the code does |
|---|---|
| `server_old_boot` | a late HELLO of an old boot becomes current again |
| `server_late_ack` | after an ack timeout, acks are off by one |
| `server_fire_blocks` | a fire-mode source and its handler block on each other once both buffers are full |
| `wire_skew` | after a receive timeout the bytes already read of a length, or the probed byte, are gone, and the next frame is read from the middle of one |
| `archive_unreadable` | an infinite double is saved but cannot be loaded |

Other disagreements met while modelling, visible in the definitions and kept without a
run of their own. Where one makes a stronger property false, what still holds is named:

* registration takes the epoch of the HELLO and not the coordinator's (`RegisterHello`), so
  a repeated HELLO with a lower epoch lowers the authority's, and evidence of a later epoch
  is accepted without raising it, so that an earlier one is accepted afterwards:
  `ImplementsStore` says that evidence never moves an epoch, and is refused as stale when it
  is older than the epoch in force;
* the parts of an archive are read under separate locks, registry first: while handlers run
  it may hold an observation of a source its registry does not know. `SnapshotClosed` is the
  other direction, and `QuiescentAfterStop` says that `obscli serve` saves at rest;
* a save whose last flush fails is reported as saved and does not load (`CloseStream`):
  `SaveLoads` excepts it, `LoadSound` says that it loads as an error;
* evidence of epoch 0 is lost from the minimum, and the request seems to stay in one epoch
  (`MinEpoch`): `AuthorityTransitionsShown` is about epochs from 1 on;
* a batch observation without a time makes BATCH_WAIT start at 0 and the covered time exceed
  the total (`Phases`): `SharesAddUp` is exact for requests no phase reaches beyond, and the
  run `latency` has such a batch among the others;
* a queue inside a longer phase is off the critical path, so its share is called correlated,
  and the queueing statement of the same explanation is structural, against "Correlation is
  never conflated with causation" (`analysis.hpp`): `StructureIsSequential` excepts the
  statements of `Derived`;
* the first token interval ends with the last decode step, and point phases on a source
  clock keep the label measured (`Phases`);
* a link slow enough for several timeouts inside one frame can lose that whole frame and
  stay in step, so a later one is delivered: `NoGaps` is about frames that arrive whole,
  and `FrameChannel` is lossy for that reason (`NoFrame`, `Probe`);
* a frame may be sent with up to 256 MiB but is decoded with up to 64 MiB only, and a
  frame the decoder refuses ends the connection without an answer (`RecvBody`);
* the 99.9th percentile of exactly 1000 requests is their maximum, because the product
  that gives the rank is rounded up (`RoundedUp`; 28 % and 56 % of 25 as well);
* removing retries never saves anything, as RETRY is a point phase (`SavedWhole`);
* two boots in the evidence are claimed as a directly evidenced restart or failover, also
  when two sources fed the same request (`DirectEvidence`);
* `bytes_h2d` counts as available as soon as there is any evidence (`Bytes`);
* a script word 0 or 1 becomes a boolean, so `count=0` counts one event and
  `output_tokens=1` is lost (`ScriptValue`, `Tokens`);
* `retry_events` of a replay adds speculation counts to retries, and its `gpu_exec`
  counts 0 for a `gpu_ms` given as a double, as scripts give it (`Aggregates`);
* the explanation's queueing statement uses the duration of the phase, its phase share
  the exclusive time (`Derived`, `PhaseShares`);
* the latencies the CUDA proof prints measure its receive counter, which advances by
  1000 ns per observation, and not the kernels (`AddRequest`).

### Bounds

* `coordinator`: two workers, one with two boots, seven observations that repeat ids,
  sequence numbers and generations, a counter width of 2 so that totals wrap, one restart
  beyond the first registration, two stale entries. `MaxStale` and `MaxRestarts` are the
  named caps of unbounded growth.
* `server_*`: buffers of one frame (so that sends block), one to three processes of one
  worker with scripts of one to four observations, a repeated one among them.
  `MaxTimeouts` caps how often a source gives up on an ack; it is 0 in `server_restart`,
  where a source waits for its answer or for the end of the connection. It is 2 in
  `server_idle`: one timeout is spent on the observation that is never answered, the other
  makes the acks of those around it come late; one of these repeats a sequence number, so
  that acceptances and refusals can be taken for one another. `server_fire_blocks` has one
  source with four observations for the two buffers of one frame.
* `archive`: a restart, one observation of each boot, one duplicate, two saves to the
  same path, so that an old archive is overwritten. Damage is one token or a cut, judged
  in every state by `LoadSound`.
* `wire`: three frames of 13, 12 and 12 bytes, so that a payload byte, every length byte
  and every body byte can be where a timeout, a probe or the end hits; the second does
  not decode, the third is a BYE. A misplaced length is short enough to end inside the
  stream, or not. Three timeouts lose a length, probe and lose again; `MaxCalls` of two
  `recv_ack` calls lets a source go on after a failure. `wire_skew` needs one of each.
* `trace`: bodies of three to seven observations, all arrival orders, with ties, both
  clocks, two boots, two epochs, completion with a later failure, cancellation, retry, and
  two produced from scripts with words of each kind, a cold start with flags given as words
  among them; epochs are from 1 on. Fleets: two busy peers beside
  each body; up to three others of latencies 0 to 3 for every small rank, and 24 peers, so
  that the one that arrives makes 25, where two ranks are rounded up.
* `latency`: three phases with every start and end in 1..5 plus the point phases, so that
  intervals overlap, nest, touch, are empty and inverted; requests shorter than their
  phases, with a retry on a restarted worker and a cold start, and with a batch that has
  no timestamp; the four requests of the CUDA proof.

Deadlock checking is on for `coordinator`. The server stops when its scenario is over, a
trace when its evidence has arrived, a decomposition when it is done, a wire when its
reader has left, and an archive run when its saves are used up; their configurations say `CHECK_DEADLOCK FALSE`.

### Fairness

`FairNetSpec` assumes weak fairness of each process, each handler, the accept of each
connection, the accept thread's exit and `stop()`: operating system threads that can run
do run. Nothing is assumed of kills, resets, the stop request or server-side timeouts. In
`server_restart` client timeouts are off, so termination does not lean on them. `Latency`
and `Explanation` assume weak fairness of their one thread, which makes its two counting
loops end; `Terminates` is about the third, a `while` along the predecessors. `WireSpec` assumes it of the
reader only: a thread inside `recv` returns when there are bytes, an end or a timeout, and
goes on. Nobody has to send, to finish a frame or to close; `ReaderEnds` is about what
happens once the sender has.

## 4. Proofs

`CoordinatorProofs` proves, for any sets of keys, boots, ids, requests, HELLOs,
observations and epochs and any counter width:

* `CoordinatorInvariant`: `Spec => []Inv`;
* `TypeCorrect`, `IndexCorrect`, `CountersCorrect`, `SessionOrderCorrect`,
  `AuthorityCoversCorrect`: the invariants the run `coordinator` checks;
* `SessionMonotoneCorrect`, `EvidencePreservedCorrect`: its action properties;
* `CoordinatorImplementsStore`: `Spec => ImplementsStore`, every step a step of
  `EvidenceStore` or a stutter.

Assumptions: payloads have their types (`PayloadAssumption`), the counter width is
positive (`U32Assumption`), `None` is no request and no timestamp (`NoneAssumption`).

The inductive invariant `Inv` is the conjunction of the invariants above and `LogExact`.
None is inductive alone. `SessionOrder` needs `AuthorityCovers`: a new observation is
compared with `last_seq`, so all that the session accepted earlier must lie at or below
it; and that survives a restart because the new session's number is larger than any in
the log. `IndexExact` needs the type invariant and the id test of `ingest`. `LogExact`
ties the history to `accepted_`. The argument goes through a relation `Rolls` between the
registry before and after a step (each key keeps its session and does not fall back, or
moves to a later one), which `register_source`, `mark_restart` and the acceptance in
`validate` are each shown to satisfy; the log lemmas then use `Rolls` only. The counters
rest on lemmas about remainders.

`EvidenceStore` judges an observation by all that its session has brought, and knows no
`last_seq`, no set of ids, no counters and no index. The coordinator keeps one number per
key in place of that history. `CoordinatorImplementsStore` shows that this is enough, with
`HistoryInv`, which adds to `Inv` that every accepted id is in the log (`LogComplete`) and
that a `last_seq` other than 0 is a number its session has brought (`LastSeqEarned`). Then
a sequence number that is refused as old or repeated really is (`BroughtFacts`), the
reason retained with a rejection is a fault the observation has, and an observation
without a reason has no fault (`DecisionIsAFault`); a HELLO or a restart opens a session
under another envelope, or renews the one there is.

`WireProofs` proves, for any frame offsets, any set of decodable frames, any lengths a
misplaced read may find, and any number of timeouts and calls (`WireAssumption`: frames
are at least `MinFrame` bytes long, and a misplaced length that is believed is at least 8):

* `WireInvariant`, `WireTyped`: `WireInv` is `WireTypeOK` and `ReadPosition`, which says
  where the reader stands: what was delivered ends before the length or body that is being
  read, and the rest of a frame that is read from its start is what `need` says. The order
  of delivery is not inductive without it: that a frame is delivered after all earlier
  ones is a fact about positions;
* `FramesInOrderAlways` from that invariant;
* `WireImplementsChannel`: `WireSpec => ImplementsChannel`, with the frames written to
  their end as `sent`. A piece of a `send_all` completes at most one frame
  (`SendingIsOneByOne`), a decoded body is a `Deliver` (`DecodingDelivers`), and everything
  else stutters;
* `NoLoss`: the strengthening `LossInv` adds `InStep`: as long as no timeout has hit and
  nothing was reset, every decodable frame that was consumed was delivered, and the reader
  is where a frame starts, or at the end of the stream.

`ServerProofs` proves, for any processes, scripts, restart order, buffer capacity,
undecodable observations, with and without server timeouts and crashes
(`ScenarioAssumption`, `AckAssumption`: `None` is no ack):

* `NetInvariant`, `NetTyped`: `NetInv` is one conjunct per process (`ProcInv`), one for the
  main and accept threads (`MainInv`), and that the variables are functions. A step of a
  process or of its handler is `Local`, so only its own `ProcInv` has to be shown again
  (`LocalStep`). `MainInv` holds the reason for quiescence: there is no handler once
  `stop()` has joined them, and nothing is accepted any more;
* `ServerImplementsCoordinator`: `NetSpec => Spec`, from `StepOfCoordinator`: the only
  steps that touch the coordinator are a handler's call for a HELLO or an observation. All
  theorems of `CoordinatorProofs` therefore hold of the server, with any number of
  handlers;
* `ServerImplementsStore`: with `CoordinatorImplementsStore`, the server implements the
  evidence store;
* `QuiescentAfterStopAlways`;
* `AckHonestWithoutTimeouts`, for `MaxTimeouts = 0`: the invariant `TalkInv` says that
  between a process that waits and its handler there is at most one frame, the question or
  its answer (`OneAnswer`), that nothing is under way between calls (`Waits`), and that
  answers, under way and received, are true of the evidence (`Answers`), which is only
  ever added to (`HonestStays`). `server_late_ack` shows that a timeout breaks it;
* `DoneMeansAnsweredWithoutTimeouts`, for `MaxTimeouts = 0` and `ServerTimeout = FALSE`:
  `ServedInv` adds that a process that waits for acks has a handler, and one ack for each
  observation sent but the one it waits for.

It also proves `RollbackOnlyByUnansweredHello`, the action property
`RollbackNeedsUnansweredHello`, for any processes, scripts, capacity, timeouts and crashes,
if every boot of a worker starts after its boots of lower generations have ended
(`RestartOrder`: the scenario the property is about; without it a rollback needs no lost
HELLO). `RestartInv` says that a process says HELLO once and before anything else
(`SaysHelloOnce`), that a process which has started found the earlier boots ended
(`StartsInOrder`), and that the registry believes in a boot that has started
(`AuthorityStarted`). A step that falls back must be a handler's HELLO; its process is
earlier than the current one, so it has ended; and as its HELLO was still under way, it
ended unanswered.

And it proves, for any processes, capacity, timeouts, misreads, resets, kills and stops:

* `NoGapsInOrderedScripts`, if an observation that is sent more than once has its
  predecessors before it each time (`ResentInOrder`). `cmd_source` derives ids from a
  counter and sends nothing twice, so its scripts satisfy this. As long as the handler of a
  process reads whole frames, the script is handled up to some entry and what is in the
  buffer is the entries that follow, none left out (`InOrder`); and whatever was ingested
  came at some place of some script all of whose earlier entries were handled
  (`EvidenceSourced`). The second part survives the loss of the first;
* `AcksBoundedAlways`, if the observations of a process carry its worker and boot
  (`OwnScripts`, as `make_observation` stamps them). `AckInv` counts, for each decision:
  the answers with it that a process was given, plus those in its buffer and in its
  handler, are at most the observations of it that were so decided. An answer counts once wherever it is, so a shifted ack
  (`server_late_ack`) cannot break it. The HELLO's answer also says ACCEPTED and must be in
  before the first observation is sent (`HelloAnswered`).

`ArchiveProofs` proves, for any payloads, number of saves, ids that do not decode and width
of the length field:

* `ArchiveInvariant`: `ArchiveInv` joins the invariant of the coordinator with what the
  live coordinator shows at every moment (`EvidenceInv`), what each part of a copy may hold
  (`SnapInv`) and what the file is (`FileInv`);
* `SnapshotClosedCorrect`: the registry is copied first and the evidence last, and evidence
  only grows while the server runs, so an authority's `last_seq` and a duplicate's original
  that the evidence showed when the part was copied are still shown when it is copied
  itself. `SnapshotClosed` is not inductive because it speaks of a finished copy only;
* `LoadSoundCorrect`: the file is a prefix of the encoding of the last save
  (`FileInv`). Of such a prefix, or of one with a token damaged, `load_archive` returns
  that archive or an error: only its last token is a digest, and that of exactly the body
  (`DigestLast`), so a cut loses it and a damaged token disagrees with it. The length field
  is not needed for this, so it holds for any `LengthMod`, a wrapped length included;
* `SaveLoadsCorrect`, for bodies shorter than `LengthMod` and evidence that decodes
  (`Unreadable = {}`; `archive_unreadable` shows that the second is needed).

Both `LoadSoundCorrect` and `SaveLoadsCorrect` rest on `RoundTrip`: the parser, with the
positions of the body's parts (`BodyLayout`), finds in an encoding what was encoded. That
damage changes what the digest says is the model's assumption about SHA-256.

`LatencyProofs` proves, for any set of phase tables with natural times (`TracesAssumption`;
empty and inverted intervals included):

* `SweepExactCorrect`: `SweepInv` says that the sweep stands at a coordinate, has the
  greater ones before it, and that covered and exclusive times are the numbers of
  nanoseconds before it that some phase claims and that each phase wins. The code looks at
  the midpoint of a segment only; the step is right because no interval starts or ends
  inside a segment, so every nanosecond of it has the same claims as the midpoint;
* `CriticalPathLongestCorrect`: `ChainInv` is the correctness of the dynamic program: every
  visited phase has a path back along `pred` of length `chain`, and no sequence of visited
  phases that do not overlap and end with it is longer. `MarkInv` says that the walk has
  marked the first phases of the path of `best` and stands at the next one, so at its end
  it has marked all of it; and any set of phases that do not overlap has a last one;
* `NoDoubleCountCorrect`: the exclusive times add up to the covered time in every state
  (`SharesInv`), which is the number of claimed nanoseconds in the end. No run checks it by
  itself; the shares of an explanation rest on it.

`ExplanationProofs` proves, for any requests whose phase tables are among `Traces`
(`RequestsAssumption`):

* `ExplainedDecomposition`: what holds of the decomposition holds of every explanation's;
* `SharesAddUpCorrect`, from `SharesInv` and a sum over statements;
* `StructureIsSequentialCorrect`: apart from queueing and KV reuse, only phase shares speak
  of structure and correlation (`ToldByShares`). The phases on the critical path do not
  overlap, so they fit into the request; a phase that overlapped none of them could be
  added to a path that is longest. The two exceptions are needed, as a queue inside a longer
  phase shows;
* `TailMatchesExplanationCorrect`, for requests `reconstruct_trace` makes of any timeline
  (`Reconstructed`): `explain_one_tail` leaves out three phases by name, and agrees with
  `explain_request` only because those are instants in every reconstructed trace.

`TraceProofs` proves, for any bodies of evidence whose observations have distinct ids and
natural sequence numbers, epochs and times, if any (`PoolAssumption`), and in any order of
arrival:

* `OrderIndependentCorrect`: `reconstruct_trace` sorts by time, clock, sequence number and id.
  An insertion permutes what is there (`InsertPermutes`) and keeps it in order
  (`TimelineOrdered`), and a sequence of distinct ids has one order only (`OrderedUnique`):
  the first position where two of them differ would hold two observations each of which is
  before the other;
* `AuthorityTransitionsShownCorrect`, if epochs are positive (`PositiveEpochs`):
  `min_epoch` takes 0 for "not set yet", so evidence of an epoch 0 would be forgotten.
  Coordinators and sources count from 1 unless an option says otherwise;
* `LateEvidenceWidensCorrect` and `CompletionDecidesCorrect`, action properties. The first
  and the last observation of a type, by position in the timeline (`EndsOfType`), can only
  move outwards when one more arrives (`EndsWiden`), and the five phases run from a first
  to a last (`PairedPhases`);
* `CounterfactualBoundedCorrect`: a phase that stands beside all others has all its
  nanoseconds outside of them (`OutsideCount`), so what a rule takes off is never theirs
  (`SavedBounded`);
* `LateEvidenceOnlyAddsCorrect`, an action property, if the numbers in the fields of the
  evidence are naturals (`NaturalFields`; a negative `gpu_ms` or `cpu_ms` would lower a
  sum). The positions of the earlier timeline embed into those of the later one, with the
  same observation at each (`TimelineEmbeds`), and positions of a type into those of the
  type (`SamePositions`). So sums, counts and maxima over them do not fall
  (`FieldSumsGrow`, `CountGrows`, `LargestFieldGrows`) and the list of boots gets no
  shorter (`DistinctGrow`); phases are kept (`PhasesKept`, whose TOTAL may hang on the head
  of the timeline, `ArrivalKept`) and spans grow (`SpansGrow`). Each group of metrics is
  then one lemma. Sums are of naturals of any size: where u64 sums would wrap is left out.

And for fleets of any size, whose latencies are natural (`FleetsAssumption`):

* `PercentileRankCorrect`: the sort by value permutes and rises (`ByValueSorts`); in a
  rising sequence `r - 1` others at most are below the value at rank `r`, and `r` at least
  are not above it (`RankCounts`). `RankFacts` is about `Rank` as modelled: how a double
  rounds the product is part of the model (`RoundedUp`), which follows the code for up to
  1000 requests;
* `TailSeparatesCorrect`, from the same counts and the existence of a slowest request;
* `TalliesAgreeCorrect`, with `NaturalFields`: a sum may be taken group by group
  (`SumOfGroups`), so the groups of `correlate_by` by any key add up to the whole
  (`GroupTallies`, `GroupSums`); a window is a part of the positions, shifted
  (`WindowTallies`); what a replay adds besides retries is not negative
  (`SpeculationFacts`); and one of two parts has a 90th percentile at least that of the
  whole, by counting the requests below it (`PercentileOfParts`).

The invariants are `TraceInv` (what arrived is of the pool, and nothing twice) and
`FleetInv`; the rest is about operators. A fold of the community modules is a recursive
function over sets of positions: `FoldExists` shows that there is one, and then a fold is
the last of the values its prefixes have (`TimelineSteps`, `MinEpochSteps`,
`DistinctSteps` and the like), over which the lemmas go by induction on the position.

Induction over data is done for concrete sets: `LeastExists` (every nonempty set of
naturals has a least element, from `WFMin`), then `SetInduction` and `FiniteInduction` over
a set of numbers or a set of sets in place of a predicate (`FiniteSums`). The community
modules' `SumFunctionOnSet` is reached by exhibiting a function that satisfies its equation
(`SumExists`, `SumIsUnique`). What selects
observations of a trace is written as a set of positions, and a sum as one over positions,
because the provers have neither a definition nor a fact for `SelectSeq`; `Picked` uses it
where no proof looks.

The inductive invariants were checked by TLC before they were proved: those of the
server on the instances of `server_restart` and `server_idle`, `HistoryInv` on that of
`coordinator`, `ArchiveInv` on that of `archive`, `SweepInv`, `ChainInv` and `MarkInv` on that of
`latency` with times up to 3. The instance of `trace` satisfies `PositiveEpochs` and
`NaturalFields`.

Model-checked only: liveness (`StopReturns`, `ProcessesEnd`, `ReaderEnds`, `Terminates`),
as fairness and ENABLED are out of the prover's reach. All other properties of the
passing runs are proved, under the hypotheses named above.

## 5. Checking

    tlc -workers 2 -config MCCoordinator.cfg MCCoordinator
    tlapm CoordinatorProofs.tla
    tlapm WireProofs.tla
    tlapm ServerProofs.tla
    tlapm ArchiveProofs.tla
    tlapm FiniteSums.tla
    tlapm TraceProofs.tla
    tlapm LatencyProofs.tla
    tlapm ExplanationProofs.tla

The runs with their module, configuration and expected result are in `PROJECT.json`. The
passing runs take between a few seconds and a few minutes each.

`Coordinator`, `CoordinatorServer` and `Wire` have a type invariant in their runs. The
other modules have none: their properties read the whole state, and TLC stops at a value
of another kind.

## 6. Not modelled

* STATUS and PING: no state change, and nothing in the repository sends them. The
  unlocked reads of the totals they would report are listed as a hazard.
* The bits of bytes: frame headers, CRC, integer and string encoding, JSON, SHA-256,
  digests. `Wire` has the positions of bytes and takes the checksum to tell a frame from
  anything else; a digest is a function of the evidence.
* Bodies of 4 GiB and more, whose length is cut to 32 bits: `LengthMod` carries the cast,
  the runs keep it above the sizes they build. For any width `LoadSoundCorrect` excludes
  a wrong archive, and `SaveLoadsCorrect` needs the body to fit.
* `restart_boot`, which no command calls: a restart is a new process with a later boot.
* The views of `obscli`, its argument parsing and tokenizing, and the multiprocess proof,
  which drives `serve` and `source` as the server runs do.
* Mean, standard deviation, severities as fractions, the conversion of milliseconds to
  nanoseconds, and all wording.
* The kernels and CUDA calls: `CudaProof` takes four times as given.

## 7. How it may grow

* The server over bytes: `CoordinatorServer` with its frame queues replaced by two `Wire`s
  per connection. `WireImplementsChannel` is the step that makes the queues an
  abstraction of them, but for the acks of a slow link.
