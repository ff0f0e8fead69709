---------------------------- MODULE EvidenceStore ----------------------------
(***************************************************************************)
(* What the coordinator promises whoever sends it evidence.  A key has at  *)
(* most one open session, and evidence is judged by the whole history of   *)
(* that session: the envelope it was opened with and every sequence number *)
(* it has brought.  Evidence without a fault is admitted; any other is     *)
(* kept among the refused, with a fault it really has as the reason.       *)
(*                                                                         *)
(* The coordinator has no such history to look at: of the evidence it      *)
(* accepted it keeps one number per key, last_seq, and the set of ids.     *)
(***************************************************************************)
EXTENDS Integers, Sequences

CONSTANTS
  Keys,         \* (source, worker) pairs
  Observations  \* evidence that may be offered

VARIABLES
  session,  \* the open session of each key: its number, envelope and epoch
  log,      \* the evidence admitted, in order, each with its session number
  refused   \* the evidence refused, in order, each with the reason

storevars == <<session, log, refused>>

Envelope(x) == <<x.boot, x.src_gen, x.obs_gen>>

\* What the open session of key k has brought.
Brought(k) ==
  {log[i].obs : i \in {j \in 1..Len(log) : /\ log[j].obs.key = k
                                           /\ log[j].session = session[k].number}}

\* What is wrong with o, given the open session of its key.
SessionFaults(o) ==
  LET s == session[o.key] IN
  {r \in {"STALE_EPOCH", "STALE_SOURCE_GENERATION", "STALE_OBSERVATION_GENERATION",
          "STALE_BOOT", "OUT_OF_ORDER_SEQUENCE", "DUPLICATE_SEQUENCE"} :
     \/ r = "STALE_EPOCH" /\ o.epoch < s.epoch
     \/ r = "STALE_SOURCE_GENERATION" /\ o.src_gen # s.src_gen
     \/ r = "STALE_OBSERVATION_GENERATION" /\ o.obs_gen # s.obs_gen
     \/ r = "STALE_BOOT" /\ o.boot # s.boot
     \/ r = "OUT_OF_ORDER_SEQUENCE" /\ \E p \in Brought(o.key) : p.seq > o.seq
     \/ r = "DUPLICATE_SEQUENCE" /\ o.seq # 0 /\ \E p \in Brought(o.key) : p.seq = o.seq}

\* An id that was used is named before anything else.
Faults(o) ==
  IF \E i \in 1..Len(log) : log[i].obs.id = o.id THEN {"DUPLICATE_ID"}
  ELSE IF o.key \notin DOMAIN session THEN {"UNREGISTERED_SOURCE"}
  ELSE SessionFaults(o)

-----------------------------------------------------------------------------

StoreInit == DOMAIN session = {} /\ log = <<>> /\ refused = <<>>

Admit(o) ==
  /\ Faults(o) = {}
  /\ log' = Append(log, [obs |-> o, session |-> session[o.key].number])
  /\ UNCHANGED <<session, refused>>

Refuse(o) ==
  /\ \E r \in Faults(o) : refused' = Append(refused, [obs |-> o, reason |-> r])
  /\ UNCHANGED <<session, log>>

\* The next session of key k has another envelope than the one it replaces.
Opened(k) ==
  IF k \in DOMAIN session
  THEN /\ session'[k].number = session[k].number + 1
       /\ Envelope(session'[k]) # Envelope(session[k])
  ELSE session'[k].number = 0

\* The session of key k goes on, perhaps under another epoch.
Renewed(k) ==
  /\ k \in DOMAIN session
  /\ session'[k].number = session[k].number
  /\ Envelope(session'[k]) = Envelope(session[k])

Hello(k) ==
  /\ DOMAIN session' = DOMAIN session \cup {k}
  /\ \A x \in DOMAIN session \ {k} : session'[x] = session[x]
  /\ Opened(k) \/ Renewed(k)
  /\ UNCHANGED <<log, refused>>

\* A reset: sessions, history and refusals are all gone.
Forget == StoreInit'

StoreNext ==
  \/ \E o \in Observations : Admit(o) \/ Refuse(o)
  \/ \E k \in Keys : Hello(k)
  \/ Forget

StoreSpec == StoreInit /\ [][StoreNext]_storevars
=============================================================================
