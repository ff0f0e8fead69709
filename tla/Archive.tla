------------------------------ MODULE Archive ------------------------------
(***************************************************************************)
(* Persistence (persistence.cpp): save_archive and load_archive, step by   *)
(* step, beside a coordinator that may still be ingesting (serve and ingest*)
(* of obscli save at rest; build_archive does not ask for it).  Writes may *)
(* fail.                                                                   *)
(*                                                                         *)
(* A file is a sequence of tokens, one per item the writer emits: the      *)
(* length of the body, the body, and the SHA-256 of the body.  Lengths are *)
(* counted in tokens; the length field keeps the width of the code's u32   *)
(* (LengthMod).  A digest is the value it is computed from (no             *)
(* collisions).  The four replay digests are one token.                    *)
(***************************************************************************)
EXTENDS Coordinator, SequencesExt

CONSTANTS
  LengthMod,    \* 2^32 in the code: the modulus of the u32 body length
  Unreadable,   \* ids of observations that encode but do not decode
                \* (a non-finite f64 field); they never arrive over TCP
  MaxSaves      \* bound on the number of saves

ASSUME ArchiveAssumption ==
  /\ LengthMod \in Nat \ {0}
  /\ Unreadable \subseteq ObsIds
  /\ MaxSaves \in Nat

VARIABLES
  saver,     \* where the thread that saves is
  snap,      \* the ArchiveContents under construction
  file,      \* the bytes at path
  pending,   \* bytes in the stream buffer, flushed when the stream closes
  result,    \* what the last save returned
  saves,     \* how many saves have begun
  written,   \* history variable: the contents the last stream was given
  faulty     \* history variable: the last flush failed

avars == <<saver, snap, file, pending, result, saves, written, faulty>>
allvars == <<vars, avars>>

Token(kind, value) == [kind |-> kind, value |-> value]
Err == [error |-> "Err"]   \* Result<ArchiveContents>::Err

EmptySnap == [epoch |-> 0, registry |-> EmptyMap, accepted |-> EmptyMap, stale |-> <<>>]

-----------------------------------------------------------------------------
(* The format *)

RegistryTokens(reg) ==
  [i \in 1..Cardinality(DOMAIN reg) |->
     LET k == SetToSeq(DOMAIN reg)[i] IN Token("authority", <<k, reg[k]>>)]

AcceptedTokens(acc) ==
  [i \in 1..Cardinality(DOMAIN acc) |-> Token("obs", acc[SetToSeq(DOMAIN acc)[i]])]

StaleTokens(hist) == [i \in 1..Len(hist) |-> Token("stale", hist[i])]

\* replay() of the accepted observations, as its digests see them.
Replay(acc) == Token("digests", {acc[id] : id \in DOMAIN acc})

\* The body save_archive writes.
Body(a) ==
  <<Token("magic", "SOBS"), Token("version", 1), Token("epoch", a.epoch),
    Token("count", Cardinality(DOMAIN a.registry))>>
  \o RegistryTokens(a.registry)
  \o <<Token("count", Cardinality(DOMAIN a.accepted))>> \o AcceptedTokens(a.accepted)
  \o <<Token("count", Len(a.stale))>> \o StaleTokens(a.stale)
  \o <<Replay(a.accepted)>>

\* The whole file.
Encode(a) ==
  LET b == Body(a) IN
  <<Token("length", Len(b) % LengthMod)>> \o b \o <<Token("sha", b)>>

\* The readers of load_archive: n entries of one kind from position i on.
EntriesOK(b, i, n, kind) ==
  /\ i + n - 1 <= Len(b)
  /\ \A j \in i..(i + n - 1) : b[j].kind = kind

Decodable(o) == o.id \notin Unreadable

\* load_archive after the checksum test: the body, item by item.
ParseBody(b) ==
  LET nreg   == b[4].value
      nobs   == b[5 + nreg].value
      nstale == b[6 + nreg + nobs].value
      obs    == SubSeq(b, 6 + nreg, 5 + nreg + nobs)
      hist   == SubSeq(b, 7 + nreg + nobs, 6 + nreg + nobs + nstale)
      acc    == [id \in {obs[i].value.id : i \in 1..nobs} |->
                   (CHOOSE t \in ToSet(obs) : t.value.id = id).value]
  IN  IF \/ b[1] # Token("magic", "SOBS")
         \/ b[2] # Token("version", 1)
         \/ ~EntriesOK(b, 5, nreg, "authority")
         \/ ~EntriesOK(b, 6 + nreg, nobs, "obs")
         \/ \E i \in 1..nobs : ~Decodable(obs[i].value)
         \/ Cardinality(DOMAIN acc) # nobs        \* duplicate observation id
         \/ ~EntriesOK(b, 7 + nreg + nobs, nstale, "stale")
         \/ \E i \in 1..nstale : ~Decodable(hist[i].value.obs)
         \/ Len(b) # 7 + nreg + nobs + nstale     \* trailing garbage
         \/ b[Len(b)] # Replay(acc)               \* replay mismatch
      THEN Err
      ELSE [epoch |-> b[3].value,
            registry |-> [k \in {b[i].value[1] : i \in 5..(4 + nreg)} |->
                            (CHOOSE t \in {b[i] : i \in 5..(4 + nreg)} : t.value[1] = k).value[2]],
            accepted |-> acc,
            stale |-> [i \in 1..nstale |-> hist[i].value]]

\* Mutant: the checksum is not compared.
LoadUnchecked(f) ==
  IF f = <<>> THEN Err
  ELSE IF f[1].kind # "length" THEN Err
  ELSE IF Len(f) # f[1].value + 2 THEN Err
  ELSE ParseBody(SubSeq(f, 2, Len(f) - 1))

\* load_archive with verify_replay: size, checksum, then the body.
Load(f) ==
  IF f = <<>> THEN Err
  ELSE IF f[1].kind # "length" THEN Err
  ELSE IF Len(f) # f[1].value + 2 THEN Err
  ELSE IF f[Len(f)] # Token("sha", SubSeq(f, 2, Len(f) - 1)) THEN Err
  ELSE ParseBody(SubSeq(f, 2, Len(f) - 1))

-----------------------------------------------------------------------------
(* Saving *)

ArchiveInit ==
  /\ Init
  /\ saver = "idle"
  /\ snap = EmptySnap
  /\ file = <<>>
  /\ pending = <<>>
  /\ result = "none"
  /\ saves = 0
  /\ written = EmptySnap
  /\ faulty = FALSE

SaverAt(from, to) == saver = from /\ saver' = to

\* build_archive reads epoch_ without the lock ...
SnapEpoch ==
  /\ SaverAt("idle", "registry")
  /\ saves < MaxSaves
  /\ saves' = saves + 1
  /\ snap' = [EmptySnap EXCEPT !.epoch = epoch]
  /\ result' = "none"
  /\ UNCHANGED <<vars, file, pending, written, faulty>>

\* ... then copies the registry, the stale history and the accepted
\* observations, taking the lock three times.
SnapRegistry ==
  /\ SaverAt("registry", "stale")
  /\ snap' = [snap EXCEPT !.registry = registry]
  /\ UNCHANGED <<vars, file, pending, result, saves, written, faulty>>

SnapStale ==
  /\ SaverAt("stale", "accepted")
  /\ snap' = [snap EXCEPT !.stale = stale]
  /\ UNCHANGED <<vars, file, pending, result, saves, written, faulty>>

\* Mutant: the evidence is taken from the request index.
SnapAcceptedByRequest ==
  /\ SaverAt("accepted", "open")
  /\ snap' = [snap EXCEPT !.accepted =
                [id \in {i \in DOMAIN accepted : accepted[i].request # None} |-> accepted[id]]]
  /\ UNCHANGED <<vars, file, pending, result, saves, written, faulty>>

SnapAccepted ==
  /\ SaverAt("accepted", "open")
  /\ snap' = [snap EXCEPT !.accepted = accepted]
  /\ UNCHANGED <<vars, file, pending, result, saves, written, faulty>>

\* Mutant: the bytes of an earlier save stay behind the new ones.
OpenAppend ==
  /\ SaverAt("open", "write")
  /\ UNCHANGED <<vars, snap, file, pending, result, saves, written, faulty>>

\* The stream opens the path itself, truncating what was there.
OpenTruncate ==
  /\ saver = "open"
  /\ \/ /\ saver' = "write"
        /\ file' = <<>>
        /\ faulty' = FALSE
        /\ UNCHANGED <<snap, result>>
     \/ /\ saver' = "idle"                  \* cannot open for write
        /\ result' = "Err"
        /\ snap' = EmptySnap
        /\ UNCHANGED <<file, faulty>>
  /\ UNCHANGED <<vars, pending, saves, written>>

\* f.write: some prefix reaches the file, the rest stays in the stream
\* buffer; or the write fails part way and save_archive returns an error.
WriteBody ==
  /\ saver = "write"
  /\ written' = snap
  /\ \E n \in 0..Len(Encode(snap)) :
       /\ file' = file \o SubSeq(Encode(snap), 1, n)
       /\ \/ /\ saver' = "close"
             /\ pending' = SubSeq(Encode(snap), n + 1, Len(Encode(snap)))
             /\ result' = "Ok"
             /\ UNCHANGED snap
          \/ /\ n < Len(Encode(snap))
             /\ saver' = "idle"
             /\ result' = "Err"
             /\ snap' = EmptySnap
             /\ UNCHANGED pending
  /\ UNCHANGED <<vars, saves, faulty>>

\* The stream is destroyed after the last test of its state: a flush that
\* fails now is reported to nobody.
CloseStream ==
  /\ SaverAt("close", "idle")
  /\ \/ file' = file \o pending /\ UNCHANGED faulty
     \/ pending # <<>> /\ file' = file /\ faulty' = TRUE
  /\ pending' = <<>>
  /\ snap' = EmptySnap
  /\ UNCHANGED <<vars, result, saves, written>>

\* The process dies, in a save or not.  The next one starts with an empty
\* coordinator (an archive is never loaded into one) and finds the file as
\* far as it was written.
Crash ==
  /\ epoch' = 1
  /\ registry' = EmptyMap /\ accepted' = EmptyMap /\ by_request' = EmptyMap
  /\ stale' = <<>> /\ log' = <<>>
  /\ accepted_total' = 0 /\ stale_total' = 0 /\ duplicate_total' = 0
  /\ saver' = "idle"
  /\ snap' = EmptySnap
  /\ pending' = <<>>
  /\ result' = "none"
  /\ UNCHANGED <<file, saves, written, faulty>>

\* What damage makes of a file: nothing, one damaged token, or a cut.
Damaged(f) ==
  {f} \cup {[f EXCEPT ![i] = Token("damaged", 0)] : i \in 1..Len(f)}
      \cup {SubSeq(f, 1, i - 1) : i \in 1..Len(f)}

\* Handlers go on using the coordinator (nothing calls reset while serving).
CoordinatorStep ==
  /\ \/ \E h \in Hellos : RegisterHello(h)
     \/ \E o \in Observations : Ingest(o)
  /\ UNCHANGED avars

SaveStep == \/ SnapEpoch \/ SnapRegistry \/ SnapStale \/ SnapAccepted
            \/ OpenTruncate \/ WriteBody \/ CloseStream

ArchiveNext == SaveStep \/ Crash \/ CoordinatorStep

ArchiveSpec == ArchiveInit /\ [][ArchiveNext]_allvars

-----------------------------------------------------------------------------
(* Properties *)

\* build_archive takes the lock once per part, so an archive may mix states of
\* the coordinator; the order of the parts keeps it closed.  The archived
\* registry claims no more than the archived evidence shows (last_seq was
\* reached by an archived observation of that boot), and every archived
\* duplicate has its original in the archive.
SnapshotClosed ==
  saver \in {"open", "write", "close"} =>
    /\ \A k \in DOMAIN snap.registry :
         LET a == snap.registry[k] IN
         a.last_seq # 0 => \E id \in DOMAIN snap.accepted :
                             LET o == snap.accepted[id] IN
                             o.key = k /\ o.boot = a.boot /\ o.seq = a.last_seq
    /\ \A i \in 1..Len(snap.stale) :
         snap.stale[i].reason = "DUPLICATE_ID" =>
           snap.stale[i].obs.id \in DOMAIN snap.accepted

\* What load_archive returns is what the last save was given, whole, or an
\* error: not a part of it, not a mixture with an earlier archive, not a
\* damaged value, wherever a crash or a failed write left the file, and
\* whatever damage was done to it.
LoadSound == \A f \in Damaged(file) : Load(f) \in {Err, written}

\* A save that returned Ok (and has closed its stream) leaves a file that
\* loads and gives back every item it was made from, unless the last flush,
\* which save_archive does not see, failed.
SaveLoads == saver = "idle" /\ result = "Ok" /\ ~faulty => Load(file) = written
=============================================================================
