---------------------------- MODULE ServerProofs ----------------------------
(***************************************************************************)
(* Proofs about the server and its source processes, for any processes,    *)
(* scripts, buffer capacity and bounds: every step of the server is a step *)
(* of the coordinator, so what CoordinatorProofs shows of the coordinator  *)
(* holds with any number of handler threads; the coordinator is at rest    *)
(* once stop() has returned; and acknowledgements are honest and complete  *)
(* where no receive timeout hits.                                          *)
(*                                                                         *)
(* The second half is about what the connections deliver, with timeouts,   *)
(* misreads, resets, kills and stops.  If every boot of a worker is        *)
(* started after the boots of lower generations have ended, the authority  *)
(* of the worker can fall back only by the HELLO of a process that ended   *)
(* unanswered; the evidence has no holes; and no source counts more        *)
(* acceptances than there are.                                             *)
(***************************************************************************)
EXTENDS CoordinatorServer, CoordinatorProofs

-----------------------------------------------------------------------------
(* Sequences of frames *)

\* What the queues are changed by keeps them sequences of frames.
LEMMA QueueFacts ==
  ASSUME NEW S, NEW q \in Seq(S)
  PROVE  /\ Len(q) \in Nat
         /\ \A x \in S : /\ Append(q, x) \in Seq(S)
                         /\ Len(Append(q, x)) = Len(q) + 1
                         /\ q = <<>> => Append(q, x)[1] = x
         /\ q # <<>> => /\ Head(q) \in S /\ Head(q) = q[1]
                        /\ Tail(q) \in Seq(S)
                        /\ Len(q) >= 1 /\ Len(Tail(q)) = Len(q) - 1
         /\ Len(q) = 0 <=> q = <<>>
OBVIOUS

\* The entries of a script are observations.
LEMMA ScriptEntry ==
  ASSUME NEW p \in Procs, NEW i \in 1..Len(Script[p])
  PROVE  Script[p][i] \in Observations
BY ScenarioAssumption

-----------------------------------------------------------------------------
(* Types, and what the server can still do once stop() has returned *)

Acks == [obs : Observations, decision : Reasons \cup {"ACCEPTED"}]

\* The nine per-process variables are functions on Procs.
Functions ==
  /\ pc = [p \in Procs |-> pc[p]] /\ sent = [p \in Procs |-> sent[p]]
  /\ timeouts = [p \in Procs |-> timeouts[p]] /\ acks = [p \in Procs |-> acks[p]]
  /\ up = [p \in Procs |-> up[p]] /\ down = [p \in Procs |-> down[p]]
  /\ conn = [p \in Procs |-> conn[p]] /\ reply = [p \in Procs |-> reply[p]]
  /\ aligned = [p \in Procs |-> aligned[p]]

\* One process and its connection.  Besides the types: a process that was not
\* started has no connection, one that has not said HELLO has sent nothing,
\* and one that waits for an ack has sent an observation.
ProcInv(p) ==
  /\ pc[p] \in {"start", "connected", "hello", "ready", "await", "done", "failed", "dead"}
  /\ sent[p] \in 0..Len(Script[p])
  /\ timeouts[p] \in 0..MaxTimeouts
  /\ acks[p] \in Seq(Acks)
  /\ up[p] \in Seq(Frames) /\ Len(up[p]) <= Cap
  /\ down[p] \in Seq(AckFrames) /\ Len(down[p]) <= Cap
  /\ conn[p] \in {"none", "backlog", "reading", "replying", "probing", "closed"}
  /\ reply[p] \in AckFrames \cup {None}
  /\ conn[p] = "replying" <=> reply[p] # None
  /\ aligned[p] \in BOOLEAN
  /\ pc[p] = "start" => conn[p] = "none"
  /\ pc[p] \in {"start", "connected"} => up[p] = <<>>
  /\ pc[p] = "await" => sent[p] > 0

\* The main and the accept thread.  When stop() has returned there is no
\* handler thread, and there will be none.
MainInv ==
  /\ main \in {"serving", "stopping", "unlistened", "joining", "stopped"}
  /\ acceptor \in {"accepting", "exited"}
  /\ main = "stopped" => \A p \in Procs : conn[p] \in {"none", "closed"}

NetInv == Functions /\ MainInv /\ \A p \in Procs : ProcInv(p)

\* The invariant has the types in it.
LEMMA NetInvTypes == NetInv => NetTypeOK
<1> SUFFICES ASSUME NetInv PROVE NetTypeOK OBVIOUS
<1>1. \A p \in Procs : Len(Script[p]) \in Nat
  <2> SUFFICES ASSUME NEW p \in Procs PROVE Len(Script[p]) \in Nat OBVIOUS
  <2>1. Script[p] \in Seq(Observations) BY ScenarioAssumption
  <2> QED BY <2>1
<1>2. /\ pc \in [Procs -> {"start", "connected", "hello", "ready", "await"} \cup Ended]
      /\ sent \in [Procs -> Nat] /\ timeouts \in [Procs -> 0..MaxTimeouts]
      /\ acks \in [Procs -> Seq(Acks)] /\ up \in [Procs -> Seq(Frames)]
      /\ down \in [Procs -> Seq(AckFrames)] /\ reply \in [Procs -> AckFrames \cup {None}]
      /\ conn \in [Procs -> {"none", "backlog", "reading", "replying", "probing", "closed"}]
      /\ aligned \in [Procs -> BOOLEAN]
  <2> USE DEF NetInv, Functions, ProcInv
  <2>1. pc \in [Procs -> {"start", "connected", "hello", "ready", "await"} \cup Ended]
    BY DEF Ended
  <2>2. sent \in [Procs -> Nat] BY <1>1
  <2>3. timeouts \in [Procs -> 0..MaxTimeouts] OBVIOUS
  <2>4. acks \in [Procs -> Seq(Acks)] OBVIOUS
  <2>5. up \in [Procs -> Seq(Frames)] OBVIOUS
  <2>6. down \in [Procs -> Seq(AckFrames)] OBVIOUS
  <2>7. reply \in [Procs -> AckFrames \cup {None}] OBVIOUS
  <2>8. conn \in [Procs -> {"none", "backlog", "reading", "replying", "probing", "closed"}]
    OBVIOUS
  <2>9. aligned \in [Procs -> BOOLEAN] OBVIOUS
  <2> QED BY <2>1, <2>2, <2>3, <2>4, <2>5, <2>6, <2>7, <2>8, <2>9
<1>3. \A p \in Procs : /\ sent[p] <= Len(Script[p]) /\ Len(up[p]) <= Cap /\ Len(down[p]) <= Cap
                       /\ (conn[p] = "replying" <=> reply[p] # None)
  BY <1>1 DEF NetInv, ProcInv
<1>4. /\ main \in {"serving", "stopping", "unlistened", "joining", "stopped"}
      /\ acceptor \in {"accepting", "exited"}
  BY DEF NetInv, MainInv
<1> QED BY <1>2, <1>3, <1>4 DEF NetTypeOK, Acks

\* The initial state satisfies the invariant.
LEMMA NetInvInit == NetInit => NetInv
<1> SUFFICES ASSUME NetInit PROVE NetInv OBVIOUS
<1>1. Functions BY DEF NetInit, Functions
<1>2. MainInv BY DEF NetInit, MainInv
<1>3. ASSUME NEW p \in Procs PROVE ProcInv(p)
  <2>1. Script[p] \in Seq(Observations) BY ScenarioAssumption
  <2>2. Len(Script[p]) \in Nat BY <2>1
  <2>3. /\ <<>> \in Seq(Frames) /\ <<>> \in Seq(AckFrames) /\ <<>> \in Seq(Acks)
        /\ Len(<<>>) = 0
    OBVIOUS
  <2> QED BY <2>2, <2>3, ScenarioAssumption DEF NetInit, ProcInv
<1> QED BY <1>1, <1>2, <1>3 DEF NetInv

\* The frames and acks that are sent have their types.
LEMMA FrameTypes ==
  /\ \A p \in Procs : HelloFrame(p) \in Frames
  /\ \A o \in Observations : ObsFrame(o) \in Frames
  /\ Bye \in Frames
  /\ HelloAck \in AckFrames /\ HelloAck # None
  /\ \A d \in Reasons \cup {"ACCEPTED"} : ObsAck(d) \in AckFrames /\ ObsAck(d) # None
  /\ \A a \in AckFrames : a.decision \in Reasons \cup {"ACCEPTED"}
<1>1. /\ \A p \in Procs : HelloFrame(p) \in Frames
      /\ \A o \in Observations : ObsFrame(o) \in Frames
      /\ Bye \in Frames
  BY DEF Frames
<1>2. HelloAck \in AckFrames /\ \A d \in Reasons \cup {"ACCEPTED"} : ObsAck(d) \in AckFrames
  BY DEF AckFrames
<1>3. \A a \in AckFrames : a.decision \in Reasons \cup {"ACCEPTED"}
  BY DEF AckFrames, HelloAck, ObsAck
<1> QED BY <1>1, <1>2, <1>3, AckAssumption

\* A step of one process or of its handler.
Local(p) ==
  /\ pc' = [pc EXCEPT ![p] = pc'[p]] /\ sent' = [sent EXCEPT ![p] = sent'[p]]
  /\ timeouts' = [timeouts EXCEPT ![p] = timeouts'[p]] /\ acks' = [acks EXCEPT ![p] = acks'[p]]
  /\ up' = [up EXCEPT ![p] = up'[p]] /\ down' = [down EXCEPT ![p] = down'[p]]
  /\ conn' = [conn EXCEPT ![p] = conn'[p]] /\ reply' = [reply EXCEPT ![p] = reply'[p]]
  /\ aligned' = [aligned EXCEPT ![p] = aligned'[p]]

\* The steps of processes, handlers and connections are of that kind.
LEMMA StepsAreLocal ==
  ASSUME Functions, NEW p \in Procs,
         ClientStep(p) \/ HandlerStep(p) \/ Accept(p) \/ Kill(p) \/ ConnectionReset(p)
  PROVE  Local(p)
<1>1. CASE ClientStep(p)
  <2> USE DEF Functions, Local, Goto
  <2>1. CASE Connect(p) BY <2>1 DEF Connect
  <2>2. CASE SendHello(p) BY <2>2 DEF SendHello
  <2>3. CASE RecvHelloAck(p) BY <2>3 DEF RecvHelloAck
  <2>4. CASE HelloUnanswered(p) BY <2>4 DEF HelloUnanswered
  <2>5. CASE SendObservation(p) BY <2>5 DEF SendObservation
  <2>6. CASE RecvAck(p) BY <2>6 DEF RecvAck
  <2>7. CASE AckUnanswered(p) BY <2>7 DEF AckUnanswered
  <2>8. CASE Disconnect(p) BY <2>8 DEF Disconnect
  <2> QED BY <1>1, <2>1, <2>2, <2>3, <2>4, <2>5, <2>6, <2>7, <2>8 DEF ClientStep
<1>2. CASE HandlerStep(p)
  <2> USE DEF Functions, Local, SetConn, Consume
  <2>1. CASE HandleHello(p) BY <2>1 DEF HandleHello
  <2>2. CASE HandleObs(p) BY <2>2 DEF HandleObs
  <2>3. CASE HandleUndecodable(p) BY <2>3 DEF HandleUndecodable
  <2>4. CASE HandleBye(p) BY <2>4 DEF HandleBye
  <2>5. CASE Reply(p) BY <2>5 DEF Reply
  <2>6. CASE HandleEof(p) BY <2>6 DEF HandleEof
  <2>7. CASE HandleIdle(p) BY <2>7 DEF HandleIdle
  <2>8. CASE Probe(p) BY <2>8 DEF Probe
  <2>9. CASE HandleMisread(p) BY <2>9 DEF HandleMisread
  <2> QED BY <1>2, <2>1, <2>2, <2>3, <2>4, <2>5, <2>6, <2>7, <2>8, <2>9 DEF HandlerStep
<1>3. CASE Accept(p) BY <1>3 DEF Functions, Local, Accept, SetConn
<1>4. CASE Kill(p) BY <1>4 DEF Functions, Local, Kill, Goto
<1>5. CASE ConnectionReset(p) BY <1>5 DEF Functions, Local, ConnectionReset
<1> QED BY <1>1, <1>2, <1>3, <1>4, <1>5

\* Such a step has to keep the invariant of its own process only.
LEMMA LocalStep ==
  ASSUME NetInv, NEW p \in Procs, Local(p), ProcInv(p)', MainInv'
  PROVE  NetInv'
<1>1. Functions' BY DEF NetInv, Functions, Local
<1>2. ASSUME NEW q \in Procs PROVE ProcInv(q)'
  <2>1. CASE q = p BY <2>1
  <2>2. CASE q # p
    <3>1. /\ pc'[q] = pc[q] /\ sent'[q] = sent[q] /\ timeouts'[q] = timeouts[q]
          /\ acks'[q] = acks[q] /\ up'[q] = up[q] /\ down'[q] = down[q]
          /\ conn'[q] = conn[q] /\ reply'[q] = reply[q] /\ aligned'[q] = aligned[q]
      BY <2>2 DEF NetInv, Functions, Local
    <3> QED BY <3>1 DEF NetInv, ProcInv
  <2> QED BY <2>1, <2>2
<1> QED BY <1>1, <1>2 DEF NetInv

\* What is known of a process before a step of it.
LEMMA Before ==
  ASSUME NetInv, NEW p \in Procs
  PROVE  /\ Functions /\ MainInv /\ ProcInv(p)
         /\ Len(up[p]) \in Nat /\ Len(down[p]) \in Nat /\ Len(Script[p]) \in Nat
         /\ Cap \in Nat \ {0} /\ MaxTimeouts \in Nat
         /\ <<>> \in Seq(Frames) /\ Len(<<>>) = 0
         /\ up[p] # <<>> => Tail(up[p]) \in Seq(Frames) /\ Len(Tail(up[p])) = Len(up[p]) - 1
         /\ down[p] # <<>> => /\ Head(down[p]) \in AckFrames
                              /\ Tail(down[p]) \in Seq(AckFrames)
                              /\ Len(Tail(down[p])) = Len(down[p]) - 1
<1>1. Script[p] \in Seq(Observations) BY ScenarioAssumption
<1>2. up[p] \in Seq(Frames) /\ down[p] \in Seq(AckFrames) BY DEF NetInv, ProcInv
<1>3. Len(up[p]) \in Nat /\ Len(down[p]) \in Nat /\ Len(Script[p]) \in Nat
  BY <1>1, <1>2, QueueFacts
<1>4. up[p] # <<>> => Tail(up[p]) \in Seq(Frames) /\ Len(Tail(up[p])) = Len(up[p]) - 1
  BY <1>2, QueueFacts
<1>5. down[p] # <<>> => /\ Head(down[p]) \in AckFrames
                        /\ Tail(down[p]) \in Seq(AckFrames)
                        /\ Len(Tail(down[p])) = Len(down[p]) - 1
  BY <1>2, QueueFacts
<1>6. <<>> \in Seq(Frames) /\ Len(<<>>) = 0 OBVIOUS
<1> QED BY <1>3, <1>4, <1>5, <1>6, ScenarioAssumption DEF NetInv

\* What a source process does keeps the invariant.
LEMMA ClientKeepsNetInv ==
  ASSUME NetInv, NEW p \in Procs, ClientStep(p)
  PROVE  NetInv'
<1>1. Local(p) BY StepsAreLocal DEF NetInv
<1>2. CASE Connect(p)
  <2>8. ProcInv(p)' BY Before, <1>2 DEF Functions, ProcInv, Connect, Goto, Ended
  <2>9. MainInv' BY Before, <1>2 DEF MainInv, ProcInv, Functions, Connect, Goto, Ended
  <2> QED BY <1>1, <2>8, <2>9, LocalStep
<1>3. CASE SendHello(p)
  <2>1. up[p] = <<>> /\ up[p] \in Seq(Frames) BY Before, <1>3 DEF ProcInv, SendHello
  <2>2. Append(up[p], HelloFrame(p)) \in Seq(Frames) /\ Len(Append(up[p], HelloFrame(p))) = 1
    BY <2>1, FrameTypes, QueueFacts
  <2>8. ProcInv(p)' BY Before, <2>2, <1>3 DEF Functions, ProcInv, SendHello, Goto, Ended
  <2>9. MainInv' BY Before, <1>3 DEF MainInv, ProcInv, Functions, SendHello, Goto, Ended
  <2> QED BY <1>1, <2>8, <2>9, LocalStep
<1>4. CASE RecvHelloAck(p)
  <2>8. ProcInv(p)' BY Before, <1>4 DEF Functions, ProcInv, RecvHelloAck, Goto, Ended
  <2>9. MainInv' BY Before, <1>4 DEF MainInv, ProcInv, Functions, RecvHelloAck, Goto, Ended
  <2> QED BY <1>1, <2>8, <2>9, LocalStep
<1>5. CASE HelloUnanswered(p)
  <2>8. ProcInv(p)' BY Before, <1>5 DEF Functions, ProcInv, HelloUnanswered, Goto, Ended
  <2>9. MainInv' BY Before, <1>5 DEF MainInv, ProcInv, Functions, HelloUnanswered, Goto, Ended
  <2> QED BY <1>1, <2>8, <2>9, LocalStep
<1>6. CASE SendObservation(p)
  <2> DEFINE f == ObsFrame(Script[p][sent[p] + 1])
  <2>1. sent[p] + 1 \in 1..Len(Script[p]) BY Before, <1>6 DEF ProcInv, SendObservation
  <2>2. f \in Frames BY <2>1, ScriptEntry, FrameTypes
  <2>3. Append(up[p], f) \in Seq(Frames) /\ Len(Append(up[p], f)) = Len(up[p]) + 1
    BY Before, <2>2, QueueFacts DEF ProcInv
  <2>8. ProcInv(p)'
    <3>1. CASE ServerClosed(p)
      BY Before, <2>1, <2>3, <1>6, <3>1 DEF Functions, ProcInv, SendObservation, Goto, ServerClosed
    <3>2. CASE ~ServerClosed(p)
      <4>1. /\ up'[p] = Append(up[p], f) /\ Len(up[p]) < Cap
            /\ pc'[p] \in {"ready", "await"} /\ sent'[p] = sent[p] + 1
            /\ UNCHANGED <<timeouts, acks, down, conn, reply, aligned>>
        BY Before, <1>6, <3>2 DEF Functions, SendObservation, Goto
      <4>2. pc[p] = "ready" BY <1>6 DEF SendObservation
      <4>3. Len(up'[p]) <= Cap BY Before, <2>1, <2>3, <4>1
      <4> QED BY Before, <2>1, <2>3, <4>1, <4>2, <4>3 DEF ProcInv
    <3> QED BY <3>1, <3>2
  <2>9. MainInv' BY Before, <1>6 DEF MainInv, ProcInv, Functions, SendObservation, Goto, Ended
  <2> QED BY <1>1, <2>8, <2>9, LocalStep
<1>7. CASE RecvAck(p)
  <2> DEFINE a == [obs |-> Script[p][sent[p]], decision |-> Head(down[p]).decision]
  <2>1. sent[p] \in 1..Len(Script[p]) BY Before, <1>7 DEF RecvAck, ProcInv
  <2>2. Head(down[p]).decision \in Reasons \cup {"ACCEPTED"}
    BY Before, <1>7, FrameTypes DEF RecvAck
  <2>3. a \in Acks BY <2>1, <2>2, ScriptEntry DEF Acks
  <2>4. Append(acks[p], a) \in Seq(Acks) BY Before, <2>3, QueueFacts DEF ProcInv
  <2>8. ProcInv(p)' BY Before, <2>4, <1>7 DEF Functions, ProcInv, RecvAck, Goto, Ended
  <2>9. MainInv' BY Before, <1>7 DEF MainInv, ProcInv, Functions, RecvAck, Goto, Ended
  <2> QED BY <1>1, <2>8, <2>9, LocalStep
<1>8. CASE AckUnanswered(p)
  <2>8. ProcInv(p)' BY Before, <1>8 DEF Functions, ProcInv, AckUnanswered, Goto, Ended
  <2>9. MainInv' BY Before, <1>8 DEF MainInv, ProcInv, Functions, AckUnanswered, Goto, Ended
  <2> QED BY <1>1, <2>8, <2>9, LocalStep
<1>9. CASE Disconnect(p)
  <2>1. Append(up[p], Bye) \in Seq(Frames) /\ Len(Append(up[p], Bye)) = Len(up[p]) + 1
    BY Before, FrameTypes, QueueFacts DEF ProcInv
  <2>8. ProcInv(p)'
    <3>1. CASE ServerClosed(p)
      BY Before, <2>1, <1>9, <3>1 DEF Functions, ProcInv, Disconnect, Goto, ServerClosed
    <3>2. CASE ~ServerClosed(p)
      <4>1. /\ up'[p] = Append(up[p], Bye) /\ Len(up[p]) < Cap
            /\ pc'[p] = "done" /\ sent'[p] = sent[p]
            /\ UNCHANGED <<timeouts, acks, down, conn, reply, aligned>>
        BY Before, <1>9, <3>2 DEF Functions, Disconnect, Goto
      <4>2. pc[p] = "ready" BY <1>9 DEF Disconnect
      <4>3. Len(up'[p]) <= Cap BY Before, <2>1, <4>1
      <4> QED BY Before, <2>1, <4>1, <4>2, <4>3 DEF ProcInv
    <3> QED BY <3>1, <3>2
  <2>9. MainInv' BY Before, <1>9 DEF MainInv, ProcInv, Functions, Disconnect, Goto, Ended
  <2> QED BY <1>1, <2>8, <2>9, LocalStep
<1> QED BY <1>2, <1>3, <1>4, <1>5, <1>6, <1>7, <1>8, <1>9 DEF ClientStep

\* ingest answers with a decision.
LEMMA IngestDecides ==
  ASSUME NEW o
  PROVE  IngestDecision(o) \in Reasons \cup {"ACCEPTED"}
BY DecisionType DEF IngestDecision, Reasons

\* What a handler thread does keeps the invariant.
LEMMA HandlerKeepsNetInv ==
  ASSUME NetInv, NEW p \in Procs, HandlerStep(p)
  PROVE  NetInv'
<1>1. Local(p) BY StepsAreLocal DEF NetInv
<1>3. CASE HandleHello(p)
  <2>8. ProcInv(p)' BY Before, FrameTypes, <1>3 DEF Functions, ProcInv, HandleHello, Reading, SetConn, Consume
  <2>9. MainInv' BY Before, <1>3 DEF MainInv, ProcInv, Functions, HandleHello, Reading, SetConn, Consume
  <2> QED BY <1>1, <2>8, <2>9, LocalStep
<1>4. CASE HandleObs(p)
  <2>1. ObsAck(IngestDecision(Head(up[p]).obs)) \in AckFrames \ {None}
    BY FrameTypes, IngestDecides
  <2>8. ProcInv(p)' BY Before, <2>1, <1>4 DEF Functions, ProcInv, HandleObs, Reading, SetConn, Consume
  <2>9. MainInv' BY Before, <1>4 DEF MainInv, ProcInv, Functions, HandleObs, Reading, SetConn, Consume
  <2> QED BY <1>1, <2>8, <2>9, LocalStep
<1>5. CASE HandleUndecodable(p)
  <2>8. ProcInv(p)' BY Before, <1>5 DEF Functions, ProcInv, HandleUndecodable, Reading, SetConn, Consume
  <2>9. MainInv' BY Before, <1>5 DEF MainInv, ProcInv, Functions, HandleUndecodable, Reading, SetConn, Consume
  <2> QED BY <1>1, <2>8, <2>9, LocalStep
<1>6. CASE HandleBye(p)
  <2>8. ProcInv(p)' BY Before, <1>6 DEF Functions, ProcInv, HandleBye, Reading, SetConn, Consume
  <2>9. MainInv' BY Before, <1>6 DEF MainInv, ProcInv, Functions, HandleBye, Reading, SetConn, Consume
  <2> QED BY <1>1, <2>8, <2>9, LocalStep
<1>7. CASE Reply(p)
  <2>0. reply[p] \in AckFrames BY Before, <1>7 DEF Reply, ProcInv
  <2>1. Append(down[p], reply[p]) \in Seq(AckFrames)
        /\ Len(Append(down[p], reply[p])) = Len(down[p]) + 1
    BY Before, <2>0, QueueFacts DEF ProcInv
  <2>8. ProcInv(p)' BY Before, <2>1, <1>7 DEF Functions, ProcInv, Reply, Reading, SetConn, Consume
  <2>9. MainInv' BY Before, <1>7 DEF MainInv, ProcInv, Functions, Reply, Reading, SetConn, Consume
  <2> QED BY <1>1, <2>8, <2>9, LocalStep
<1>8. CASE HandleEof(p)
  <2>8. ProcInv(p)' BY Before, <1>8 DEF Functions, ProcInv, HandleEof, Reading, SetConn, Consume
  <2>9. MainInv' BY Before, <1>8 DEF MainInv, ProcInv, Functions, HandleEof, Reading, SetConn, Consume
  <2> QED BY <1>1, <2>8, <2>9, LocalStep
<1>9. CASE HandleIdle(p)
  <2>8. ProcInv(p)' BY Before, <1>9 DEF Functions, ProcInv, HandleIdle, Reading, SetConn, Consume
  <2>9. MainInv' BY Before, <1>9 DEF MainInv, ProcInv, Functions, HandleIdle, Reading, SetConn, Consume
  <2> QED BY <1>1, <2>8, <2>9, LocalStep
<1>10. CASE Probe(p)
  <2>8. ProcInv(p)' BY Before, <1>10 DEF Functions, ProcInv, Probe, Reading, SetConn, Consume
  <2>9. MainInv' BY Before, <1>10 DEF MainInv, ProcInv, Functions, Probe, Reading, SetConn, Consume
  <2> QED BY <1>1, <2>8, <2>9, LocalStep
<1>11. CASE HandleMisread(p)
  <2>8. ProcInv(p)'
    <3>1. CASE up[p] # <<>> /\ Consume(p) /\ UNCHANGED conn
      BY Before, <1>11, <3>1 DEF Functions, ProcInv, HandleMisread, Consume
    <3>2. CASE SetConn(p, "closed") /\ up' = [up EXCEPT ![p] = <<>>]
      BY Before, <1>11, <3>2 DEF Functions, ProcInv, HandleMisread, SetConn
    <3> QED BY <1>11, <3>1, <3>2 DEF HandleMisread
  <2>9. MainInv' BY Before, <1>11 DEF MainInv, ProcInv, Functions, HandleMisread, Reading, SetConn, Consume
  <2> QED BY <1>1, <2>8, <2>9, LocalStep
<1> QED BY <1>3, <1>4, <1>5, <1>6, <1>7, <1>8, <1>9, <1>10, <1>11 DEF HandlerStep

\* Accepting, stopping, kills and resets keep the invariant.
LEMMA OthersKeepNetInv ==
  ASSUME NetInv,
         \/ \E p \in Procs : Accept(p) \/ Kill(p) \/ ConnectionReset(p)
         \/ AcceptorExit \/ StopBegin \/ StopStep \/ UNCHANGED allvars
  PROVE  NetInv'
<1>1. ASSUME NEW p \in Procs, Accept(p) \/ Kill(p) \/ ConnectionReset(p) PROVE NetInv'
  <2>0. Local(p) BY <1>1, StepsAreLocal DEF NetInv
  <2>1. CASE Accept(p)
    <3>2. ProcInv(p)' BY Before, <2>1 DEF Functions, ProcInv, Accept, SetConn
    <3>3. MainInv' BY Before, <2>1 DEF MainInv, ProcInv, Functions, Accept, SetConn
    <3> QED BY <2>0, <3>2, <3>3, LocalStep
  <2>2. CASE Kill(p)
    <3>2. ProcInv(p)' BY Before, <2>2 DEF Functions, ProcInv, Kill, Goto, Alive, Ended
    <3>3. MainInv' BY Before, <2>2 DEF MainInv, ProcInv, Functions, Kill, Goto, Alive, Ended
    <3> QED BY <2>0, <3>2, <3>3, LocalStep
  <2>3. CASE ConnectionReset(p)
    <3>2. ProcInv(p)' BY Before, <2>3 DEF Functions, ProcInv, ConnectionReset, Closed
    <3>3. MainInv' BY Before, <2>3 DEF MainInv, ProcInv, Functions, ConnectionReset, Closed
    <3> QED BY <2>0, <3>2, <3>3, LocalStep
  <2> QED BY <1>1, <2>1, <2>2, <2>3
<1>2. CASE AcceptorExit \/ StopBegin \/ UNCHANGED allvars
  BY <1>2 DEF AcceptorExit, StopBegin, Advances, allvars, netvars, NetInv, Functions, MainInv, ProcInv
<1>3. CASE StopStep
  <2>1. UNCHANGED <<pc, sent, timeouts, acks, up, down, reply, aligned>>
    BY <1>3 DEF StopStep, StopListener, JoinAcceptor, JoinClients
  <2>2. /\ conn' = [p \in Procs |-> conn'[p]]
        /\ \A p \in Procs : \/ conn'[p] = conn[p]
                            \/ conn[p] = "backlog" /\ conn'[p] = "closed"
    BY <1>3 DEF NetInv, Functions, StopStep, StopListener, JoinAcceptor, JoinClients
  <2>3. Functions' BY <2>1, <2>2 DEF NetInv, Functions
  <2>4. ASSUME NEW p \in Procs PROVE ProcInv(p)' BY <2>1, <2>2 DEF NetInv, ProcInv
  <2>5. MainInv'
    BY <1>3, <2>2 DEF NetInv, MainInv, StopStep, StopListener, JoinAcceptor, JoinClients, Advances
  <2> QED BY <2>3, <2>4, <2>5 DEF NetInv
<1> QED BY <1>1, <1>2, <1>3

\* Every step of the server keeps the invariant.
LEMMA NetInvStep == NetInv /\ [NetNext]_allvars => NetInv'
BY ClientKeepsNetInv, HandlerKeepsNetInv, OthersKeepNetInv DEF NetNext

\* The invariant holds in every reachable state.
THEOREM NetInvariant == NetSpec => []NetInv
BY NetInvInit, NetInvStep, PTL DEF NetSpec

\* Sockets, processes, handlers and acks keep their types, and no socket
\* buffer is ever overfull.
THEOREM NetTyped == NetSpec => []NetTypeOK
BY NetInvariant, NetInvTypes, PTL

-----------------------------------------------------------------------------
(* The server and the coordinator *)

\* The only steps that touch the coordinator are those of a handler that has
\* a HELLO or an observation.
LEMMA StepOfCoordinator ==
  ASSUME NetInv, [NetNext]_allvars
  PROVE  \/ UNCHANGED vars
         \/ \E p \in Procs : HandleHello(p) /\ Head(up[p]).hello \in Hellos
         \/ \E p \in Procs : HandleObs(p) /\ Head(up[p]).obs \in Observations
<1>1. ASSUME NEW p \in Procs, ClientStep(p) PROVE UNCHANGED vars
  BY <1>1 DEF ClientStep, Connect, SendHello, RecvHelloAck, HelloUnanswered, SendObservation,
              RecvAck, AckUnanswered, Disconnect
<1>2. ASSUME NEW p \in Procs, HandlerStep(p)
      PROVE  \/ UNCHANGED vars
             \/ HandleHello(p) /\ Head(up[p]).hello \in Hellos
             \/ HandleObs(p) /\ Head(up[p]).obs \in Observations
  <2>1. CASE HandleHello(p)
    <3>1. Head(up[p]) \in Frames /\ Head(up[p]).type = "HELLO"
      BY <2>1, Before, QueueFacts DEF ProcInv, HandleHello, Reading
    <3>2. \E q \in Procs : Head(up[p]) = HelloFrame(q)
      BY <3>1 DEF Frames, ObsFrame, Bye
    <3> QED BY <2>1, <3>2, ScenarioAssumption DEF HelloFrame
  <2>2. CASE HandleObs(p)
    <3>1. Head(up[p]) \in Frames /\ Head(up[p]).type = "OBS"
      BY <2>2, Before, QueueFacts DEF ProcInv, HandleObs, Reading
    <3>2. \E o \in Observations : Head(up[p]) = ObsFrame(o)
      BY <3>1 DEF Frames, HelloFrame, Bye
    <3> QED BY <2>2, <3>2 DEF ObsFrame
  <2>3. CASE \/ HandleUndecodable(p) \/ HandleBye(p) \/ Reply(p) \/ HandleEof(p)
             \/ HandleIdle(p) \/ Probe(p) \/ HandleMisread(p)
    BY <2>3 DEF HandleUndecodable, HandleBye, Reply, HandleEof, HandleIdle, Probe, HandleMisread
  <2> QED BY <1>2, <2>1, <2>2, <2>3 DEF HandlerStep
<1>3. ASSUME NEW p \in Procs, Accept(p) \/ Kill(p) \/ ConnectionReset(p) PROVE UNCHANGED vars
  BY <1>3 DEF Accept, Kill, ConnectionReset
<1>4. CASE AcceptorExit \/ StopBegin \/ StopStep
  BY <1>4 DEF AcceptorExit, StopBegin, StopStep, StopListener, JoinAcceptor, JoinClients
<1>5. CASE UNCHANGED allvars BY <1>5 DEF allvars
<1> QED BY <1>1, <1>2, <1>3, <1>4, <1>5 DEF NetNext

\* However many handlers run, and whatever the network does, the coordinator
\* inside the server behaves as the Coordinator module says: its mutex makes
\* each call one step of it, and nothing else changes its state.
THEOREM ServerImplementsCoordinator == NetSpec => Spec
<1>1. NetInit => Init BY DEF NetInit
<1>2. NetInv /\ [NetNext]_allvars => [Next]_vars
  BY StepOfCoordinator DEF HandleHello, HandleObs, Next
<1> QED BY <1>1, <1>2, NetInvariant, PTL DEF NetSpec, Spec

\* So a server with any number of handler threads is an evidence store: what
\* a source sends it is judged by the whole history of the source's session,
\* whichever threads and connections brought that history.
THEOREM ServerImplementsStore == NetSpec => ImplementsStore
BY ServerImplementsCoordinator, CoordinatorImplementsStore, PTL

\* After stop() has returned no step changes the coordinator: no handler
\* thread outlives the join.
THEOREM QuiescentAfterStopAlways == NetSpec => QuiescentAfterStop
<1>1. ASSUME NetInv, [NetNext]_allvars, main = "stopped" PROVE UNCHANGED vars
  <2>1. \A p \in Procs : ~HandleHello(p) /\ ~HandleObs(p)
    BY <1>1 DEF NetInv, MainInv, HandleHello, HandleObs, Reading
  <2> QED BY <1>1, <2>1, StepOfCoordinator
<1>2. NetInv /\ [NetNext]_allvars => [main = "stopped" => UNCHANGED vars]_allvars
  BY <1>1
<1> QED BY <1>2, NetInvariant, PTL DEF NetSpec, QuiescentAfterStop

-----------------------------------------------------------------------------
(* Honest acknowledgements *)

\* What an ack with decision d says of o is true of accepted evidence acc and
\* historical evidence st.
Honest(acc, st, o, d) ==
  IF d = "ACCEPTED"
  THEN o.id \in DOMAIN acc /\ acc[o.id] = o
  ELSE \E j \in 1..Len(st) : st[j] = [obs |-> o, reason |-> d]

\* Evidence is only added to, so an honest ack stays honest.
LEMMA HonestStays ==
  ASSUME Inv, NetInv, [NetNext]_allvars,
         NEW o, NEW d, Honest(accepted, stale, o, d)
  PROVE  Honest(accepted', stale', o, d)
<1>0. stale \in Seq(StaleEvidence) /\ Len(stale) \in Nat BY DEF Inv, TypeOK
<1>1. CASE UNCHANGED <<accepted, stale>> BY <1>1
<1>2. ASSUME NEW x \in Observations, Ingest(x) PROVE Honest(accepted', stale', o, d)
  <2>1. CASE IngestAccepted(x) BY <2>1 DEF IngestAccepted, Put, Honest
  <2>2. ASSUME NEW reason \in Reasons, Retain(x, reason), UNCHANGED accepted
        PROVE  Honest(accepted', stale', o, d)
    <3>1. [obs |-> x, reason |-> reason] \in StaleEvidence BY PayloadAssumption DEF StaleEvidence
    <3>2. Len(stale') = Len(stale) + 1 /\ \A j \in 1..Len(stale) : stale'[j] = stale[j]
      BY <1>0, <2>2, <3>1, AppendFacts DEF Retain
    <3> QED BY <1>0, <2>2, <3>2 DEF Honest
  <2>3. CASE IngestDuplicate(x) BY <2>2, <2>3 DEF IngestDuplicate, Reasons
  <2>4. CASE IngestRejected(x) BY <2>2, <2>4, DecisionType DEF IngestRejected, Reasons
  <2> QED BY <1>2, <2>1, <2>3, <2>4 DEF Ingest
<1>3. CASE UNCHANGED vars BY <1>1, <1>3 DEF vars
<1>4. ASSUME NEW p \in Procs, HandleHello(p) PROVE Honest(accepted', stale', o, d)
  BY <1>1, <1>4 DEF HandleHello, RegisterHello, evidence
<1>5. ASSUME NEW p \in Procs, HandleObs(p), Head(up[p]).obs \in Observations
      PROVE  Honest(accepted', stale', o, d)
  BY <1>2, <1>5 DEF HandleObs
<1> QED BY <1>3, <1>4, <1>5, StepOfCoordinator

\* What the handler is about to answer is what ingest did.
LEMMA IngestHonest ==
  ASSUME Inv, NEW o \in Observations, Ingest(o)
  PROVE  Honest(accepted', stale', o, IngestDecision(o))
<1>0. stale \in Seq(StaleEvidence) /\ Len(stale) \in Nat BY DEF Inv, TypeOK
<1>1. ASSUME NEW reason \in Reasons, Retain(o, reason), IngestDecision(o) = reason,
             reason # "ACCEPTED"
      PROVE  Honest(accepted', stale', o, IngestDecision(o))
  <2>1. [obs |-> o, reason |-> reason] \in StaleEvidence BY PayloadAssumption DEF StaleEvidence
  <2>2. Len(stale') = Len(stale) + 1 /\ stale'[Len(stale) + 1] = [obs |-> o, reason |-> reason]
    BY <1>0, <1>1, <2>1, AppendFacts DEF Retain
  <2> QED BY <1>0, <1>1, <2>2 DEF Honest
<1>2. CASE IngestDuplicate(o)
  <2>1. IngestDecision(o) = "DUPLICATE_ID" BY <1>2 DEF IngestDuplicate, IngestDecision
  <2> QED BY <1>1, <1>2, <2>1 DEF IngestDuplicate, Reasons
<1>3. CASE IngestRejected(o)
  <2>1. IngestDecision(o) = Decision(registry, o) BY <1>3 DEF IngestRejected, IngestDecision
  <2> QED BY <1>1, <1>3, <2>1, DecisionType DEF IngestRejected, Reasons
<1>4. CASE IngestAccepted(o)
  <2>1. IngestDecision(o) = "ACCEPTED" BY <1>4 DEF IngestAccepted, IngestDecision
  <2> QED BY <1>4, <2>1 DEF IngestAccepted, Put, Honest
<1> QED BY <1>2, <1>3, <1>4 DEF Ingest

\* At most one frame is under way between a process that waits for an answer
\* to f and its handler: f itself, or the answer.
OneAnswer(p, f) ==
  \/ down[p] = <<>> /\ reply[p] = None /\ (up[p] = <<>> \/ up[p] = <<f>>)
  \/ down[p] = <<>> /\ reply[p] # None /\ up[p] = <<>>
  \/ (\E a \in AckFrames : down[p] = <<a>>) /\ reply[p] = None /\ up[p] = <<>>

Asked(p) == Script[p][sent[p]]

\* Where processes wait for their answers: nothing is under way between calls.
Waits(p) ==
  /\ pc[p] = "await" => p \notin Fire
  /\ p \in Fire => acks[p] = <<>>
  /\ p \notin Fire /\ pc[p] \in {"start", "connected", "ready"} =>
       down[p] = <<>> /\ reply[p] = None /\ (up[p] = <<>> \/ conn[p] = "closed")
  /\ p \notin Fire /\ pc[p] = "hello" => OneAnswer(p, HelloFrame(p))
  /\ pc[p] = "await" => OneAnswer(p, ObsFrame(Asked(p)))

\* Answers, under way and received, are honest.
Answers(p) ==
  /\ pc[p] = "await" /\ reply[p] # None =>
       Honest(accepted, stale, Asked(p), reply[p].decision)
  /\ pc[p] = "await" /\ down[p] # <<>> =>
       Honest(accepted, stale, Asked(p), Head(down[p]).decision)
  /\ \A i \in 1..Len(acks[p]) : Honest(accepted, stale, acks[p][i].obs, acks[p][i].decision)

TalkInv == \A p \in Procs : Waits(p) /\ Answers(p)

LEMMA TalkInit == NetInit => TalkInv
<1> SUFFICES ASSUME NetInit, NEW p \in Procs PROVE Waits(p) /\ Answers(p) BY DEF TalkInv
<1>1. /\ pc[p] = "start" /\ up[p] = <<>> /\ down[p] = <<>> /\ reply[p] = None /\ acks[p] = <<>>
  BY DEF NetInit
<1> QED BY <1>1 DEF Waits, Answers

\* A step that leaves a process and its connection alone.
LEMMA TalkStays ==
  ASSUME Inv, NetInv, [NetNext]_allvars, NEW p \in Procs, Waits(p), Answers(p),
         pc'[p] = pc[p], sent'[p] = sent[p], acks'[p] = acks[p], up'[p] = up[p],
         down'[p] = down[p], reply'[p] = reply[p],
         conn'[p] = conn[p] \/ conn'[p] = "closed"
  PROVE  Waits(p)' /\ Answers(p)'
<1>1. Waits(p)' BY DEF Waits, OneAnswer, Asked
<1>2. Answers(p)' BY HonestStays DEF Answers, Asked
<1> QED BY <1>1, <1>2

\* The acks a process has stay honest.
LEMMA AcksStay ==
  ASSUME Inv, NetInv, [NetNext]_allvars, NEW p \in Procs, Answers(p), acks'[p] = acks[p]
  PROVE  \A i \in 1..Len(acks'[p]) :
           Honest(accepted', stale', acks'[p][i].obs, acks'[p][i].decision)
BY HonestStays DEF Answers

\* A step of a process and its connection has to keep its own part only.
LEMMA TalkLocal ==
  ASSUME Inv, NetInv, TalkInv, [NetNext]_allvars, NEW p \in Procs,
         Local(p), Waits(p)', Answers(p)'
  PROVE  TalkInv'
<1>1. ASSUME NEW q \in Procs, q # p PROVE Waits(q)' /\ Answers(q)'
  <2>1. /\ pc'[q] = pc[q] /\ sent'[q] = sent[q] /\ acks'[q] = acks[q] /\ up'[q] = up[q]
        /\ down'[q] = down[q] /\ reply'[q] = reply[q] /\ conn'[q] = conn[q]
    BY <1>1 DEF NetInv, Functions, Local
  <2> QED BY <2>1, TalkStays DEF TalkInv
<1> QED BY <1>1 DEF TalkInv

\* A queue of one frame.
LEMMA OneFrame ==
  \A f : /\ <<f>> # <<>> /\ Head(<<f>>) = f /\ Tail(<<f>>) = <<>>
         /\ Append(<<>>, f) = <<f>> /\ Len(<<>>) = 0
OBVIOUS

\* What one process does keeps the talk in step, as long as no receive times
\* out: it asks again only when the answer is in or the server is gone.
LEMMA ClientTalk ==
  ASSUME MaxTimeouts = 0, Inv, NetInv, [NetNext]_allvars, NEW p \in Procs,
         Waits(p), Answers(p), ClientStep(p)
  PROVE  Waits(p)' /\ Answers(p)'
<1>0. Functions /\ ProcInv(p) /\ timeouts[p] = 0 BY Before DEF ProcInv
<1>1. CASE Connect(p)
  <2>1. Waits(p)' BY <1>0, <1>1 DEF Waits, Functions, ProcInv, Connect, Goto
  <2>2. Answers(p)' BY <1>0, <1>1, AcksStay DEF Answers, Functions, Connect, Goto
  <2> QED BY <2>1, <2>2
<1>2. CASE SendHello(p)
  <2>1. Waits(p)'
    BY <1>0, <1>2 DEF Waits, Functions, ProcInv, SendHello, Goto, OneAnswer, ServerClosed
  <2>2. Answers(p)'
    <3>1. pc'[p] # "await" /\ acks'[p] = acks[p]
      BY <1>0, <1>2 DEF Functions, SendHello, Goto
    <3> QED BY <3>1, AcksStay DEF Answers
  <2> QED BY <2>1, <2>2
<1>3. CASE RecvHelloAck(p)
  <2>1. Waits(p)'
    <3>1. /\ pc[p] = "hello" /\ down[p] # <<>> /\ pc'[p] \in {"ready", "failed"}
          /\ down'[p] = Tail(down[p]) /\ acks' = acks /\ up' = up
          /\ reply' = reply /\ conn' = conn
      BY <1>0, <1>3 DEF Functions, RecvHelloAck, Goto
    <3>2. p \notin Fire => reply[p] = None /\ up[p] = <<>> /\ Tail(down[p]) = <<>>
      BY <3>1, OneFrame DEF Waits, OneAnswer
    <3> QED BY <3>1, <3>2 DEF Waits
  <2>2. Answers(p)' BY <1>0, <1>3, AcksStay DEF Answers, Functions, RecvHelloAck, Goto
  <2> QED BY <2>1, <2>2
<1>4. CASE HelloUnanswered(p)
  <2>1. Waits(p)' BY <1>0, <1>4 DEF Waits, Functions, HelloUnanswered, Goto
  <2>2. Answers(p)' BY <1>0, <1>4, AcksStay DEF Answers, Functions, HelloUnanswered, Goto
  <2> QED BY <2>1, <2>2
<1>5. CASE SendObservation(p)
  <2>1. CASE ServerClosed(p)
    <3>1. Waits(p)' BY <1>0, <1>5, <2>1 DEF Waits, Functions, SendObservation, ServerClosed
    <3>2. Answers(p)' BY <1>0, <1>5, <2>1, AcksStay DEF Answers, SendObservation, ServerClosed
    <3> QED BY <3>1, <3>2
  <2>2. CASE ~ServerClosed(p)
    <3>1. /\ sent'[p] = sent[p] + 1 /\ up'[p] = Append(up[p], ObsFrame(Script[p][sent'[p]]))
          /\ pc'[p] = IF p \in Fire THEN "ready" ELSE "await"
          /\ down' = down /\ reply' = reply /\ acks' = acks /\ pc[p] = "ready"
      BY <1>0, <1>5, <2>2 DEF Functions, SendObservation, Goto
    <3>2. p \notin Fire => up[p] = <<>> BY <2>2, <3>1 DEF Waits, ServerClosed
    <3>3. Waits(p)' BY <3>1, <3>2, OneFrame DEF Waits, OneAnswer, Asked
    <3>4. Answers(p)' BY <3>1, <3>2, AcksStay DEF Answers, Waits
    <3> QED BY <3>3, <3>4
  <2> QED BY <2>1, <2>2
<1>6. CASE RecvAck(p)
  <2> DEFINE a == [obs |-> Asked(p), decision |-> Head(down[p]).decision]
  <2>1. /\ pc[p] = "await" /\ down[p] # <<>> /\ acks'[p] = Append(acks[p], a)
        /\ pc'[p] = "ready" /\ down'[p] = Tail(down[p]) /\ p \notin Fire
        /\ up' = up /\ reply' = reply /\ conn' = conn
    BY <1>0, <1>6 DEF Functions, RecvAck, Goto, Asked, Waits
  <2>2. Waits(p)' BY <2>1, OneFrame DEF Waits, OneAnswer
  <2>3. Honest(accepted', stale', a.obs, a.decision) BY <2>1, HonestStays DEF Answers
  <2>4. \A i \in 1..Len(acks[p]) :
          Honest(accepted', stale', acks[p][i].obs, acks[p][i].decision)
    BY HonestStays DEF Answers
  <2>5. acks[p] \in Seq(Acks) BY <1>0 DEF ProcInv
  <2>7. /\ Len(acks'[p]) = Len(acks[p]) + 1 /\ acks'[p][Len(acks[p]) + 1] = a
        /\ \A i \in 1..Len(acks[p]) : acks'[p][i] = acks[p][i]
    BY <2>1, <2>5
  <2>8. Len(acks[p]) \in Nat BY <2>5
  <2>9. Answers(p)' BY <2>1, <2>3, <2>4, <2>7, <2>8 DEF Answers
  <2> QED BY <2>2, <2>9
<1>7. CASE AckUnanswered(p)
  <2>1. Waits(p)'
    BY <1>0, <1>7 DEF Waits, Functions, ProcInv, AckUnanswered, Goto, OneAnswer, ServerClosed
  <2>2. Answers(p)' BY <1>0, <1>7, AcksStay DEF Answers, Functions, AckUnanswered, Goto
  <2> QED BY <2>1, <2>2
<1>8. CASE Disconnect(p)
  <2>1. Waits(p)' BY <1>0, <1>8 DEF Waits, Functions, Disconnect, Goto
  <2>2. Answers(p)' BY <1>0, <1>8, AcksStay DEF Answers, Functions, Disconnect, Goto
  <2> QED BY <2>1, <2>2
<1> QED BY <1>1, <1>2, <1>3, <1>4, <1>5, <1>6, <1>7, <1>8 DEF ClientStep

\* What a handler does keeps it: it answers what it was asked, once.
LEMMA HandlerTalk ==
  ASSUME Inv, NetInv, [NetNext]_allvars, NEW p \in Procs,
         Waits(p), Answers(p), HandlerStep(p)
  PROVE  Waits(p)' /\ Answers(p)'
<1>0. Functions /\ ProcInv(p) /\ Cap \in Nat \ {0} BY Before
<1>1. CASE HandleHello(p)
  <2>1. /\ conn[p] = "reading" /\ up[p] # <<>> /\ Head(up[p]).type = "HELLO"
        /\ up'[p] = Tail(up[p]) /\ reply'[p] = HelloAck
        /\ pc' = pc /\ sent' = sent /\ acks' = acks /\ down' = down
    BY <1>0, <1>1 DEF Functions, HandleHello, Reading, SetConn, Consume
  <2>2. pc[p] # "await" BY <2>1 DEF Waits, OneAnswer, ObsFrame
  <2>3. p \notin Fire => pc[p] \notin {"start", "connected", "ready"} BY <2>1 DEF Waits
  <2>4. p \notin Fire /\ pc[p] = "hello" => down[p] = <<>> /\ Tail(up[p]) = <<>>
    BY <2>1, OneFrame DEF Waits, OneAnswer
  <2>5. Waits(p)' BY <2>1, <2>2, <2>3, <2>4, FrameTypes DEF Waits, OneAnswer
  <2>6. Answers(p)' BY <2>1, <2>2, AcksStay DEF Answers
  <2> QED BY <2>5, <2>6
<1>2. CASE HandleObs(p)
  <2>1. /\ conn[p] = "reading" /\ up[p] # <<>> /\ Head(up[p]).type = "OBS"
        /\ up'[p] = Tail(up[p]) /\ reply'[p] = ObsAck(IngestDecision(Head(up[p]).obs))
        /\ pc' = pc /\ sent' = sent /\ acks' = acks /\ down' = down /\ Ingest(Head(up[p]).obs)
    BY <1>0, <1>2 DEF Functions, HandleObs, Reading, SetConn, Consume
  <2>2. reply'[p] # None BY <2>1, IngestDecides, FrameTypes
  <2>3. p \notin Fire => pc[p] \notin {"start", "connected", "ready"} BY <2>1 DEF Waits
  <2>4. p \notin Fire => pc[p] # "hello" BY <2>1 DEF Waits, OneAnswer, HelloFrame
  <2>5. pc[p] = "await" => /\ down[p] = <<>> /\ Tail(up[p]) = <<>>
                           /\ Head(up[p]).obs = Asked(p)
    <3>1. pc[p] = "await" => down[p] = <<>> /\ up[p] = <<ObsFrame(Asked(p))>>
      BY <2>1 DEF Waits, OneAnswer
    <3>2. pc[p] = "await" => Tail(up[p]) = <<>> /\ Head(up[p]) = ObsFrame(Asked(p))
      BY <3>1, OneFrame
    <3> QED BY <3>1, <3>2 DEF ObsFrame
  <2>6. Waits(p)' BY <2>1, <2>2, <2>3, <2>4, <2>5 DEF Waits, OneAnswer
  <2>7. pc[p] = "await" => Honest(accepted', stale', Asked(p), reply'[p].decision)
    <3>1. SUFFICES ASSUME pc[p] = "await"
                   PROVE  Honest(accepted', stale', Asked(p), reply'[p].decision)
      OBVIOUS
    <3>2. Asked(p) \in Observations
      BY <3>1, <1>0, ScriptEntry DEF ProcInv, Asked
    <3>3. reply'[p].decision = IngestDecision(Asked(p)) BY <2>1, <2>5, <3>1 DEF ObsAck
    <3> QED BY <2>1, <2>5, <3>1, <3>2, <3>3, IngestHonest
  <2>8. Answers(p)' BY <2>1, <2>5, <2>7, AcksStay DEF Answers, Asked
  <2> QED BY <2>6, <2>8
<1>3. CASE HandleUndecodable(p) \/ HandleMisread(p)
  <2>1. /\ pc' = pc /\ sent' = sent /\ acks' = acks /\ down' = down /\ reply' = reply
        /\ conn[p] = "reading"
        /\ \/ up[p] # <<>> /\ up'[p] = Tail(up[p]) /\ conn' = conn
           \/ up'[p] = <<>> /\ conn'[p] = "closed"
    BY <1>0, <1>3 DEF Functions, HandleUndecodable, HandleMisread, Reading, SetConn, Consume
  <2>2. reply[p] = None BY <1>0, <2>1 DEF ProcInv
  <2>3. pc[p] = "await" => up'[p] = <<>>
    <3>1. pc[p] = "await" => up[p] = <<>> \/ up[p] = <<ObsFrame(Asked(p))>>
      BY <2>2 DEF Waits, OneAnswer
    <3> QED BY <2>1, <3>1, OneFrame
  <2>4. p \notin Fire /\ pc[p] = "hello" => up'[p] = <<>>
    <3>1. p \notin Fire /\ pc[p] = "hello" => up[p] = <<>> \/ up[p] = <<HelloFrame(p)>>
      BY <2>2 DEF Waits, OneAnswer
    <3> QED BY <2>1, <3>1, OneFrame
  <2>5. p \notin Fire /\ pc[p] \in {"start", "connected", "ready"} => up'[p] = <<>>
    BY <2>1 DEF Waits
  <2>6. Waits(p)' BY <2>1, <2>2, <2>3, <2>4, <2>5 DEF Waits, OneAnswer
  <2>7. Answers(p)' BY <2>1, <2>2, HonestStays, AcksStay DEF Answers, Asked
  <2> QED BY <2>6, <2>7
<1>4. CASE HandleBye(p)
  <2>1. /\ pc' = pc /\ sent' = sent /\ acks' = acks /\ down' = down /\ reply' = reply
        /\ up[p] # <<>> /\ Head(up[p]).type = "BYE" /\ conn[p] = "reading" /\ conn'[p] = "closed"
    BY <1>0, <1>4 DEF Functions, HandleBye, Reading, SetConn, Consume, Bye
  <2>2. pc[p] # "await" BY <2>1 DEF Waits, OneAnswer, ObsFrame
  <2>3. p \notin Fire => pc[p] # "hello" BY <2>1 DEF Waits, OneAnswer, HelloFrame
  <2>4. Waits(p)' BY <2>1, <2>2, <2>3 DEF Waits
  <2>5. Answers(p)' BY <2>1, <2>2, AcksStay DEF Answers
  <2> QED BY <2>4, <2>5
<1>5. CASE Reply(p)
  <2>1. /\ pc' = pc /\ sent' = sent /\ acks' = acks /\ up' = up
        /\ reply[p] # None /\ reply[p] \in AckFrames /\ reply'[p] = None
        /\ down'[p] = IF Len(down[p]) < Cap THEN Append(down[p], reply[p]) ELSE down[p]
    BY <1>0, <1>5, AckAssumption DEF Functions, ProcInv, Reply, SetConn
  <2>0. down[p] = <<>> => down'[p] = <<reply[p]>>
    <3>1. down[p] = <<>> => Len(down[p]) < Cap BY <1>0, OneFrame
    <3>2. down[p] = <<>> => down'[p] = Append(down[p], reply[p]) BY <2>1, <3>1
    <3> QED BY <3>2, OneFrame
  <2>2. pc[p] = "await" => up[p] = <<>> /\ down[p] = <<>> /\ down'[p] = <<reply[p]>>
    BY <2>0, <2>1 DEF Waits, OneAnswer
  <2>3. p \notin Fire /\ pc[p] = "hello" =>
          up[p] = <<>> /\ down[p] = <<>> /\ down'[p] = <<reply[p]>>
    BY <2>0, <2>1 DEF Waits, OneAnswer
  <2>4. p \notin Fire => pc[p] \notin {"start", "connected", "ready"} BY <2>1 DEF Waits
  <2>5. Waits(p)' BY <2>1, <2>2, <2>3, <2>4 DEF Waits, OneAnswer
  <2>6. Answers(p)' BY <2>1, <2>2, HonestStays, AcksStay DEF Answers, Asked
  <2> QED BY <2>5, <2>6
<1>6. CASE HandleEof(p) \/ HandleIdle(p) \/ Probe(p)
  <2>1. /\ pc' = pc /\ sent' = sent /\ acks' = acks /\ down' = down /\ reply' = reply
        /\ up' = up /\ conn[p] # "closed" /\ conn[p] # "replying"
    BY <1>0, <1>6 DEF Functions, HandleEof, HandleIdle, Probe, SetConn
  <2>2. Waits(p)' BY <2>1 DEF Waits, OneAnswer, Asked
  <2>3. Answers(p)' BY <2>1, HonestStays, AcksStay DEF Answers, Asked
  <2> QED BY <2>2, <2>3
<1> QED BY <1>1, <1>2, <1>3, <1>4, <1>5, <1>6 DEF HandlerStep

\* Every step keeps the talk in step where no receive times out.
LEMMA TalkStep ==
  ASSUME MaxTimeouts = 0, Inv, NetInv, TalkInv, [NetNext]_allvars
  PROVE  TalkInv'
<1>1. ASSUME NEW p \in Procs,
             ClientStep(p) \/ HandlerStep(p) \/ Accept(p) \/ Kill(p) \/ ConnectionReset(p)
      PROVE  TalkInv'
  <2>1. Functions /\ ProcInv(p) /\ Waits(p) /\ Answers(p) BY Before DEF TalkInv
  <2>2. Local(p) BY <1>1, <2>1, StepsAreLocal
  <2>3. CASE ClientStep(p) BY <2>1, <2>2, <2>3, ClientTalk, TalkLocal
  <2>4. CASE HandlerStep(p) BY <2>1, <2>2, <2>4, HandlerTalk, TalkLocal
  <2>5. CASE Accept(p)
    <3>1. Waits(p)' BY <2>1, <2>5 DEF Waits, OneAnswer, Asked, Functions, Accept, SetConn
    <3>2. Answers(p)' BY <2>1, <2>5, HonestStays, AcksStay DEF Answers, Asked, Accept
    <3> QED BY <2>2, <3>1, <3>2, TalkLocal
  <2>6. CASE Kill(p) \/ ConnectionReset(p)
    <3>1. pc'[p] \in Ended /\ acks' = acks
      BY <2>1, <2>6 DEF Functions, Kill, ConnectionReset, Goto, Closed, Ended
    <3>2. Waits(p)' BY <2>1, <3>1 DEF Waits, Ended
    <3>3. Answers(p)' BY <2>1, <3>1, AcksStay DEF Answers, Ended
    <3> QED BY <2>2, <3>2, <3>3, TalkLocal
  <2> QED BY <1>1, <2>3, <2>4, <2>5, <2>6
<1>2. CASE AcceptorExit \/ StopBegin \/ StopStep \/ UNCHANGED allvars
  <2>1. /\ UNCHANGED <<pc, sent, acks, up, down, reply>>
        /\ \A p \in Procs : conn'[p] = conn[p] \/ conn'[p] = "closed"
    BY <1>2 DEF NetInv, Functions, AcceptorExit, StopBegin, StopStep, StopListener, JoinAcceptor, JoinClients,
                allvars, netvars
  <2> QED BY <2>1, TalkStays DEF TalkInv
<1> QED BY <1>1, <1>2 DEF NetNext

\* Where no receive times out, an ack that send_observation returns says what
\* the coordinator did with the very observation that was passed in.
THEOREM AckHonestWithoutTimeouts ==
  ASSUME MaxTimeouts = 0
  PROVE  NetSpec => []AckHonest
<1>1. NetSpec => []Inv BY ServerImplementsCoordinator, CoordinatorInvariant, PTL
<1>2. TalkInv => AckHonest BY DEF TalkInv, Answers, AckHonest, Honest
<1>3. Inv /\ NetInv /\ TalkInv /\ [NetNext]_allvars => TalkInv' BY TalkStep
<1> QED BY <1>1, <1>2, <1>3, TalkInit, NetInvariant, PTL DEF NetSpec

-----------------------------------------------------------------------------
(* Complete acknowledgements *)

\* How far a process that waits for acks has got, where no receive times out
\* on either side: its handler is there as long as it is, and there is one
\* ack for each observation sent but the one it waits for.
Served(p) ==
  /\ aligned[p] = TRUE /\ conn[p] # "probing"
  /\ conn[p] \in {"none", "backlog"} => down[p] = <<>>
  /\ pc[p] = "hello" /\ conn[p] = "closed" => down[p] = <<>>
  /\ pc[p] \in {"ready", "await"} => conn[p] \in {"reading", "replying"}
  /\ pc[p] \in {"start", "connected", "hello"} => sent[p] = 0 /\ acks[p] = <<>>
  /\ pc[p] = "ready" => Len(acks[p]) = sent[p]
  /\ pc[p] = "await" => Len(acks[p]) = sent[p] - 1
  /\ pc[p] = "done" => Len(acks[p]) = Len(Script[p])
  /\ \A i \in 1..Len(acks[p]) : acks[p][i].obs = Script[p][i]

ServedInv == \A p \in Procs \ Fire : Served(p)

LEMMA ServedInit == NetInit => ServedInv
<1> SUFFICES ASSUME NetInit, NEW p \in Procs \ Fire PROVE Served(p) BY DEF ServedInv
<1>1. /\ pc[p] = "start" /\ sent[p] = 0 /\ down[p] = <<>> /\ acks[p] = <<>>
      /\ conn[p] = "none" /\ aligned[p] = TRUE
  BY DEF NetInit
<1> QED BY <1>1 DEF Served

\* A step of a process and its connection has to keep its own part only.
LEMMA ServedLocal ==
  ASSUME NetInv, ServedInv, NEW p \in Procs, Local(p), p \notin Fire => Served(p)'
  PROVE  ServedInv'
<1>1. ASSUME NEW q \in Procs \ Fire, q # p PROVE Served(q)'
  <2>1. /\ pc'[q] = pc[q] /\ sent'[q] = sent[q] /\ acks'[q] = acks[q] /\ down'[q] = down[q]
        /\ conn'[q] = conn[q] /\ aligned'[q] = aligned[q]
    BY <1>1 DEF NetInv, Functions, Local
  <2> QED BY <2>1 DEF ServedInv, Served
<1> QED BY <1>1 DEF ServedInv

\* What a process does keeps it.
LEMMA ClientServed ==
  ASSUME MaxTimeouts = 0, NetInv, NEW p \in Procs \ Fire,
         Waits(p), Served(p), ClientStep(p)
  PROVE  Served(p)'
<1>0. Functions /\ ProcInv(p) /\ timeouts[p] = 0 BY Before DEF ProcInv
<1>1. Len(acks[p]) \in Nat /\ sent[p] \in Nat /\ Len(Script[p]) \in Nat
  <2>1. acks[p] \in Seq(Acks) BY <1>0 DEF ProcInv
  <2> QED BY <1>0, <2>1, Before DEF ProcInv
<1>2. CASE Connect(p) BY <1>0, <1>2 DEF Served, Functions, ProcInv, Waits, Connect, Goto
<1>3. CASE SendHello(p)
  BY <1>0, <1>3 DEF Served, Functions, Waits, SendHello, Goto
<1>4. CASE RecvHelloAck(p)
  BY <1>0, <1>1, <1>4, OneFrame DEF Served, Functions, ProcInv, RecvHelloAck, Goto
<1>5. CASE HelloUnanswered(p) BY <1>0, <1>5 DEF Served, Functions, HelloUnanswered, Goto
<1>6. CASE SendObservation(p)
  BY <1>0, <1>1, <1>6 DEF Served, Functions, SendObservation, Goto, ServerClosed
<1>7. CASE RecvAck(p)
  <2> DEFINE a == [obs |-> Asked(p), decision |-> Head(down[p]).decision]
  <2>1. /\ pc[p] = "await" /\ acks'[p] = Append(acks[p], a) /\ pc'[p] = "ready"
        /\ sent' = sent /\ conn' = conn /\ aligned' = aligned
    BY <1>0, <1>7 DEF Functions, RecvAck, Goto, Asked
  <2>2. acks[p] \in Seq(Acks) BY <1>0 DEF ProcInv
  <2>3. /\ Len(acks'[p]) = Len(acks[p]) + 1 /\ acks'[p][Len(acks[p]) + 1] = a
        /\ \A i \in 1..Len(acks[p]) : acks'[p][i] = acks[p][i]
    BY <2>1, <2>2
  <2>4. sent[p] = Len(acks[p]) + 1 BY <1>1, <2>1 DEF Served
  <2>5. a.obs = Script[p][Len(acks[p]) + 1] BY <2>4 DEF Asked
  <2>6. \A i \in 1..Len(acks'[p]) : acks'[p][i].obs = Script[p][i]
    <3> SUFFICES ASSUME NEW i \in 1..Len(acks'[p]) PROVE acks'[p][i].obs = Script[p][i]
      OBVIOUS
    <3>1. i \in 1..Len(acks[p]) \/ i = Len(acks[p]) + 1 BY <1>1, <2>3
    <3>2. \A j \in 1..Len(acks[p]) : acks[p][j].obs = Script[p][j] BY DEF Served
    <3> QED BY <2>3, <2>5, <3>1, <3>2
  <2> QED BY <1>1, <2>1, <2>3, <2>4, <2>6 DEF Served
<1>8. CASE AckUnanswered(p)
  BY <1>0, <1>8 DEF Served, Functions, AckUnanswered, ServerClosed
<1>9. CASE Disconnect(p)
  BY <1>0, <1>1, <1>9 DEF Served, Functions, Disconnect, Goto, ServerClosed
<1> QED BY <1>2, <1>3, <1>4, <1>5, <1>6, <1>7, <1>8, <1>9 DEF ClientStep

\* What a handler does keeps it: it leaves a process only after its BYE or
\* its end.
LEMMA HandlerServed ==
  ASSUME ServerTimeout = FALSE, NetInv, NEW p \in Procs \ Fire,
         Waits(p), Served(p), HandlerStep(p)
  PROVE  Served(p)'
<1>0. Functions /\ ProcInv(p) BY Before
<1>1. CASE HandleHello(p) \/ HandleObs(p)
  BY <1>0, <1>1 DEF Served, Functions, HandleHello, HandleObs, Reading, SetConn
<1>2. CASE HandleUndecodable(p)
  BY <1>0, <1>2 DEF Served, Functions, HandleUndecodable
<1>3. CASE HandleBye(p)
  <2>1. /\ UNCHANGED <<pc, sent, acks, down, aligned>> /\ conn'[p] = "closed"
        /\ conn[p] = "reading" /\ up[p] # <<>> /\ Head(up[p]).type = "BYE"
    BY <1>0, <1>3 DEF Functions, HandleBye, Reading, SetConn, Bye
  <2>2. pc[p] \notin {"start", "connected", "ready"} BY <2>1 DEF Waits
  <2>3. pc[p] \notin {"hello", "await"} BY <2>1, OneFrame DEF Waits, OneAnswer, HelloFrame, ObsFrame
  <2> QED BY <2>1, <2>2, <2>3 DEF Served
<1>4. CASE Reply(p) BY <1>0, <1>4 DEF Served, Functions, ProcInv, Reply, SetConn
<1>5. CASE HandleEof(p)
  BY <1>0, <1>5 DEF Served, Functions, HandleEof, Closed, Ended, SetConn
<1>6. CASE HandleIdle(p) \/ Probe(p) \/ HandleMisread(p)
  BY <1>6 DEF Served, HandleIdle, Probe, HandleMisread
<1> QED BY <1>1, <1>2, <1>3, <1>4, <1>5, <1>6 DEF HandlerStep

\* Every step keeps it.
LEMMA ServedStep ==
  ASSUME MaxTimeouts = 0, ServerTimeout = FALSE, NetInv, TalkInv, ServedInv, [NetNext]_allvars
  PROVE  ServedInv'
<1>1. ASSUME NEW p \in Procs,
             ClientStep(p) \/ HandlerStep(p) \/ Accept(p) \/ Kill(p) \/ ConnectionReset(p)
      PROVE  ServedInv'
  <2>1. Functions /\ ProcInv(p) /\ Waits(p) /\ (p \notin Fire => Served(p))
    BY Before DEF TalkInv, ServedInv
  <2>2. Local(p) BY <1>1, <2>1, StepsAreLocal
  <2>3. p \notin Fire => Served(p)'
    <3>1. CASE ClientStep(p) BY <2>1, <3>1, ClientServed
    <3>2. CASE HandlerStep(p) BY <2>1, <3>2, HandlerServed
    <3>3. CASE Accept(p) BY <2>1, <3>3 DEF Served, Functions, Accept, SetConn
    <3>4. CASE Kill(p) BY <2>1, <3>4 DEF Served, Functions, Kill, Goto
    <3>5. CASE ConnectionReset(p) BY <2>1, <3>5 DEF Served, ConnectionReset
    <3> QED BY <1>1, <3>1, <3>2, <3>3, <3>4, <3>5
  <2> QED BY <2>2, <2>3, ServedLocal
<1>2. CASE AcceptorExit \/ StopBegin \/ StopStep \/ UNCHANGED allvars
  <2>1. /\ UNCHANGED <<pc, sent, acks, down, aligned>>
        /\ \A p \in Procs : \/ conn'[p] = conn[p]
                            \/ conn[p] = "backlog" /\ conn'[p] = "closed"
    BY <1>2 DEF NetInv, Functions, AcceptorExit, StopBegin, StopStep, StopListener, JoinAcceptor,
                JoinClients, allvars, netvars
  <2> QED BY <2>1 DEF ServedInv, Served
<1> QED BY <1>1, <1>2 DEF NetNext

\* Where no receive times out on either side, a source that waits for acks
\* and came to its normal end has one answer for each observation, in order,
\* also if the server was stopped in the meantime.
THEOREM DoneMeansAnsweredWithoutTimeouts ==
  ASSUME MaxTimeouts = 0, ServerTimeout = FALSE
  PROVE  NetSpec => []DoneMeansAnswered
<1>1. NetSpec => []Inv BY ServerImplementsCoordinator, CoordinatorInvariant, PTL
<1>2. ServedInv => DoneMeansAnswered
  BY DEF ServedInv, Served, DoneMeansAnswered
<1>3. Inv /\ NetInv /\ TalkInv /\ [NetNext]_allvars => TalkInv' BY TalkStep
<1>4. NetInv /\ TalkInv /\ ServedInv /\ [NetNext]_allvars => ServedInv' BY ServedStep
<1> QED BY <1>1, <1>2, <1>3, <1>4, TalkInit, ServedInit, NetInvariant, PTL DEF NetSpec

-----------------------------------------------------------------------------
(* The scenario and the invariant *)

\* p and q are boots of the same worker, and q has the lower generation.
Earlier(q, p) ==
  Config[q].key = Config[p].key /\ Config[q].src_gen < Config[p].src_gen

\* How a worker is restarted: its next boot has a higher generation and is
\* started when the boot before it has ended.
RestartOrder ==
  \A p, q \in Procs :
    Earlier(q, p) => q \in After[p] \/ \E r \in After[p] : Earlier(q, r)

NoHello(frames) == \A i \in 1..Len(frames) : frames[i].type # "HELLO"

\* A process says HELLO once, before anything else.  While the HELLO is under
\* way nothing else is, and the process waits for the answer or has ended
\* without one.
SaysHelloOnce(p) ==
  /\ \/ NoHello(up[p])
     \/ /\ up[p] = <<HelloFrame(p)>>
        /\ pc[p] \in {"hello", "failed", "dead"} /\ sent[p] = 0
        /\ down[p] = <<>> /\ reply[p] = None
  /\ pc[p] \in {"start", "connected"} => down[p] = <<>> /\ reply[p] = None
  /\ pc[p] \in {"start", "connected", "hello"} => sent[p] = 0

\* A process that has started found the earlier boots of its worker ended.
StartsInOrder ==
  \A p, q \in Procs : pc[p] # "start" /\ Earlier(q, p) => Closed(q)

\* The generation the coordinator believes in is that of a started boot.
AuthorityStarted ==
  \A k \in DOMAIN registry : \E p \in Procs :
    pc[p] # "start" /\ Config[p].key = k /\ registry[k].src_gen = Config[p].src_gen

HelloInv == \A p \in Procs : SaysHelloOnce(p)

RestartInv == HelloInv /\ StartsInOrder /\ AuthorityStarted

-----------------------------------------------------------------------------
(* One HELLO per process *)

\* What queues without a HELLO become.
LEMMA NoHelloFacts ==
  ASSUME NEW q \in Seq(Frames), NoHello(q)
  PROVE  /\ q # <<>> => Head(q).type # "HELLO" /\ NoHello(Tail(q))
         /\ \A f \in Frames : f.type # "HELLO" => NoHello(Append(q, f))
<1>1. ASSUME q # <<>> PROVE Head(q).type # "HELLO" /\ NoHello(Tail(q))
  <2>1. Head(q) = q[1] /\ Len(q) >= 1 /\ Len(Tail(q)) = Len(q) - 1 BY <1>1, QueueFacts
  <2>2. \A i \in 1..Len(Tail(q)) : Tail(q)[i] = q[i + 1] BY <1>1
  <2>3. Len(q) \in Nat BY QueueFacts
  <2>4. \A i \in 1..Len(Tail(q)) : i + 1 \in 1..Len(q) BY <2>1, <2>3
  <2> QED BY <2>1, <2>2, <2>3, <2>4 DEF NoHello
<1>2. ASSUME NEW f \in Frames, f.type # "HELLO" PROVE NoHello(Append(q, f))
  <2>1. /\ Len(Append(q, f)) = Len(q) + 1 /\ Append(q, f)[Len(q) + 1] = f
        /\ \A i \in 1..Len(q) : Append(q, f)[i] = q[i]
    OBVIOUS
  <2>2. Len(q) \in Nat BY QueueFacts
  <2> QED BY <1>2, <2>1, <2>2 DEF NoHello
<1> QED BY <1>1, <1>2

\* An empty queue has no HELLO.
LEMMA NoHelloEmpty == NoHello(<<>>)
BY OneFrame DEF NoHello

\* The first frame tells whether the HELLO is under way.
LEMMA HelloAtHead ==
  ASSUME NEW p \in Procs, NetInv, SaysHelloOnce(p), up[p] # <<>>
  PROVE  IF Head(up[p]).type = "HELLO"
         THEN /\ up[p] = <<HelloFrame(p)>> /\ Tail(up[p]) = <<>>
              /\ pc[p] \in {"hello", "failed", "dead"} /\ sent[p] = 0
         ELSE NoHello(up[p]) /\ NoHello(Tail(up[p]))
<1>1. up[p] \in Seq(Frames) BY DEF NetInv, ProcInv
<1>2. CASE NoHello(up[p]) BY <1>1, <1>2, NoHelloFacts
<1>3. CASE up[p] = <<HelloFrame(p)>>
  <2>1. Head(up[p]) = HelloFrame(p) /\ Tail(up[p]) = <<>> BY <1>3, OneFrame
  <2>2. Head(up[p]).type = "HELLO" BY <2>1 DEF HelloFrame
  <2>3. ~NoHello(up[p]) BY <1>1, <2>2, NoHelloFacts
  <2> QED BY <2>1, <2>2, <2>3 DEF SaysHelloOnce
<1> QED BY <1>2, <1>3 DEF SaysHelloOnce

\* Every step of a process or its handler keeps it.
LEMMA HelloLocal ==
  ASSUME NetInv, NEW p \in Procs, SaysHelloOnce(p),
         ClientStep(p) \/ HandlerStep(p) \/ Accept(p) \/ Kill(p) \/ ConnectionReset(p)
  PROVE  SaysHelloOnce(p)'
<1>0. Functions /\ ProcInv(p) /\ up[p] \in Seq(Frames) BY Before DEF ProcInv
<1>1. CASE Connect(p) BY <1>0, <1>1 DEF SaysHelloOnce, NoHello, Functions, Connect, Goto
<1>2. CASE SendHello(p)
  <2>1. up[p] = <<>> BY <1>0, <1>2 DEF ProcInv, SendHello
  <2>2. Append(up[p], HelloFrame(p)) = <<HelloFrame(p)>> BY <2>1, OneFrame
  <2>3. NoHello(up[p]) BY <2>1, NoHelloEmpty
  <2>4. /\ \/ up'[p] = up[p] /\ pc'[p] = "failed"
           \/ up'[p] = Append(up[p], HelloFrame(p)) /\ pc'[p] = "hello"
        /\ pc[p] = "connected" /\ UNCHANGED <<sent, down, reply>>
    BY <1>0, <1>2 DEF Functions, SendHello, Goto
  <2> QED BY <2>2, <2>3, <2>4 DEF SaysHelloOnce, NoHello
<1>3. CASE RecvHelloAck(p)
  BY <1>0, <1>3 DEF SaysHelloOnce, NoHello, Functions, RecvHelloAck, Goto
<1>4. CASE HelloUnanswered(p)
  BY <1>0, <1>4 DEF SaysHelloOnce, NoHello, Functions, HelloUnanswered, Goto
<1>5. CASE SendObservation(p)
  <2> DEFINE f == ObsFrame(Script[p][sent[p] + 1])
  <2>1. sent[p] + 1 \in 1..Len(Script[p]) BY <1>0, <1>5, Before DEF ProcInv, SendObservation
  <2>2. f \in Frames /\ f.type # "HELLO" BY <2>1, ScriptEntry, FrameTypes DEF ObsFrame
  <2>3. NoHello(up[p]) BY <1>5 DEF SaysHelloOnce, SendObservation
  <2>4. NoHello(Append(up[p], f)) BY <1>0, <2>2, <2>3, NoHelloFacts
  <2>5. up'[p] = up[p] \/ up'[p] = Append(up[p], f)
    BY <1>0, <1>5 DEF Functions, SendObservation, Goto
  <2>6. pc[p] = "ready" /\ pc'[p] \in {"ready", "await"}
    BY <1>0, <1>5 DEF Functions, SendObservation, Goto
  <2>7. NoHello(up'[p]) BY <2>3, <2>4, <2>5
  <2> QED BY <2>6, <2>7 DEF SaysHelloOnce, NoHello
<1>6. CASE RecvAck(p)
  BY <1>0, <1>6 DEF SaysHelloOnce, NoHello, Functions, RecvAck, Goto
<1>7. CASE AckUnanswered(p)
  BY <1>0, <1>7 DEF SaysHelloOnce, NoHello, Functions, AckUnanswered, Goto
<1>8. CASE Disconnect(p)
  <2>1. NoHello(up[p]) BY <1>8 DEF SaysHelloOnce, Disconnect
  <2>2. NoHello(Append(up[p], Bye))
    <3>1. Bye \in Frames /\ Bye.type # "HELLO" BY FrameTypes DEF Bye
    <3> QED BY <1>0, <2>1, <3>1, NoHelloFacts
  <2>3. (up'[p] = up[p] \/ up'[p] = Append(up[p], Bye)) /\ pc'[p] = "done"
    BY <1>0, <1>8 DEF Functions, Disconnect, Goto
  <2>4. NoHello(up'[p]) BY <2>1, <2>2, <2>3
  <2> QED BY <2>3, <2>4 DEF SaysHelloOnce, NoHello
<1>9. CASE Kill(p) \/ ConnectionReset(p)
  <2>1. UNCHANGED <<sent, down, reply>> /\ pc'[p] \in Ended
    BY <1>0, <1>9 DEF Functions, Kill, ConnectionReset, Goto, Closed, Ended
  <2>2. \/ up'[p] = <<>>
        \/ up'[p] = up[p] /\ pc'[p] = "dead"
    BY <1>0, <1>9 DEF Functions, Kill, ConnectionReset, Goto
  <2> QED BY <2>1, <2>2, NoHelloEmpty DEF SaysHelloOnce, NoHello, Ended
<1>10. CASE HandleHello(p) \/ HandleObs(p) \/ HandleUndecodable(p) \/ HandleBye(p)
  <2>1. UNCHANGED <<pc, sent, down>> /\ up[p] # <<>> /\ up'[p] = Tail(up[p])
    BY <1>0, <1>10 DEF Functions, HandleHello, HandleObs, HandleUndecodable, HandleBye, Reading, Consume
  <2>2. NoHello(Tail(up[p])) BY <2>1, HelloAtHead, NoHelloEmpty
  <2>3. pc[p] \notin {"start", "connected"} BY <1>0, <2>1 DEF ProcInv
  <2> QED BY <2>1, <2>2, <2>3 DEF SaysHelloOnce, NoHello
<1>11. CASE HandleMisread(p)
  <2>1. /\ UNCHANGED <<pc, sent, down, reply>>
        /\ \/ up[p] # <<>> /\ up'[p] = Tail(up[p])
           \/ up'[p] = <<>>
    BY <1>0, <1>11 DEF Functions, HandleMisread, Consume
  <2>2. NoHello(up'[p]) BY <2>1, HelloAtHead, NoHelloEmpty
  <2> QED BY <2>1, <2>2 DEF SaysHelloOnce, NoHello
<1>12. CASE Reply(p)
  <2>1. UNCHANGED <<pc, sent, up>> /\ reply[p] # None
    BY <1>0, <1>12 DEF ProcInv, Reply
  <2> QED BY <2>1 DEF SaysHelloOnce, NoHello
<1>13. CASE HandleEof(p) \/ HandleIdle(p) \/ Probe(p) \/ Accept(p)
  BY <1>13 DEF SaysHelloOnce, NoHello, HandleEof, HandleIdle, Probe, Accept
<1> QED BY <1>1, <1>2, <1>3, <1>4, <1>5, <1>6, <1>7, <1>8, <1>9, <1>10, <1>11, <1>12, <1>13
        DEF ClientStep, HandlerStep

\* Every step keeps it.
LEMMA HelloStep == NetInv /\ HelloInv /\ [NetNext]_allvars => HelloInv'
<1> SUFFICES ASSUME NetInv, HelloInv, [NetNext]_allvars, NEW q \in Procs
             PROVE  SaysHelloOnce(q)'
  BY DEF HelloInv
<1>1. ASSUME NEW p \in Procs,
             ClientStep(p) \/ HandlerStep(p) \/ Accept(p) \/ Kill(p) \/ ConnectionReset(p)
      PROVE  SaysHelloOnce(q)'
  <2>1. CASE q = p BY <1>1, <2>1, HelloLocal DEF HelloInv
  <2>2. CASE q # p
    <3>1. Local(p) BY <1>1, StepsAreLocal DEF NetInv
    <3>2. /\ pc'[q] = pc[q] /\ sent'[q] = sent[q] /\ up'[q] = up[q]
          /\ down'[q] = down[q] /\ reply'[q] = reply[q]
      BY <2>2, <3>1 DEF NetInv, Functions, Local
    <3> QED BY <3>2 DEF HelloInv, SaysHelloOnce
  <2> QED BY <2>1, <2>2
<1>2. CASE AcceptorExit \/ StopBegin \/ StopStep \/ UNCHANGED allvars
  <2>1. UNCHANGED <<pc, sent, up, down, reply>>
    BY <1>2 DEF AcceptorExit, StopBegin, StopStep, StopListener, JoinAcceptor, JoinClients,
                allvars, netvars
  <2> QED BY <2>1 DEF HelloInv, SaysHelloOnce
<1> QED BY <1>1, <1>2 DEF NetNext

-----------------------------------------------------------------------------
(* The order of the boots and the registry *)

\* A process moves from its start once, and never leaves its end.
LEMMA Progress ==
  ASSUME NetInv, [NetNext]_allvars, NEW q \in Procs
  PROVE  /\ pc[q] # "start" => pc'[q] # "start"
         /\ Closed(q) => Closed(q)'
         /\ pc[q] = "start" /\ pc'[q] # "start" => \A r \in After[q] : Closed(r)
<1>1. ASSUME NEW p \in Procs,
             ClientStep(p) \/ HandlerStep(p) \/ Accept(p) \/ Kill(p) \/ ConnectionReset(p)
      PROVE  /\ q # p => pc'[q] = pc[q]
             /\ pc[p] # "start" => pc'[p] # "start"
             /\ Closed(p) => pc'[p] = pc[p]
             /\ pc[p] = "start" /\ pc'[p] # "start" => \A r \in After[p] : Closed(r)
  <2>0. Functions BY DEF NetInv
  <2>1. CASE Connect(p) BY <2>0, <2>1 DEF Functions, Connect, Goto, Closed, Ended
  <2>2. CASE ClientStep(p) /\ ~Connect(p)
    BY <2>0, <2>2 DEF ClientStep, SendHello, RecvHelloAck, HelloUnanswered, SendObservation,
         RecvAck, AckUnanswered, Disconnect, Functions, Goto, Closed, Ended
  <2>3. CASE Kill(p) BY <2>0, <2>3 DEF Functions, Kill, Goto, Alive, Closed, Ended
  <2>4. CASE HandlerStep(p) \/ Accept(p) \/ ConnectionReset(p)
    <3>1. UNCHANGED pc
      BY <2>4 DEF HandlerStep, HandleHello, HandleObs, HandleUndecodable, HandleBye, Reply,
           HandleEof, HandleIdle, Probe, HandleMisread, Accept, ConnectionReset
    <3> QED BY <3>1
  <2> QED BY <1>1, <2>1, <2>2, <2>3, <2>4
<1>2. CASE AcceptorExit \/ StopBegin \/ StopStep \/ UNCHANGED allvars
  <2>1. UNCHANGED pc
    BY <1>2 DEF AcceptorExit, StopBegin, StopStep, StopListener, JoinAcceptor, JoinClients,
                allvars, netvars
  <2> QED BY <2>1 DEF Closed
<1> QED BY <1>1, <1>2 DEF NetNext, Closed

\* Processes start in the order of their generations.
LEMMA OrderStep ==
  ASSUME RestartOrder, NetInv, StartsInOrder, [NetNext]_allvars
  PROVE  StartsInOrder'
<1> SUFFICES ASSUME NEW p \in Procs, NEW q \in Procs, pc'[p] # "start", Earlier(q, p)
             PROVE  Closed(q)'
  BY DEF StartsInOrder, Earlier
<1>1. CASE pc[p] # "start" BY <1>1, Progress DEF StartsInOrder
<1>2. CASE pc[p] = "start"
  <2>1. \A r \in After[p] : Closed(r) BY <1>2, Progress
  <2>2. CASE q \in After[p] BY <2>1, <2>2, Progress
  <2>3. ASSUME NEW r \in After[p], Earlier(q, r) PROVE Closed(q)'
    <3>1. r \in Procs BY ScenarioAssumption
    <3>2. pc[r] # "start" BY <2>1 DEF Closed, Ended
    <3> QED BY <2>3, <3>1, <3>2, Progress DEF StartsInOrder
  <2> QED BY <2>2, <2>3 DEF RestartOrder
<1> QED BY <1>1, <1>2

\* An observation leaves the generations in the registry alone.
LEMMA IngestKeepsGeneration ==
  ASSUME Inv, NEW o \in Observations, Ingest(o)
  PROVE  /\ DOMAIN registry' = DOMAIN registry
         /\ \A k \in DOMAIN registry : registry'[k].src_gen = registry[k].src_gen
<1>1. CASE IngestDuplicate(o) \/ IngestRejected(o)
  BY <1>1 DEF IngestDuplicate, IngestRejected
<1>2. CASE IngestAccepted(o)
  <2>1. registry' = Advance(registry, o) /\ o.key \in DOMAIN registry
    <3>1. RegistryOK(registry) BY DEF Inv, TypeOK, RegistryOK
    <3>2. o \in Observation BY PayloadAssumption
    <3> QED BY <1>2, <3>1, <3>2, AcceptedDecision DEF IngestAccepted
  <2>2. registry \in [DOMAIN registry -> SourceAuthority] BY DEF Inv, TypeOK
  <2> QED BY <2>1, <2>2 DEF Advance, Put, SourceAuthority
<1> QED BY <1>1, <1>2 DEF Ingest

\* A HELLO puts the generation it carries into the registry.
LEMMA HelloSetsGeneration ==
  ASSUME Inv, NEW h \in Hellos, RegisterHello(h)
  PROVE  /\ DOMAIN registry' = DOMAIN registry \cup {h.key}
         /\ registry'[h.key].src_gen = h.src_gen
         /\ \A k \in DOMAIN registry : k # h.key => registry'[k] = registry[k]
<1>1. registry' = RegisterSource(registry, h) BY DEF RegisterHello
<1>2. registry \in [DOMAIN registry -> SourceAuthority] BY DEF Inv, TypeOK
<1> QED BY <1>1, <1>2 DEF RegisterSource, FreshAuthority, SameBoot, Put, SourceAuthority

\* The HELLO a handler takes is that of its own process, which has waited for
\* the answer or has ended without one.
LEMMA HelloHandled ==
  ASSUME NetInv, HelloInv, NEW p \in Procs, HandleHello(p)
  PROVE  /\ Head(up[p]).hello = Config[p]
         /\ pc[p] \in {"hello", "failed", "dead"} /\ sent[p] = 0
         /\ conn[p] = "reading" /\ conn'[p] = "replying"
<1>1. up[p] # <<>> /\ Head(up[p]).type = "HELLO" /\ conn[p] = "reading" /\ conn'[p] = "replying"
  BY Before DEF HandleHello, Reading, SetConn, Functions
<1>2. up[p] = <<HelloFrame(p)>> /\ pc[p] \in {"hello", "failed", "dead"} /\ sent[p] = 0
  BY <1>1, HelloAtHead DEF HelloInv
<1>3. Head(up[p]) = HelloFrame(p) BY <1>2, OneFrame
<1>4. Head(up[p]).hello = Config[p] BY <1>3 DEF HelloFrame
<1> QED BY <1>1, <1>2, <1>4

\* The authority of a worker stays that of a started boot.
LEMMA AuthorityStep ==
  ASSUME Inv, NetInv, HelloInv, AuthorityStarted, [NetNext]_allvars
  PROVE  AuthorityStarted'
<1>1. ASSUME NEW k \in DOMAIN registry, k \in DOMAIN registry',
             registry'[k].src_gen = registry[k].src_gen
      PROVE  \E p \in Procs :
               pc'[p] # "start" /\ Config[p].key = k /\ registry'[k].src_gen = Config[p].src_gen
  BY <1>1, Progress DEF AuthorityStarted
<1>2. CASE UNCHANGED vars BY <1>1, <1>2 DEF vars, AuthorityStarted
<1>3. ASSUME NEW p \in Procs, HandleObs(p), Head(up[p]).obs \in Observations
      PROVE  AuthorityStarted'
  <2>1. Ingest(Head(up[p]).obs) BY <1>3 DEF HandleObs
  <2>2. /\ DOMAIN registry' = DOMAIN registry
        /\ \A k \in DOMAIN registry : registry'[k].src_gen = registry[k].src_gen
    BY <1>3, <2>1, IngestKeepsGeneration
  <2> QED BY <1>1, <2>2 DEF AuthorityStarted
<1>4. ASSUME NEW p \in Procs, HandleHello(p), Head(up[p]).hello \in Hellos
      PROVE  AuthorityStarted'
  <2>1. RegisterHello(Config[p]) /\ Config[p] \in Hellos
    BY <1>4, HelloHandled DEF HandleHello
  <2>2. pc'[p] # "start" BY <1>4, HelloHandled, Progress
  <2>3. /\ DOMAIN registry' = DOMAIN registry \cup {Config[p].key}
        /\ registry'[Config[p].key].src_gen = Config[p].src_gen
        /\ \A k \in DOMAIN registry : k # Config[p].key => registry'[k] = registry[k]
    BY <2>1, HelloSetsGeneration
  <2>4. \A k \in DOMAIN registry' : k # Config[p].key =>
          k \in DOMAIN registry /\ registry'[k].src_gen = registry[k].src_gen
    BY <2>3
  <2> QED BY <1>1, <2>2, <2>3, <2>4 DEF AuthorityStarted
<1> QED BY <1>2, <1>3, <1>4, StepOfCoordinator

\* The invariant of restarts holds in every reachable state.
LEMMA RestartInvariant ==
  ASSUME RestartOrder
  PROVE  NetSpec => [](Inv /\ NetInv /\ RestartInv)
<1>1. NetInit => RestartInv
  BY NoHelloEmpty DEF NetInit, Init, EmptyMap, RestartInv, HelloInv, SaysHelloOnce, StartsInOrder, AuthorityStarted
<1>2. Inv /\ NetInv /\ RestartInv /\ [NetNext]_allvars => RestartInv'
  BY HelloStep, OrderStep, AuthorityStep DEF RestartInv
<1>3. NetSpec => []Inv BY ServerImplementsCoordinator, CoordinatorInvariant, PTL
<1> QED BY <1>1, <1>2, <1>3, NetInvariant, PTL DEF NetSpec

\* If every boot of a worker starts after the boots of lower generations have
\* ended, then the only step that takes the worker back to a lower generation
\* is a handler's registration of a HELLO whose process ended before it was
\* answered, and which has sent no observation.
THEOREM RollbackOnlyByUnansweredHello ==
  ASSUME RestartOrder
  PROVE  NetSpec => RollbackNeedsUnansweredHello
<1> DEFINE Fallen(k) ==
      \E p \in Procs : /\ conn[p] = "reading" /\ conn'[p] = "replying"
                       /\ Config[p].key = k
                       /\ pc[p] \in {"dead", "failed"} /\ sent[p] = 0
<1>1. ASSUME Inv, NetInv, RestartInv, [NetNext]_allvars, NEW k \in DOMAIN registry,
             registry'[k].src_gen < registry[k].src_gen
      PROVE  Fallen(k)
  <2>0. registry[k].src_gen \in Nat BY <1>1 DEF Inv, TypeOK, SourceAuthority
  <2>1. CASE UNCHANGED vars BY <1>1, <2>0, <2>1 DEF vars
  <2>2. ASSUME NEW p \in Procs, HandleObs(p), Head(up[p]).obs \in Observations
        PROVE  Fallen(k)
    <3>1. Ingest(Head(up[p]).obs) BY <2>2 DEF HandleObs
    <3> QED BY <1>1, <2>0, <2>2, <3>1, IngestKeepsGeneration
  <2>3. ASSUME NEW p \in Procs, HandleHello(p), Head(up[p]).hello \in Hellos
        PROVE  Fallen(k)
    <3>0. HelloInv /\ StartsInOrder /\ AuthorityStarted BY <1>1 DEF RestartInv
    <3>1. RegisterHello(Config[p]) /\ Config[p] \in Hellos
      BY <1>1, <2>3, <3>0, HelloHandled DEF HandleHello
    <3>2. Config[p].key = k /\ registry'[k].src_gen = Config[p].src_gen
      <4>1. CASE k = Config[p].key BY <1>1, <3>1, <4>1, HelloSetsGeneration
      <4>2. CASE k # Config[p].key
        <5>1. registry'[k] = registry[k] BY <1>1, <3>1, <4>2, HelloSetsGeneration
        <5> QED BY <1>1, <2>0, <5>1
      <4> QED BY <4>1, <4>2
    <3>3. PICK q \in Procs : /\ pc[q] # "start" /\ Config[q].key = k
                             /\ registry[k].src_gen = Config[q].src_gen
      BY <3>0 DEF AuthorityStarted
    <3>4. Earlier(p, q) BY <1>1, <3>2, <3>3 DEF Earlier
    <3>5. pc[p] \in Ended BY <3>0, <3>3, <3>4 DEF StartsInOrder, Closed
    <3> QED BY <1>1, <2>3, <3>0, <3>2, <3>5, HelloHandled DEF Ended
  <2> QED BY <1>1, <2>1, <2>2, <2>3, StepOfCoordinator
<1>2. Inv /\ NetInv /\ RestartInv /\ [NetNext]_allvars =>
        [\A k \in DOMAIN registry :
           registry'[k].src_gen < registry[k].src_gen => Fallen(k)]_allvars
  BY <1>1
<1> QED BY <1>2, RestartInvariant, PTL DEF NetSpec, RollbackNeedsUnansweredHello


-----------------------------------------------------------------------------
(* No gaps: the invariant *)

Handled(o) == Ingested(o) \/ o.id \in Undecodable

\* The handler of p still reads whole frames.
Listening(p) == conn[p] # "closed" /\ aligned[p]

\* What is under way behind the first n entries of the script: the entries
\* that follow, then perhaps the BYE, none left out; and all of them as long
\* as the process goes on.
InTransit(p, n) ==
  /\ \A i \in 1..Len(up[p]) :
       \/ n + i \in 1..sent[p] /\ up[p][i] = ObsFrame(Script[p][n + i])
       \/ up[p][i] = Bye
  /\ ~Closed(p) => n + Len(up[p]) = sent[p]

\* Before anything is lost, the entries that are no longer under way have
\* been handled.
InOrder(p) ==
  Listening(p) /\ NoHello(up[p]) =>
    \E n \in 0..sent[p] :
      InTransit(p, n) /\ \A h \in 1..n : Handled(Script[p][h])

\* Whatever is ingested came at some place of some script, and everything
\* before that place was handled.
Sourced(o) ==
  \E p \in Procs : \E m \in 1..Len(Script[p]) :
    /\ Script[p][m] = o /\ o.id \notin Undecodable
    /\ \A h \in 1..m : Handled(Script[p][h])

OrderInv == \A p \in Procs : InOrder(p)
EvidenceSourced == \A o \in Observations : Ingested(o) => Sourced(o)

\* An observation that is sent more than once has its predecessors before it
\* each time, or cannot be decoded.  The scripts of cmd_source send nothing
\* twice: the id of an entry is derived from the worker, its boot and a
\* sequence number that counts up.
ResentInOrder ==
  \A p, q \in Procs : \A i, j \in 1..Len(Script[p]) : \A m \in 1..Len(Script[q]) :
    i < j /\ Script[q][m] = Script[p][j] /\ Script[p][j].id \notin Undecodable =>
      Script[p][i].id \in Undecodable \/ \E h \in 1..m : Script[q][h] = Script[p][i]

-----------------------------------------------------------------------------
(* Acknowledgements: the invariant *)

\* Where in a sequence the elements of A are.
Hits(s, A) == {i \in 1..Len(s) : s[i] \in A}

AcksOf(d) == {a \in Acks : a.decision = d}

Decisions == Reasons \cup {"ACCEPTED"}

Pending(p, d) == IF reply[p] = ObsAck(d) THEN 1 ELSE 0

\* The decisions d that p has been told of, is being told of and will be told
\* of are no more than there are.
Accounted(p, d) ==
  Cardinality(Hits(acks[p], AcksOf(d)))
    + Cardinality(Hits(down[p], {ObsAck(d)})) + Pending(p, d)
    <= Cardinality(DecidedAs(p, d))

\* The answer to the HELLO, which also says ACCEPTED, is in before the first
\* observation is sent.
HelloAnswered(p) ==
  /\ pc[p] = "hello" => OneAnswer(p, HelloFrame(p))
  /\ pc[p] \in {"ready", "await"} =>
       reply[p] # HelloAck /\ Hits(down[p], {HelloAck}) = {}

AckInv == \A p \in Procs : HelloAnswered(p) /\ \A d \in Decisions : Accounted(p, d)

\* The observations of a process carry its worker and its boot, as
\* make_observation stamps them.
OwnScripts ==
  \A p \in Procs : \A i \in 1..Len(Script[p]) :
    Script[p][i].key = Config[p].key /\ Script[p][i].boot = Config[p].boot

-----------------------------------------------------------------------------
(* No gaps: proof *)

\* Evidence stays evidence.
LEMMA HandledStays ==
  ASSUME Inv, NetInv, [NetNext]_allvars
  PROVE  /\ \A o : Ingested(o) => Ingested(o)'
         /\ \A o : Handled(o) => Handled(o)'
<1>1. ASSUME NEW o, Ingested(o) PROVE Ingested(o)'
  <2>1. CASE o.id \in DOMAIN accepted /\ accepted[o.id] = o
    <3>1. Honest(accepted, stale, o, "ACCEPTED") BY <2>1 DEF Honest
    <3>2. Honest(accepted', stale', o, "ACCEPTED") BY <3>1, HonestStays
    <3> QED BY <3>2 DEF Honest, Ingested
  <2>2. ASSUME NEW j \in 1..Len(stale), stale[j].obs = o PROVE Ingested(o)'
    <3>1. stale[j] \in StaleEvidence BY DEF Inv, TypeOK
    <3>2. stale[j] = [obs |-> o, reason |-> stale[j].reason] /\ stale[j].reason # "ACCEPTED"
      BY <2>2, <3>1 DEF StaleEvidence, Reasons
    <3>3. Honest(accepted, stale, o, stale[j].reason) BY <3>2 DEF Honest
    <3>4. Honest(accepted', stale', o, stale[j].reason) BY <3>3, HonestStays
    <3>5. \E i \in 1..Len(stale') : stale'[i] = [obs |-> o, reason |-> stale[j].reason]
      BY <3>2, <3>4 DEF Honest
    <3> QED BY <3>5 DEF Ingested
  <2> QED BY <1>1, <2>1, <2>2 DEF Ingested
<1> QED BY <1>1 DEF Handled

\* What ingest was given is evidence, whatever it decided, and no other
\* observation became evidence.
LEMMA IngestIngests ==
  ASSUME Inv, NEW o \in Observations, Ingest(o)
  PROVE  /\ Ingested(o)'
         /\ \A x \in Observations : Ingested(x)' => x = o \/ Ingested(x)
<1>0. stale \in Seq(StaleEvidence) /\ Len(stale) \in Nat BY DEF Inv, TypeOK
<1>1. ASSUME NEW reason \in Reasons, Retain(o, reason), UNCHANGED accepted
      PROVE  /\ Ingested(o)'
             /\ \A x \in Observations : Ingested(x)' => x = o \/ Ingested(x)
  <2>1. [obs |-> o, reason |-> reason] \in StaleEvidence BY PayloadAssumption DEF StaleEvidence
  <2>2. /\ Len(stale') = Len(stale) + 1 /\ stale'[Len(stale) + 1] = [obs |-> o, reason |-> reason]
        /\ \A j \in 1..Len(stale) : stale'[j] = stale[j]
    BY <1>0, <1>1, <2>1, AppendFacts DEF Retain
  <2>3. stale'[Len(stale')].obs = o /\ Len(stale') \in 1..Len(stale') BY <1>0, <2>2
  <2>4. \A j \in 1..Len(stale') : j = Len(stale') \/ j \in 1..Len(stale) BY <1>0, <2>2
  <2> QED BY <1>1, <2>2, <2>3, <2>4 DEF Ingested
<1>2. CASE IngestDuplicate(o) BY <1>1, <1>2 DEF IngestDuplicate, Reasons
<1>3. CASE IngestRejected(o) BY <1>1, <1>3, DecisionType DEF IngestRejected, Reasons
<1>4. CASE IngestAccepted(o)
  <2>1. accepted' = Put(accepted, o.id, o) /\ UNCHANGED stale BY <1>4 DEF IngestAccepted
  <2> QED BY <2>1 DEF Ingested, Put
<1> QED BY <1>2, <1>3, <1>4 DEF Ingest

\* A step that leaves the queue of a process alone.
LEMMA InOrderStays ==
  ASSUME Inv, NetInv, [NetNext]_allvars, NEW p \in Procs, InOrder(p),
         Closed(p) => Closed(p)', sent'[p] = sent[p], aligned'[p] = aligned[p],
         up'[p] = up[p], conn[p] = "closed" => conn'[p] = "closed"
  PROVE  InOrder(p)'
<1> SUFFICES ASSUME Listening(p)', NoHello(up'[p])
             PROVE  \E n \in 0..sent'[p] :
                      InTransit(p, n)' /\ \A h \in 1..n : Handled(Script[p][h])'
  BY DEF InOrder
<1>1. PICK n \in 0..sent[p] : InTransit(p, n) /\ \A h \in 1..n : Handled(Script[p][h])
  BY DEF InOrder, Listening
<1>2. InTransit(p, n)' BY <1>1 DEF InTransit
<1>3. \A h \in 1..n : Handled(Script[p][h])' BY <1>1, HandledStays
<1> QED BY <1>2, <1>3

\* An empty queue of a process that goes on no more owes nothing.
LEMMA InOrderEmpty ==
  ASSUME NEW p \in Procs, NetInv', up'[p] = <<>>, Closed(p)' \/ sent'[p] = 0
  PROVE  InOrder(p)'
<1>1. sent'[p] \in Nat BY DEF NetInv, ProcInv
<1>2. Len(up'[p]) = 0 BY OneFrame
<1>3. InTransit(p, 0)' BY <1>1, <1>2 DEF InTransit
<1> QED BY <1>1, <1>3 DEF InOrder

\* A frame behind the HELLO is the next entry of the script, or the BYE.
LEMMA HeadInTransit ==
  ASSUME NetInv, NEW p \in Procs, NEW n \in 0..sent[p], InTransit(p, n), up[p] # <<>>,
         Head(up[p]).type = "OBS"
  PROVE  /\ n + 1 \in 1..sent[p] /\ Head(up[p]) = ObsFrame(Script[p][n + 1])
         /\ \A i \in 1..Len(Tail(up[p])) :
              \/ (n + 1) + i \in 1..sent[p] /\ Tail(up[p])[i] = ObsFrame(Script[p][(n + 1) + i])
              \/ Tail(up[p])[i] = Bye
         /\ ~Closed(p) => (n + 1) + Len(Tail(up[p])) = sent[p]
<1>1. up[p] \in Seq(Frames) /\ sent[p] \in Nat BY DEF NetInv, ProcInv
<1>2. /\ Len(up[p]) \in Nat /\ Head(up[p]) = up[p][1] /\ Len(up[p]) >= 1
      /\ Len(Tail(up[p])) = Len(up[p]) - 1
  BY <1>1, QueueFacts
<1>3. \A i \in 1..Len(Tail(up[p])) : Tail(up[p])[i] = up[p][i + 1] BY <1>1
<1>4. 1 \in 1..Len(up[p]) BY <1>2
<1>5. Head(up[p]) # Bye BY DEF Bye
<1>6. n + 1 \in 1..sent[p] /\ Head(up[p]) = ObsFrame(Script[p][n + 1])
  BY <1>2, <1>4, <1>5 DEF InTransit
<1>7. ASSUME NEW i \in 1..Len(Tail(up[p]))
      PROVE  \/ (n + 1) + i \in 1..sent[p] /\ Tail(up[p])[i] = ObsFrame(Script[p][(n + 1) + i])
             \/ Tail(up[p])[i] = Bye
  <2>1. i + 1 \in 1..Len(up[p]) /\ n + (i + 1) = (n + 1) + i BY <1>2
  <2> QED BY <1>3, <2>1 DEF InTransit
<1>8. ~Closed(p) => (n + 1) + Len(Tail(up[p])) = sent[p] BY <1>1, <1>2 DEF InTransit
<1> QED BY <1>6, <1>7, <1>8

\* A frame of type OBS carries an observation.
LEMMA ObservationRead ==
  ASSUME NetInv, NEW p \in Procs, HandleObs(p)
  PROVE  Head(up[p]).obs \in Observations
<1>1. Head(up[p]) \in Frames /\ Head(up[p]).type = "OBS"
  BY Before, QueueFacts DEF ProcInv, HandleObs, Reading
<1>2. \E o \in Observations : Head(up[p]) = ObsFrame(o) BY <1>1 DEF Frames, HelloFrame, Bye
<1> QED BY <1>2 DEF ObsFrame

\* What a handler does with an observation keeps the order.
LEMMA InOrderHandles ==
  ASSUME Inv, NetInv, NetInv', HelloInv, [NetNext]_allvars, NEW p \in Procs, InOrder(p),
         HandleObs(p) \/ HandleUndecodable(p),
         HandleObs(p) => Head(up[p]).obs \in Observations
  PROVE  /\ InOrder(p)'
         /\ \E m \in 1..Len(Script[p]) :
              /\ Script[p][m] = Head(up[p]).obs
              /\ \A h \in 1..m : Handled(Script[p][h])'
<1>0. /\ Functions /\ sent[p] \in Nat /\ sent[p] <= Len(Script[p]) /\ Len(Script[p]) \in Nat
  BY Before DEF ProcInv
<1>1. /\ UNCHANGED <<pc, sent, aligned>> /\ conn[p] = "reading" /\ aligned[p]
      /\ up[p] # <<>> /\ Head(up[p]).type = "OBS" /\ up'[p] = Tail(up[p])
  BY <1>0 DEF Functions, HandleObs, HandleUndecodable, Reading, Consume
<1>2. NoHello(up[p]) BY <1>1, HelloAtHead DEF HelloInv
<1>3. PICK n \in 0..sent[p] : InTransit(p, n) /\ \A h \in 1..n : Handled(Script[p][h])
  BY <1>1, <1>2 DEF InOrder, Listening
<1>4. /\ n + 1 \in 1..sent[p] /\ Head(up[p]) = ObsFrame(Script[p][n + 1])
      /\ \A i \in 1..Len(Tail(up[p])) :
           \/ (n + 1) + i \in 1..sent[p] /\ Tail(up[p])[i] = ObsFrame(Script[p][(n + 1) + i])
           \/ Tail(up[p])[i] = Bye
      /\ ~Closed(p) => (n + 1) + Len(Tail(up[p])) = sent[p]
  BY <1>1, <1>3, HeadInTransit
<1>5. Head(up[p]).obs = Script[p][n + 1] BY <1>4 DEF ObsFrame
<1>6. Handled(Script[p][n + 1])'
  <2>1. CASE HandleObs(p)
    <3>1. Ingest(Head(up[p]).obs) BY <2>1 DEF HandleObs
    <3> QED BY <1>5, <2>1, <3>1, IngestIngests DEF Handled
  <2>2. CASE HandleUndecodable(p) BY <1>5, <2>2 DEF HandleUndecodable, Handled
  <2> QED BY <2>1, <2>2
<1>7. \A h \in 1..(n + 1) : Handled(Script[p][h])'
  <2>1. \A h \in 1..n : Handled(Script[p][h])' BY <1>3, HandledStays
  <2>2. \A h \in 1..(n + 1) : h = n + 1 \/ h \in 1..n BY <1>4
  <2> QED BY <1>6, <2>1, <2>2
<1>8. InTransit(p, n + 1)'
  <2>1. Closed(p)' <=> Closed(p) BY <1>1 DEF Closed
  <2> QED BY <1>1, <1>4, <2>1 DEF InTransit
<1>9. InOrder(p)'
  <2>1. n + 1 \in 0..sent'[p] BY <1>1, <1>4
  <2> QED BY <1>7, <1>8, <2>1 DEF InOrder
<1>10. n + 1 \in 1..Len(Script[p]) BY <1>0, <1>4
<1> QED BY <1>5, <1>7, <1>9, <1>10

\* Passing a frame to send keeps it: the next entry, or the BYE at the end.
LEMMA InOrderSends ==
  ASSUME Inv, NetInv, NetInv', HelloInv, [NetNext]_allvars, NEW p \in Procs, InOrder(p),
         SendObservation(p) \/ Disconnect(p), ~ServerClosed(p)
  PROVE  InOrder(p)'
<1> DEFINE f == IF SendObservation(p) THEN ObsFrame(Script[p][sent[p] + 1]) ELSE Bye
<1>0. Functions /\ up[p] \in Seq(Frames) /\ sent[p] \in Nat BY Before DEF ProcInv
<1>1. /\ UNCHANGED <<aligned, conn>> /\ pc[p] = "ready" /\ up'[p] = Append(up[p], f)
      /\ \/ SendObservation(p) /\ sent'[p] = sent[p] + 1
         \/ ~SendObservation(p) /\ Closed(p)' /\ sent'[p] = sent[p]
  BY <1>0 DEF Functions, SendObservation, Disconnect, Goto, Closed, Ended
<1>2. NoHello(up[p]) BY <1>1 DEF HelloInv, SaysHelloOnce
<1> SUFFICES ASSUME Listening(p)
             PROVE  \E n \in 0..sent'[p] :
                      InTransit(p, n)' /\ \A h \in 1..n : Handled(Script[p][h])'
  BY <1>1 DEF InOrder, Listening
<1>3. PICK n \in 0..sent[p] : InTransit(p, n) /\ \A h \in 1..n : Handled(Script[p][h])
  BY <1>2 DEF InOrder
<1>4. n + Len(up[p]) = sent[p] /\ Len(up[p]) \in Nat
  BY <1>0, <1>1, <1>3, QueueFacts DEF InTransit, Closed, Ended
<1>5. /\ Len(Append(up[p], f)) = Len(up[p]) + 1 /\ Append(up[p], f)[Len(up[p]) + 1] = f
      /\ \A i \in 1..Len(up[p]) : Append(up[p], f)[i] = up[p][i]
  BY <1>0
<1>6. InTransit(p, n)'
  <2>1. ASSUME NEW i \in 1..Len(up'[p])
        PROVE  \/ n + i \in 1..sent'[p] /\ up'[p][i] = ObsFrame(Script[p][n + i])
               \/ up'[p][i] = Bye
    <3>1. i \in 1..Len(up[p]) \/ i = Len(up[p]) + 1 BY <1>1, <1>4, <1>5
    <3>2. CASE i \in 1..Len(up[p])
      <4>1. up'[p][i] = up[p][i] BY <1>1, <1>5, <3>2
      <4>2. \/ n + i \in 1..sent[p] /\ up[p][i] = ObsFrame(Script[p][n + i])
            \/ up[p][i] = Bye
        BY <1>3, <3>2 DEF InTransit
      <4> QED BY <1>0, <1>1, <4>1, <4>2
    <3>3. CASE i = Len(up[p]) + 1
      <4>1. up'[p][i] = f /\ n + i = sent[p] + 1 BY <1>1, <1>3, <1>4, <1>5, <3>3
      <4> QED BY <1>0, <1>1, <4>1
    <3> QED BY <3>1, <3>2, <3>3
  <2>2. ~Closed(p)' => n + Len(up'[p]) = sent'[p] BY <1>1, <1>3, <1>4, <1>5
  <2> QED BY <2>1, <2>2 DEF InTransit
<1>7. \A h \in 1..n : Handled(Script[p][h])' BY <1>3, HandledStays
<1> QED BY <1>0, <1>1, <1>6, <1>7

\* Every step of a process or its handler keeps it.
LEMMA InOrderLocal ==
  ASSUME Inv, NetInv, NetInv', HelloInv, HelloInv', [NetNext]_allvars, NEW p \in Procs, InOrder(p),
         ClientStep(p) \/ HandlerStep(p) \/ Accept(p) \/ Kill(p) \/ ConnectionReset(p)
  PROVE  InOrder(p)'
<1>0. Functions /\ ProcInv(p) BY Before
<1>1. CASE Connect(p)
  <2>1. up'[p] = <<>> /\ sent'[p] = 0
    BY <1>0, <1>1 DEF ProcInv, Connect, HelloInv, SaysHelloOnce
  <2> QED BY <2>1, InOrderEmpty
<1>2. CASE SendHello(p)
  <2>1. up[p] = <<>> /\ sent'[p] = 0 BY <1>0, <1>2 DEF ProcInv, SendHello, HelloInv, SaysHelloOnce
  <2>2. up'[p] = up[p] \/ up'[p] = Append(up[p], HelloFrame(p))
    BY <1>0, <1>2 DEF Functions, SendHello
  <2>3. CASE up'[p] = <<HelloFrame(p)>>
    <3>1. ~NoHello(up'[p])
      <4>1. up'[p] \in Seq(Frames) /\ up'[p] # <<>> /\ Head(up'[p]) = HelloFrame(p)
        BY <2>3, OneFrame DEF NetInv, ProcInv
      <4>2. Head(up'[p]).type = "HELLO" BY <4>1 DEF HelloFrame
      <4> QED BY <4>1, <4>2, NoHelloFacts
    <3> QED BY <3>1 DEF InOrder
  <2> QED BY <2>1, <2>2, <2>3, OneFrame, InOrderEmpty
<1>3. CASE SendObservation(p) \/ Disconnect(p)
  <2>1. CASE ServerClosed(p)
    <3>1. conn'[p] = "closed" BY <1>3, <2>1 DEF SendObservation, Disconnect, ServerClosed
    <3> QED BY <3>1 DEF InOrder, Listening
  <2> QED BY <1>3, <2>1, InOrderSends
<1>4. CASE RecvHelloAck(p) \/ HelloUnanswered(p) \/ RecvAck(p) \/ AckUnanswered(p) \/ Kill(p)
  <2>1. UNCHANGED <<sent, aligned, up, conn>>
    BY <1>4 DEF RecvHelloAck, HelloUnanswered, RecvAck, AckUnanswered, Kill
  <2> QED BY <2>1, Progress, InOrderStays
<1>5. CASE ConnectionReset(p)
  <2>1. up'[p] = <<>> /\ Closed(p)' BY <1>0, <1>5 DEF Functions, ConnectionReset, Closed
  <2> QED BY <2>1, InOrderEmpty
<1>6. CASE HandleHello(p)
  <2>1. up'[p] = <<>> /\ sent'[p] = 0
    BY <1>0, <1>6, HelloAtHead DEF HelloInv, HandleHello, Functions, Reading, Consume
  <2> QED BY <2>1, InOrderEmpty
<1>7. CASE HandleObs(p) \/ HandleUndecodable(p)
  <2>1. HandleObs(p) => Head(up[p]).obs \in Observations BY ObservationRead
  <2> QED BY <1>7, <2>1, InOrderHandles
<1>8. CASE HandleBye(p)
  <2>1. conn'[p] = "closed" BY <1>0, <1>8 DEF Functions, HandleBye, SetConn
  <2> QED BY <2>1 DEF InOrder, Listening
<1>9. CASE Reply(p) \/ HandleEof(p) \/ HandleIdle(p) \/ Accept(p)
  <2>1. UNCHANGED <<sent, aligned, up>> /\ conn[p] # "closed"
    BY <1>9 DEF Reply, HandleEof, HandleIdle, Accept
  <2> QED BY <2>1, Progress, InOrderStays
<1>10. CASE Probe(p)
  <2>1. \/ aligned'[p] = FALSE
        \/ conn'[p] = "closed"
    BY <1>0, <1>10 DEF Functions, Probe, SetConn
  <2> QED BY <2>1 DEF InOrder, Listening
<1>11. CASE HandleMisread(p)
  <2>1. aligned'[p] = aligned[p] /\ ~aligned[p] BY <1>11 DEF HandleMisread
  <2> QED BY <2>1 DEF InOrder, Listening
<1> QED BY <1>1, <1>2, <1>3, <1>4, <1>5, <1>6, <1>7, <1>8, <1>9, <1>10, <1>11
        DEF ClientStep, HandlerStep

\* Every step keeps the order.
LEMMA OrderInvStep ==
  ASSUME Inv, NetInv, NetInv', HelloInv, HelloInv', OrderInv, [NetNext]_allvars
  PROVE  OrderInv'
<1> SUFFICES ASSUME NEW q \in Procs PROVE InOrder(q)' BY DEF OrderInv
<1>1. ASSUME NEW p \in Procs,
             ClientStep(p) \/ HandlerStep(p) \/ Accept(p) \/ Kill(p) \/ ConnectionReset(p)
      PROVE  InOrder(q)'
  <2>1. CASE q = p BY <1>1, <2>1, InOrderLocal DEF OrderInv
  <2>2. CASE q # p
    <3>1. Local(p) BY <1>1, StepsAreLocal DEF NetInv
    <3>2. /\ sent'[q] = sent[q] /\ up'[q] = up[q] /\ aligned'[q] = aligned[q]
          /\ conn'[q] = conn[q]
      BY <2>2, <3>1 DEF NetInv, Functions, Local
    <3> QED BY <3>2, Progress, InOrderStays DEF OrderInv
  <2> QED BY <2>1, <2>2
<1>2. CASE AcceptorExit \/ StopBegin \/ StopStep \/ UNCHANGED allvars
  <2>1. UNCHANGED <<sent, up, aligned>> /\ (conn[q] = "closed" => conn'[q] = "closed")
    BY <1>2 DEF AcceptorExit, StopBegin, StopStep, StopListener, JoinAcceptor, JoinClients,
                allvars, netvars
  <2> QED BY <2>1, Progress, InOrderStays DEF OrderInv
<1> QED BY <1>1, <1>2 DEF NetNext

\* Whatever becomes evidence was handled at its place in a script, after
\* everything before it.
LEMMA SourcedStep ==
  ASSUME Inv, NetInv, NetInv', HelloInv, OrderInv, EvidenceSourced, [NetNext]_allvars
  PROVE  EvidenceSourced'
<1> SUFFICES ASSUME NEW o \in Observations, Ingested(o)' PROVE Sourced(o)'
  BY DEF EvidenceSourced
<1>1. CASE Ingested(o)
  <2>1. Sourced(o) BY <1>1 DEF EvidenceSourced
  <2> QED BY <2>1, HandledStays DEF Sourced
<1>2. CASE ~Ingested(o)
  <2>1. accepted' # accepted \/ stale' # stale BY <1>2 DEF Ingested
  <2>2. ~UNCHANGED vars BY <2>1 DEF vars
  <2>3. \A p \in Procs : ~HandleHello(p) BY <2>1 DEF HandleHello, RegisterHello, evidence
  <2>4. PICK p \in Procs : HandleObs(p) /\ Head(up[p]).obs \in Observations
    BY <2>2, <2>3, StepOfCoordinator
  <2>5. Ingest(Head(up[p]).obs) /\ Head(up[p]).obs.id \notin Undecodable BY <2>4 DEF HandleObs
  <2>6. o = Head(up[p]).obs BY <1>2, <2>4, <2>5, IngestIngests
  <2>7. PICK m \in 1..Len(Script[p]) :
          Script[p][m] = o /\ \A h \in 1..m : Handled(Script[p][h])'
    BY <2>4, <2>6, InOrderHandles DEF OrderInv
  <2> QED BY <2>5, <2>6, <2>7 DEF Sourced
<1> QED BY <1>1, <1>2

\* The invariant of delivery holds in every reachable state.
LEMMA DeliveryInvariant == NetSpec => [](Inv /\ NetInv /\ HelloInv /\ OrderInv /\ EvidenceSourced)
<1>1. NetInit => HelloInv
  BY NoHelloEmpty DEF NetInit, HelloInv, SaysHelloOnce
<1>2. NetInit => OrderInv
  <2> SUFFICES ASSUME NetInit, NEW p \in Procs PROVE InOrder(p) BY DEF OrderInv
  <2>1. up[p] = <<>> /\ sent[p] = 0 BY DEF NetInit
  <2>2. InTransit(p, 0) BY <2>1, OneFrame DEF InTransit
  <2> QED BY <2>1, <2>2 DEF InOrder
<1>3. NetInit => EvidenceSourced
  BY OneFrame DEF NetInit, Init, EmptyMap, EvidenceSourced, Ingested
<1>4. NetSpec => []Inv BY ServerImplementsCoordinator, CoordinatorInvariant, PTL
<1>5. Inv /\ NetInv /\ NetInv' /\ HelloInv /\ OrderInv /\ EvidenceSourced /\ [NetNext]_allvars
        => HelloInv' /\ OrderInv' /\ EvidenceSourced'
  BY HelloStep, OrderInvStep, SourcedStep
<1> QED BY <1>1, <1>2, <1>3, <1>4, <1>5, NetInvariant, PTL DEF NetSpec

\* For scripts that send nothing out of its order a second time: the evidence
\* about a source has no holes but what could not be decoded.  Timeouts,
\* misreads, resets, kills and stops cost the tail of a script, never an
\* entry before one that arrived.
THEOREM NoGapsInOrderedScripts ==
  ASSUME ResentInOrder
  PROVE  NetSpec => []NoGaps
<1>1. ASSUME EvidenceSourced PROVE NoGaps
  <2> SUFFICES ASSUME NEW p \in Procs, NEW i \in 1..Len(Script[p]), NEW j \in 1..Len(Script[p]),
                      i < j, Ingested(Script[p][j])
               PROVE  Handled(Script[p][i])
    BY DEF NoGaps, Handled
  <2>1. Sourced(Script[p][j]) BY <1>1, ScriptEntry DEF EvidenceSourced
  <2>0. PICK q \in Procs : \E m \in 1..Len(Script[q]) :
          /\ Script[q][m] = Script[p][j] /\ Script[p][j].id \notin Undecodable
          /\ \A h \in 1..m : Handled(Script[q][h])
    BY <2>1 DEF Sourced
  <2>2. PICK m \in 1..Len(Script[q]) :
          /\ Script[q][m] = Script[p][j] /\ Script[p][j].id \notin Undecodable
          /\ \A h \in 1..m : Handled(Script[q][h])
    BY <2>0
  <2>3. Script[p][i].id \in Undecodable \/ \E h \in 1..m : Script[q][h] = Script[p][i]
    BY <2>2 DEF ResentInOrder
  <2> QED BY <2>2, <2>3 DEF Handled
<1> QED BY <1>1, DeliveryInvariant, PTL

-----------------------------------------------------------------------------
(* Acknowledgements: proof *)

\* How counting hits follows a queue.
LEMMA HitsFacts ==
  ASSUME NEW S, NEW s \in Seq(S), NEW A
  PROVE  /\ IsFiniteSet(Hits(s, A)) /\ Cardinality(Hits(s, A)) \in Nat
         /\ \A x \in S :
              /\ x \in A => Cardinality(Hits(Append(s, x), A)) = Cardinality(Hits(s, A)) + 1
              /\ x \notin A => Hits(Append(s, x), A) = Hits(s, A)
         /\ s # <<>> =>
              /\ Head(s) \in A => Cardinality(Hits(s, A)) = Cardinality(Hits(Tail(s), A)) + 1
              /\ Head(s) \notin A => Cardinality(Hits(s, A)) = Cardinality(Hits(Tail(s), A))
         /\ s # <<>> /\ Hits(s, A) = {} => Head(s) \notin A /\ Hits(Tail(s), A) = {}
<1>0. Len(s) \in Nat OBVIOUS
<1>1. ASSUME NEW q \in Seq(S)
      PROVE  IsFiniteSet(Hits(q, A)) /\ Cardinality(Hits(q, A)) \in Nat
  <2>1. Len(q) \in Nat BY <1>1
  <2>2. IsFiniteSet(1..Len(q)) BY <2>1, FS_Interval
  <2>3. Hits(q, A) \subseteq 1..Len(q) BY DEF Hits
  <2>4. IsFiniteSet(Hits(q, A)) BY <2>2, <2>3, FS_Subset
  <2> QED BY <2>4, FS_CardinalityType
<1>2. ASSUME NEW x \in S
      PROVE  /\ x \in A => Cardinality(Hits(Append(s, x), A)) = Cardinality(Hits(s, A)) + 1
             /\ x \notin A => Hits(Append(s, x), A) = Hits(s, A)
  <2> DEFINE t == Append(s, x)
  <2>1. /\ Len(t) = Len(s) + 1 /\ t[Len(s) + 1] = x
        /\ \A i \in 1..Len(s) : t[i] = s[i]
    OBVIOUS
  <2> HIDE DEF t
  <2>2. Hits(t, A) = IF x \in A THEN Hits(s, A) \cup {Len(s) + 1} ELSE Hits(s, A)
    BY <1>0, <2>1 DEF Hits
  <2>3. Len(s) + 1 \notin Hits(s, A) BY <1>0 DEF Hits
  <2>4. x \in A => Cardinality(Hits(t, A)) = Cardinality(Hits(s, A)) + 1
    <3>1. IsFiniteSet(Hits(s, A)) BY <1>1
    <3>2. Cardinality(Hits(s, A) \cup {Len(s) + 1}) = Cardinality(Hits(s, A)) + 1
      BY <2>3, <3>1, FS_AddElement
    <3> QED BY <2>2, <3>2
  <2> QED BY <2>2, <2>4 DEF t
<1>3. ASSUME s # <<>>
      PROVE  /\ Head(s) \in A => Cardinality(Hits(s, A)) = Cardinality(Hits(Tail(s), A)) + 1
             /\ Head(s) \notin A => Cardinality(Hits(s, A)) = Cardinality(Hits(Tail(s), A))
             /\ Hits(s, A) = {} => Head(s) \notin A /\ Hits(Tail(s), A) = {}
  <2> DEFINE t == Tail(s)
             f == [i \in Hits(t, A) |-> i + 1]
  <2>1. /\ t \in Seq(S) /\ Len(t) = Len(s) - 1 /\ Head(s) = s[1] /\ Len(s) >= 1
        /\ \A i \in 1..Len(t) : t[i] = s[i + 1]
    BY <1>3
  <2> HIDE DEF t
  <2>2. \A i \in 1..Len(t) : i + 1 \in 1..Len(s) /\ i + 1 # 1 BY <1>0, <2>1
  <2>3. \A j \in 1..Len(s) : j # 1 => j - 1 \in 1..Len(t) /\ (j - 1) + 1 = j BY <1>0, <2>1
  <2>4. \A i \in Hits(t, A) : i \in 1..Len(t) /\ i + 1 \in Hits(s, A) \ {1}
    BY <2>1, <2>2 DEF Hits
  <2>5. \A j \in Hits(s, A) \ {1} : j - 1 \in Hits(t, A) /\ (j - 1) + 1 = j
    BY <2>1, <2>3 DEF Hits
  <2>6. f \in Bijection(Hits(t, A), Hits(s, A) \ {1})
    <3>1. f \in [Hits(t, A) -> Hits(s, A) \ {1}] BY <2>4
    <3>2. \A i, j \in Hits(t, A) : f[i] = f[j] => i = j BY <2>4
    <3>3. \A j \in Hits(s, A) \ {1} : \E i \in Hits(t, A) : f[i] = j BY <2>5
    <3> QED BY <3>1, <3>2, <3>3 DEF Bijection, Injection, Surjection, IsInjective
  <2>7. Cardinality(Hits(s, A) \ {1}) = Cardinality(Hits(t, A))
    BY <1>1, <2>1, <2>6, FS_Bijection DEF ExistsBijection
  <2>8. 1 \in Hits(s, A) <=> Head(s) \in A BY <1>0, <2>1 DEF Hits
  <2>9. Cardinality(Hits(s, A) \ {1}) =
          IF 1 \in Hits(s, A) THEN Cardinality(Hits(s, A)) - 1 ELSE Cardinality(Hits(s, A))
    BY <1>1, FS_RemoveElement
  <2>10. Hits(s, A) = {} => Hits(t, A) = {} BY <2>4
  <2> QED BY <1>1, <2>7, <2>8, <2>9, <2>10 DEF t
<1> QED BY <1>1, <1>2, <1>3

\* An empty queue has no hits.
LEMMA HitsEmpty == \A A : Hits(<<>>, A) = {} /\ Cardinality(Hits(<<>>, A)) = 0
<1>1. \A A : Hits(<<>>, A) = {} BY OneFrame DEF Hits
<1> QED BY <1>1, FS_EmptySet

\* Nothing but its own answers concerns what a process is told.
LEMMA HelloAnsweredLocal ==
  ASSUME NetInv, HelloInv, NEW p \in Procs, HelloAnswered(p),
         ClientStep(p) \/ HandlerStep(p) \/ Accept(p) \/ Kill(p) \/ ConnectionReset(p)
  PROVE  HelloAnswered(p)'
<1>0. /\ Functions /\ ProcInv(p) /\ SaysHelloOnce(p) /\ Cap \in Nat \ {0}
      /\ down[p] \in Seq(AckFrames)
  BY Before DEF HelloInv, ProcInv
<1>1. CASE Connect(p) BY <1>0, <1>1 DEF HelloAnswered, Functions, Connect, Goto
<1>2. CASE SendHello(p)
  <2>1. up[p] = <<>> /\ down[p] = <<>> /\ reply[p] = None
    BY <1>0, <1>2 DEF ProcInv, SendHello, SaysHelloOnce
  <2>2. \/ pc'[p] = "failed"
        \/ pc'[p] = "hello" /\ up'[p] = <<HelloFrame(p)>> /\ UNCHANGED <<down, reply>>
    BY <1>0, <1>2, <2>1, OneFrame DEF Functions, SendHello, Goto
  <2> QED BY <2>1, <2>2 DEF HelloAnswered, OneAnswer
<1>3. CASE RecvHelloAck(p)
  <2>1. pc[p] = "hello" /\ down[p] # <<>> BY <1>3 DEF RecvHelloAck
  <2>2. Tail(down[p]) = <<>> /\ reply[p] = None
    BY <2>1, OneFrame DEF HelloAnswered, OneAnswer
  <2>3. down'[p] = <<>> /\ reply' = reply /\ pc'[p] # "hello"
    BY <1>0, <1>3, <2>2 DEF Functions, RecvHelloAck, Goto
  <2> QED BY <2>2, <2>3, HitsEmpty, AckAssumption, FrameTypes DEF HelloAnswered
<1>4. CASE HelloUnanswered(p) \/ Disconnect(p) \/ Kill(p) \/ ConnectionReset(p)
  <2>1. pc'[p] \in Ended
    BY <1>0, <1>4 DEF Functions, HelloUnanswered, Disconnect, Kill, ConnectionReset, Goto,
                      Closed, Ended
  <2> QED BY <2>1 DEF HelloAnswered, Ended
<1>5. CASE SendObservation(p) \/ AckUnanswered(p)
  <2>1. UNCHANGED <<down, reply>> /\ pc[p] \in {"ready", "await"} /\ pc'[p] \in {"ready", "await"}
    BY <1>0, <1>5 DEF Functions, SendObservation, AckUnanswered, Goto
  <2> QED BY <2>1 DEF HelloAnswered
<1>6. CASE RecvAck(p)
  <2>1. /\ pc[p] = "await" /\ pc'[p] = "ready" /\ down[p] # <<>>
        /\ down'[p] = Tail(down[p]) /\ reply' = reply
    BY <1>0, <1>6 DEF Functions, RecvAck, Goto
  <2>2. Hits(Tail(down[p]), {HelloAck}) = {} BY <1>0, <2>1, HitsFacts DEF HelloAnswered
  <2> QED BY <2>1, <2>2 DEF HelloAnswered
<1>7. CASE HandleHello(p)
  <2>1. pc' = pc /\ down' = down /\ up'[p] = Tail(up[p]) /\ reply'[p] = HelloAck
        /\ pc[p] \in {"hello", "failed", "dead"} /\ up[p] # <<>>
    BY <1>0, <1>7, HelloHandled DEF Functions, HandleHello, Reading, Consume
  <2>2. pc[p] = "hello" => down[p] = <<>> /\ Tail(up[p]) = <<>>
    BY <2>1, OneFrame DEF HelloAnswered, OneAnswer
  <2> QED BY <2>1, <2>2, FrameTypes DEF HelloAnswered, OneAnswer
<1>8. CASE HandleObs(p)
  <2>1. /\ pc' = pc /\ down' = down /\ up[p] # <<>> /\ Head(up[p]).type = "OBS"
        /\ reply'[p] = ObsAck(IngestDecision(Head(up[p]).obs))
    BY <1>0, <1>8 DEF Functions, HandleObs, Reading
  <2>2. pc[p] # "hello" BY <2>1, OneFrame DEF HelloAnswered, OneAnswer, HelloFrame
  <2>3. reply'[p] # HelloAck BY <2>1 DEF ObsAck, HelloAck
  <2> QED BY <2>1, <2>2, <2>3 DEF HelloAnswered
<1>9. CASE HandleUndecodable(p) \/ HandleBye(p)
  <2>1. /\ pc' = pc /\ down' = down /\ reply' = reply /\ up[p] # <<>>
        /\ Head(up[p]).type # "HELLO"
    BY <1>0, <1>9 DEF Functions, HandleUndecodable, HandleBye, Reading, Bye
  <2>2. pc[p] # "hello" BY <2>1, OneFrame DEF HelloAnswered, OneAnswer, HelloFrame
  <2> QED BY <2>1, <2>2 DEF HelloAnswered
<1>10. CASE Reply(p)
  <2>1. /\ pc' = pc /\ up' = up /\ reply[p] # None /\ reply[p] \in AckFrames /\ reply'[p] = None
        /\ down'[p] = IF Len(down[p]) < Cap THEN Append(down[p], reply[p]) ELSE down[p]
    BY <1>0, <1>10 DEF Functions, ProcInv, Reply
  <2>2. pc[p] = "hello" => up[p] = <<>> /\ down[p] = <<>>
    BY <2>1 DEF HelloAnswered, OneAnswer
  <2>3. pc[p] = "hello" => down'[p] = <<reply[p]>>
    <3>1. pc[p] = "hello" => Len(down[p]) < Cap BY <1>0, <2>2, OneFrame
    <3> QED BY <2>1, <2>2, <3>1, OneFrame
  <2>4. pc[p] \in {"ready", "await"} => Hits(down'[p], {HelloAck}) = {}
    <3>1. SUFFICES ASSUME pc[p] \in {"ready", "await"} PROVE Hits(down'[p], {HelloAck}) = {}
      OBVIOUS
    <3>2. Hits(down[p], {HelloAck}) = {} /\ reply[p] \notin {HelloAck}
      BY <3>1 DEF HelloAnswered
    <3>3. Hits(Append(down[p], reply[p]), {HelloAck}) = {}
      <4>1. \A x \in AckFrames : x \notin {HelloAck} =>
              Hits(Append(down[p], x), {HelloAck}) = Hits(down[p], {HelloAck})
        BY <1>0, HitsFacts
      <4> QED BY <2>1, <3>2, <4>1
    <3> QED BY <2>1, <3>2, <3>3
  <2>5. None # HelloAck BY FrameTypes
  <2> QED BY <2>1, <2>2, <2>3, <2>4, <2>5 DEF HelloAnswered, OneAnswer
<1>11. CASE HandleMisread(p)
  <2>1. /\ pc' = pc /\ down' = down /\ reply' = reply
        /\ \/ up[p] # <<>> /\ up'[p] = Tail(up[p])
           \/ up'[p] = <<>>
    BY <1>0, <1>11 DEF Functions, HandleMisread, Consume
  <2>2. pc[p] = "hello" => up'[p] = <<>>
    <3>1. pc[p] = "hello" => up[p] = <<>> \/ up[p] = <<HelloFrame(p)>>
      BY DEF HelloAnswered, OneAnswer
    <3> QED BY <2>1, <3>1, OneFrame
  <2> QED BY <2>1, <2>2 DEF HelloAnswered, OneAnswer
<1>12. CASE HandleEof(p) \/ HandleIdle(p) \/ Probe(p) \/ Accept(p)
  <2>1. UNCHANGED <<pc, down, reply, up>> BY <1>12 DEF HandleEof, HandleIdle, Probe, Accept
  <2> QED BY <2>1 DEF HelloAnswered, OneAnswer
<1> QED BY <1>1, <1>2, <1>3, <1>4, <1>5, <1>6, <1>7, <1>8, <1>9, <1>10, <1>11, <1>12
        DEF ClientStep, HandlerStep

\* The evidence of a worker's boot that was decided so becomes no less.
LEMMA DecidedGrows ==
  ASSUME Inv, Inv', NetInv, [NetNext]_allvars, NEW p \in Procs, NEW d \in Decisions
  PROVE  /\ IsFiniteSet(DecidedAs(p, d)) /\ Cardinality(DecidedAs(p, d)) \in Nat
         /\ IsFiniteSet(DecidedAs(p, d)') /\ Cardinality(DecidedAs(p, d)') \in Nat
         /\ DecidedAs(p, d) \subseteq DecidedAs(p, d)'
         /\ Cardinality(DecidedAs(p, d)) <= Cardinality(DecidedAs(p, d)')
<1>1. /\ IsFiniteSet(DOMAIN accepted) /\ IsFiniteSet(DOMAIN accepted')
      /\ stale \in Seq(StaleEvidence) /\ stale' \in Seq(StaleEvidence)
  BY DEF Inv, TypeOK
<1>2. IsFiniteSet(1..Len(stale)) /\ IsFiniteSet(1..Len(stale')) BY <1>1, FS_Interval
<1>3. IsFiniteSet(DecidedAs(p, d)) /\ IsFiniteSet(DecidedAs(p, d)')
  <2>1. DecidedAs(p, d) \subseteq DOMAIN accepted \/ DecidedAs(p, d) \subseteq 1..Len(stale)
    BY DEF DecidedAs
  <2>2. DecidedAs(p, d)' \subseteq DOMAIN accepted' \/ DecidedAs(p, d)' \subseteq 1..Len(stale')
    BY DEF DecidedAs
  <2> QED BY <1>1, <1>2, <2>1, <2>2, FS_Subset
<1>4. /\ \A id \in DOMAIN accepted : id \in DOMAIN accepted' /\ accepted'[id] = accepted[id]
      /\ \A j \in 1..Len(stale) : j \in 1..Len(stale') /\ stale'[j] = stale[j]
  <2> DEFINE Kept == /\ \A id \in DOMAIN accepted :
                          id \in DOMAIN accepted' /\ accepted'[id] = accepted[id]
                     /\ \A j \in 1..Len(stale) : j \in 1..Len(stale') /\ stale'[j] = stale[j]
  <2>1. CASE UNCHANGED <<accepted, stale>> BY <2>1
  <2>2. ASSUME NEW o \in Observations, Ingest(o) PROVE Kept
    <3>1. CASE IngestAccepted(o) BY <3>1 DEF IngestAccepted, Put
    <3>2. ASSUME NEW r, Retain(o, r), accepted' = accepted PROVE Kept
      <4>1. stale' = Append(stale, [obs |-> o, reason |-> r]) BY <3>2 DEF Retain
      <4> QED BY <1>1, <3>2, <4>1
    <3> QED BY <2>2, <3>1, <3>2 DEF Ingest, IngestDuplicate, IngestRejected
  <2> QED BY <2>1, <2>2, StepOfCoordinator DEF HandleHello, HandleObs, RegisterHello, evidence, vars
<1>5. DecidedAs(p, d) \subseteq DecidedAs(p, d)' BY <1>4 DEF DecidedAs
<1> QED BY <1>3, <1>5, FS_Subset, FS_CardinalityType

\* Every decision adds to what was decided so.
LEMMA DecidedAdds ==
  ASSUME OwnScripts, Inv, Inv', NetInv, [NetNext]_allvars, NEW p \in Procs, NEW d \in Decisions,
         NEW m \in 1..Len(Script[p]), Ingest(Script[p][m]),
         IngestDecision(Script[p][m]) = d
  PROVE  Cardinality(DecidedAs(p, d)') >= Cardinality(DecidedAs(p, d)) + 1
<1> DEFINE o == Script[p][m]
<1>1. o.key = Config[p].key /\ o.boot = Config[p].boot BY DEF OwnScripts
<1>2. \E x : x \in DecidedAs(p, d)' /\ x \notin DecidedAs(p, d)
  <2>1. CASE d = "ACCEPTED"
    <3>1. IngestAccepted(o)
      BY <2>1 DEF Ingest, IngestDuplicate, IngestRejected, IngestDecision
    <3>2. o.id \notin DOMAIN accepted /\ accepted' = Put(accepted, o.id, o)
      BY <3>1 DEF IngestAccepted
    <3>3. o.id \in DecidedAs(p, d)' /\ o.id \notin DecidedAs(p, d)
      BY <1>1, <2>1, <3>2 DEF DecidedAs, Put
    <3> QED BY <3>3
  <2>2. CASE d # "ACCEPTED"
    <3> DEFINE n == Len(stale) + 1
    <3>1. stale' = Append(stale, [obs |-> o, reason |-> d])
      BY <2>2 DEF Ingest, IngestDuplicate, IngestRejected, IngestAccepted, IngestDecision, Retain
    <3>2. stale \in Seq(StaleEvidence) BY DEF Inv, TypeOK
    <3>3. n \in 1..Len(stale') /\ stale'[n] = [obs |-> o, reason |-> d] /\ n \notin 1..Len(stale)
      BY <3>1, <3>2
    <3>4. stale'[n].reason = d /\ stale'[n].obs = o BY <3>3
    <3>5. n \in DecidedAs(p, d)' /\ n \notin DecidedAs(p, d)
      BY <1>1, <2>2, <3>3, <3>4 DEF DecidedAs
    <3> QED BY <3>5
  <2> QED BY <2>1, <2>2
<1>3. PICK x : x \in DecidedAs(p, d)' /\ x \notin DecidedAs(p, d) BY <1>2
<1>4. DecidedAs(p, d) \cup {x} \subseteq DecidedAs(p, d)' BY <1>3, DecidedGrows
<1>5. /\ IsFiniteSet(DecidedAs(p, d)) /\ Cardinality(DecidedAs(p, d)) \in Nat
      /\ IsFiniteSet(DecidedAs(p, d)') /\ Cardinality(DecidedAs(p, d)') \in Nat
  BY DecidedGrows
<1>6. Cardinality(DecidedAs(p, d) \cup {x}) = Cardinality(DecidedAs(p, d)) + 1
  BY <1>3, <1>5, FS_AddElement
<1>7. Cardinality(DecidedAs(p, d) \cup {x}) <= Cardinality(DecidedAs(p, d)')
  BY <1>4, <1>5, FS_Subset
<1> QED BY <1>5, <1>6, <1>7

\* What a step does to the queues of a process and its acks.
LEMMA AccountedStays ==
  ASSUME Inv, Inv', NetInv, NetInv', [NetNext]_allvars, NEW p \in Procs, NEW d \in Decisions, Accounted(p, d),
         acks'[p] = acks[p], Pending(p, d)' <= Pending(p, d),
         \/ down'[p] = down[p]
         \/ down[p] # <<>> /\ down'[p] = Tail(down[p])
  PROVE  Accounted(p, d)'
<1> DEFINE A == {ObsAck(d)}
<1>1. /\ down[p] \in Seq(AckFrames) /\ down'[p] \in Seq(AckFrames)
      /\ acks[p] \in Seq(Acks) /\ acks'[p] \in Seq(Acks)
  BY DEF NetInv, ProcInv
<1>2. /\ Cardinality(Hits(down[p], A)) \in Nat /\ Cardinality(Hits(down'[p], A)) \in Nat
      /\ Cardinality(Hits(acks[p], AcksOf(d))) \in Nat
      /\ Pending(p, d) \in Nat /\ Pending(p, d)' \in Nat
  BY <1>1, HitsFacts DEF Pending
<1>3. Cardinality(Hits(down'[p], A)) <= Cardinality(Hits(down[p], A))
  <2>1. CASE down'[p] = down[p]
    BY <1>2, <2>1
  <2>2. CASE down[p] # <<>> /\ down'[p] = Tail(down[p])
    <3>1. \/ Cardinality(Hits(down[p], A)) = Cardinality(Hits(Tail(down[p]), A)) + 1
          \/ Cardinality(Hits(down[p], A)) = Cardinality(Hits(Tail(down[p]), A))
      BY <1>1, <2>2, HitsFacts, Zenon
    <3> QED BY <1>2, <2>2, <3>1
  <2> QED BY <2>1, <2>2
<1>4. /\ Cardinality(DecidedAs(p, d)) \in Nat /\ Cardinality(DecidedAs(p, d)') \in Nat
      /\ Cardinality(DecidedAs(p, d)) <= Cardinality(DecidedAs(p, d)')
  BY DecidedGrows
<1>5. Accounted(p, d)' <=>
        Cardinality(Hits(acks'[p], AcksOf(d))) + Cardinality(Hits(down'[p], A)) + Pending(p, d)'
          <= Cardinality(DecidedAs(p, d)')
  BY DEF Accounted
<1> QED BY <1>2, <1>3, <1>4, <1>5 DEF Accounted

\* Every step of a process or its handler keeps the account.
LEMMA AccountedLocal ==
  ASSUME OwnScripts, Inv, Inv', NetInv, NetInv', HelloInv, NEW p \in Procs, NEW d \in Decisions, InOrder(p),
         [NetNext]_allvars, HelloAnswered(p), Accounted(p, d),
         ClientStep(p) \/ HandlerStep(p) \/ Accept(p) \/ Kill(p) \/ ConnectionReset(p)
  PROVE  Accounted(p, d)'
<1> DEFINE A == {ObsAck(d)}
           told == Cardinality(Hits(acks[p], AcksOf(d)))
           sending == Cardinality(Hits(down[p], A))
           have == Cardinality(DecidedAs(p, d))
<1>0. /\ Functions /\ ProcInv(p) /\ down[p] \in Seq(AckFrames) /\ acks[p] \in Seq(Acks)
      /\ ProcInv(p)'
  BY Before DEF ProcInv, NetInv
<1>01. told \in Nat /\ sending \in Nat /\ have \in Nat /\ Pending(p, d) \in Nat
  BY <1>0, HitsFacts, DecidedGrows DEF Pending
<1>02. have <= Cardinality(DecidedAs(p, d)') /\ Cardinality(DecidedAs(p, d)') \in Nat
  BY DecidedGrows
<1>03. told + sending + Pending(p, d) <= have BY DEF Accounted
<1>04. Accounted(p, d)' <=>
         Cardinality(Hits(acks'[p], AcksOf(d))) + Cardinality(Hits(down'[p], A)) + Pending(p, d)'
           <= Cardinality(DecidedAs(p, d)')
  BY DEF Accounted
<1> HIDE DEF A, told, sending, have
<1>1. ASSUME UNCHANGED <<acks, down, reply>> PROVE Accounted(p, d)'
  BY <1>1, <1>01, AccountedStays DEF Pending
<1>2. CASE ClientStep(p) /\ ~RecvHelloAck(p) /\ ~RecvAck(p)
  BY <1>1, <1>2 DEF ClientStep, Connect, SendHello, HelloUnanswered, SendObservation,
                    AckUnanswered, Disconnect
<1>3. CASE RecvHelloAck(p)
  <2>1. acks' = acks /\ reply' = reply /\ down[p] # <<>> /\ down'[p] = Tail(down[p])
    BY <1>0, <1>3 DEF Functions, RecvHelloAck
  <2> QED BY <2>1, <1>01, AccountedStays DEF Pending
<1>4. CASE RecvAck(p)
  <2> DEFINE a == [obs |-> Script[p][sent[p]], decision |-> Head(down[p]).decision]
  <2>1. /\ pc[p] = "await" /\ reply' = reply /\ down[p] # <<>> /\ down'[p] = Tail(down[p])
        /\ acks'[p] = Append(acks[p], a)
    BY <1>0, <1>4 DEF Functions, RecvAck
  <2>2. Head(down[p]) \in AckFrames /\ Head(down[p]) # HelloAck
    <3>1. Head(down[p]) \in AckFrames BY <2>1, <1>0, QueueFacts
    <3>2. Hits(down[p], {HelloAck}) = {} BY <2>1 DEF HelloAnswered
    <3>3. Head(down[p]) \notin {HelloAck} BY <1>0, <2>1, <3>2, HitsFacts
    <3> QED BY <3>1, <3>3
  <2>3. Head(down[p]).decision = d <=> Head(down[p]) \in A
    <3>1. PICK c \in Decisions : Head(down[p]) = ObsAck(c)
      BY <2>2 DEF AckFrames, Decisions
    <3>2. Head(down[p]).decision = c BY <3>1 DEF ObsAck
    <3>3. Head(down[p]) \in A <=> c = d BY <3>1, <3>2 DEF A, ObsAck
    <3> QED BY <3>2, <3>3
  <2>4. a \in Acks
    <3>1. sent[p] \in 1..Len(Script[p]) BY <1>0, <2>1, Before DEF ProcInv
    <3> QED BY <2>2, <3>1, ScriptEntry, FrameTypes DEF Acks
  <2>5. a \in AcksOf(d) <=> Head(down[p]) \in A BY <2>3, <2>4 DEF AcksOf
  <2>6. Pending(p, d)' = Pending(p, d) BY <2>1 DEF Pending
  <2>7. CASE Head(down[p]) \in A
    <3>1. Cardinality(Hits(Append(acks[p], a), AcksOf(d))) = told + 1
      BY <1>0, <2>4, <2>5, <2>7, HitsFacts DEF told
    <3>2. sending = Cardinality(Hits(Tail(down[p]), A)) + 1
      BY <1>0, <2>1, <2>7, HitsFacts DEF sending
    <3>3. Cardinality(Hits(Tail(down[p]), A)) \in Nat
      BY <1>0, <2>1, QueueFacts, HitsFacts
    <3> QED BY <1>01, <1>02, <1>03, <1>04, <2>1, <2>6, <3>1, <3>2, <3>3
  <2>8. CASE Head(down[p]) \notin A
    <3>1. Cardinality(Hits(Append(acks[p], a), AcksOf(d))) = told
      BY <1>0, <2>4, <2>5, <2>8, HitsFacts DEF told
    <3>2. sending = Cardinality(Hits(Tail(down[p]), A))
      BY <1>0, <2>1, <2>8, HitsFacts DEF sending
    <3> QED BY <1>01, <1>02, <1>03, <1>04, <2>1, <2>6, <3>1, <3>2
  <2> QED BY <2>7, <2>8
<1>5. CASE HandleHello(p)
  <2>1. acks' = acks /\ down' = down /\ reply'[p] = HelloAck
    BY <1>0, <1>5 DEF Functions, HandleHello
  <2>2. Pending(p, d)' = 0 BY <2>1 DEF Pending, HelloAck, ObsAck
  <2> QED BY <1>01, <2>1, <2>2, AccountedStays
<1>6. CASE HandleObs(p)
  <2>1. /\ acks' = acks /\ down' = down /\ reply[p] = None
        /\ reply'[p] = ObsAck(IngestDecision(Head(up[p]).obs))
        /\ Ingest(Head(up[p]).obs)
    BY <1>0, <1>6 DEF Functions, HandleObs, Reading, ProcInv
  <2>2. Pending(p, d) = 0 BY <2>1, FrameTypes DEF Pending, Decisions
  <2>3. CASE IngestDecision(Head(up[p]).obs) # d
    <3>1. Pending(p, d)' = 0 BY <2>1, <2>3 DEF Pending, ObsAck
    <3> QED BY <2>1, <2>2, <3>1, AccountedStays
  <2>4. CASE IngestDecision(Head(up[p]).obs) = d
    <3>1. PICK m \in 1..Len(Script[p]) : Script[p][m] = Head(up[p]).obs
      BY <1>6, ObservationRead, InOrderHandles
    <3>2. Cardinality(DecidedAs(p, d)') >= have + 1
      BY <2>1, <2>4, <3>1, DecidedAdds DEF have
    <3>3. Pending(p, d)' = 1 BY <2>1, <2>4 DEF Pending
    <3>4. Cardinality(Hits(acks'[p], AcksOf(d))) = told /\ Cardinality(Hits(down'[p], A)) = sending
      BY <2>1 DEF told, sending
    <3> QED BY <1>01, <1>02, <1>03, <1>04, <2>2, <3>2, <3>3, <3>4
  <2> QED BY <2>3, <2>4
<1>7. CASE Reply(p)
  <2>1. /\ acks' = acks /\ reply[p] \in AckFrames /\ reply'[p] = None
        /\ down'[p] = Append(down[p], reply[p]) \/ down'[p] = down[p]
    BY <1>0, <1>7 DEF Functions, ProcInv, Reply
  <2>2. Pending(p, d)' = 0 BY <2>1, FrameTypes DEF Pending, Decisions
  <2>3. Cardinality(Hits(acks'[p], AcksOf(d))) = told BY <2>1 DEF told
  <2>4. Cardinality(Hits(Append(down[p], reply[p]), A)) = sending + Pending(p, d)
    <3>1. reply[p] \in A <=> Pending(p, d) = 1 BY DEF A, Pending
    <3>2. Pending(p, d) = 0 \/ Pending(p, d) = 1 BY DEF Pending
    <3>3. reply[p] \in A => Cardinality(Hits(Append(down[p], reply[p]), A)) = sending + 1
      BY <1>0, <2>1, HitsFacts DEF sending
    <3>4. reply[p] \notin A => Cardinality(Hits(Append(down[p], reply[p]), A)) = sending
      <4>1. reply[p] \notin A => Hits(Append(down[p], reply[p]), A) = Hits(down[p], A)
        BY <1>0, <2>1, HitsFacts
      <4> QED BY <4>1 DEF sending
    <3> QED BY <1>01, <3>1, <3>2, <3>3, <3>4
  <2>5. Cardinality(Hits(down'[p], A)) <= sending + Pending(p, d) /\ Cardinality(Hits(down'[p], A)) \in Nat
    <3>1. CASE down'[p] = Append(down[p], reply[p]) BY <1>01, <2>4, <3>1
    <3>2. CASE down'[p] = down[p]
      <4>1. Cardinality(Hits(down'[p], A)) = sending BY <3>2 DEF sending
      <4> QED BY <1>01, <4>1
    <3> QED BY <2>1, <3>1, <3>2
  <2> QED BY <1>01, <1>02, <1>03, <1>04, <2>2, <2>3, <2>5
<1>8. CASE \/ HandleUndecodable(p) \/ HandleBye(p) \/ HandleEof(p) \/ HandleIdle(p)
           \/ Probe(p) \/ HandleMisread(p) \/ Accept(p) \/ Kill(p) \/ ConnectionReset(p)
  BY <1>1, <1>8 DEF HandleUndecodable, HandleBye, HandleEof, HandleIdle, Probe, HandleMisread,
                    Accept, Kill, ConnectionReset
<1> QED BY <1>2, <1>3, <1>4, <1>5, <1>6, <1>7, <1>8 DEF ClientStep, HandlerStep

\* Every step keeps the account.
LEMMA AckStep ==
  ASSUME OwnScripts, Inv, Inv', NetInv, NetInv', HelloInv, OrderInv, AckInv, [NetNext]_allvars
  PROVE  AckInv'
<1> SUFFICES ASSUME NEW q \in Procs, NEW d \in Decisions
             PROVE  HelloAnswered(q)' /\ Accounted(q, d)'
  <2>1. \E d : d \in Decisions BY DEF Decisions
  <2> QED BY <2>1 DEF AckInv
<1>0. HelloAnswered(q) /\ Accounted(q, d) BY DEF AckInv
<1>1. ASSUME pc'[q] = pc[q], up'[q] = up[q], down'[q] = down[q], reply'[q] = reply[q],
             acks'[q] = acks[q]
      PROVE  HelloAnswered(q)' /\ Accounted(q, d)'
  <2>1. HelloAnswered(q)' BY <1>0, <1>1 DEF HelloAnswered, OneAnswer
  <2>2. Pending(q, d)' <= Pending(q, d) BY <1>1 DEF Pending
  <2> QED BY <1>0, <1>1, <2>1, <2>2, AccountedStays
<1>2. ASSUME NEW p \in Procs,
             ClientStep(p) \/ HandlerStep(p) \/ Accept(p) \/ Kill(p) \/ ConnectionReset(p)
      PROVE  HelloAnswered(q)' /\ Accounted(q, d)'
  <2>1. CASE q = p BY <1>0, <1>2, <2>1, HelloAnsweredLocal, AccountedLocal DEF OrderInv
  <2>2. CASE q # p
    <3>1. Local(p) BY <1>2, StepsAreLocal DEF NetInv
    <3> QED BY <1>1, <2>2, <3>1 DEF NetInv, Functions, Local
  <2> QED BY <2>1, <2>2
<1>3. CASE AcceptorExit \/ StopBegin \/ StopStep \/ UNCHANGED allvars
  BY <1>1, <1>3 DEF AcceptorExit, StopBegin, StopStep, StopListener, JoinAcceptor, JoinClients,
                    allvars, netvars
<1> QED BY <1>2, <1>3 DEF NetNext

\* For observations stamped with their sender's worker and boot: whatever
\* comes late, twice or not at all, a source counts no more acceptances, and
\* no more refusals for one reason, than the coordinator holds of it.
THEOREM AcksBoundedAlways ==
  ASSUME OwnScripts
  PROVE  NetSpec => []AcksBounded
<1>1. NetInit => AckInv
  <2> SUFFICES ASSUME NetInit, NEW p \in Procs, NEW d \in Decisions
               PROVE  HelloAnswered(p) /\ Accounted(p, d)
    <3>1. \E d : d \in Decisions BY DEF Decisions
    <3> QED BY <3>1 DEF AckInv
  <2>1. /\ pc[p] = "start" /\ acks[p] = <<>> /\ down[p] = <<>> /\ reply[p] = None
        /\ DOMAIN accepted = {} /\ stale = <<>>
    BY DEF NetInit, Init, EmptyMap
  <2>2. Pending(p, d) = 0 BY <2>1, FrameTypes DEF Pending, Decisions
  <2>3. DecidedAs(p, d) = {} BY <2>1 DEF DecidedAs
  <2>4. Cardinality(DecidedAs(p, d)) = 0 BY <2>3, FS_EmptySet
  <2> QED BY <2>1, <2>2, <2>4, HitsEmpty DEF HelloAnswered, Accounted
<1>2. Inv /\ Inv' /\ NetInv /\ NetInv' /\ HelloInv /\ OrderInv /\ AckInv /\ [NetNext]_allvars
        => AckInv'
  BY AckStep
<1>3. ASSUME Inv, NetInv, AckInv PROVE AcksBounded
  <2> SUFFICES ASSUME NEW p \in Procs, NEW d \in Decisions
               PROVE  Cardinality({i \in 1..Len(acks[p]) : acks[p][i].decision = d})
                        <= Cardinality(DecidedAs(p, d))
    BY DEF AcksBounded, Decisions
  <2>1. acks[p] \in Seq(Acks) /\ down[p] \in Seq(AckFrames) BY <1>3 DEF NetInv, ProcInv
  <2>2. {i \in 1..Len(acks[p]) : acks[p][i].decision = d} = Hits(acks[p], AcksOf(d))
    BY <2>1 DEF Hits, AcksOf
  <2>3. /\ Cardinality(Hits(acks[p], AcksOf(d))) \in Nat
        /\ Cardinality(Hits(down[p], {ObsAck(d)})) \in Nat
    BY <2>1, HitsFacts
  <2>4. Pending(p, d) \in Nat BY DEF Pending
  <2>5. Cardinality(DecidedAs(p, d)) \in Nat
    <3>1. IsFiniteSet(DOMAIN accepted) /\ Len(stale) \in Nat BY <1>3 DEF Inv, TypeOK
    <3>2. IsFiniteSet(1..Len(stale)) BY <3>1, FS_Interval
    <3>3. DecidedAs(p, d) \subseteq DOMAIN accepted \/ DecidedAs(p, d) \subseteq 1..Len(stale)
      BY DEF DecidedAs
    <3> QED BY <3>1, <3>2, <3>3, FS_Subset, FS_CardinalityType
  <2>6. Cardinality(Hits(acks[p], AcksOf(d)))
          + Cardinality(Hits(down[p], {ObsAck(d)})) + Pending(p, d)
          <= Cardinality(DecidedAs(p, d))
    BY <1>3 DEF AckInv, Accounted
  <2>7. Cardinality(Hits(acks[p], AcksOf(d))) <= Cardinality(DecidedAs(p, d))
    BY <2>3, <2>4, <2>5, <2>6
  <2> QED BY <2>2, <2>7
<1> QED BY <1>1, <1>2, <1>3, DeliveryInvariant, PTL DEF NetSpec
=============================================================================
