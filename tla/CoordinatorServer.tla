------------------------- MODULE CoordinatorServer -------------------------
(***************************************************************************)
(* The coordinator's TCP server (coordinator.cpp: start, stop, accept_loop,*)
(* handle_client) together with the source processes that talk to it       *)
(* (source.cpp, obscli source), over sockets as network.cpp uses them.     *)
(*                                                                         *)
(* Threads.  The main thread runs start, waits, and runs stop; one accept  *)
(* thread; one handler thread per connection.  Each source process p is    *)
(* one run of obscli source with the configuration Config[p]: it connects, *)
(* says HELLO, sends the observations of Script[p] in order and says BYE.  *)
(* A restarted worker is another process with a later boot, started when   *)
(* the processes in After[p] have ended.                                   *)
(*                                                                         *)
(* A connection is a pair of bounded FIFO queues of frames, one per        *)
(* direction (socket buffers of Cap frames).  A frame is indivisible       *)
(* except where the handler eats a single byte of it (recv_some(1)): the   *)
(* stream is then no longer at a frame boundary.                           *)
(*                                                                         *)
(* Whether a socket returned by accept inherits the receive timeout that   *)
(* TcpListener::accept puts on the listening socket depends on the         *)
(* platform: ServerTimeout says which.                                     *)
(***************************************************************************)
EXTENDS Coordinator

CONSTANTS
  Procs,         \* source processes
  Config,        \* Config[p]: the HELLO payload of p (SourceConfig)
  Script,        \* Script[p]: the observations p sends, in order
  After,         \* After[p]: the processes that end before p is started
  Fire,          \* processes started with --fire
  Cap,           \* capacity of a socket buffer, in frames
  MaxTimeouts,   \* bound on ack timeouts per process
  Undecodable,   \* ids of observations read_observation_payload rejects
  ServerTimeout, \* BOOLEAN: recv on an accepted socket can time out
  Crashes        \* BOOLEAN: processes may be killed

ASSUME ScenarioAssumption ==
  /\ Config \in [Procs -> Hellos]
  /\ Script \in [Procs -> Seq(Observations)]
  /\ After \in [Procs -> SUBSET Procs]
  /\ Fire \subseteq Procs
  /\ Cap \in Nat \ {0}
  /\ MaxTimeouts \in Nat
  /\ Undecodable \subseteq ObsIds
  /\ ServerTimeout \in BOOLEAN /\ Crashes \in BOOLEAN

VARIABLES
  pc,        \* pc[p]: where process p is in cmd_source
  sent,      \* sent[p]: how many entries of its script p has passed to send
  timeouts,  \* timeouts[p]: ack timeouts p has seen
  acks,      \* acks[p]: what send_observation returned, in order
  up, down,  \* up[p], down[p]: frames in flight to the server, to the process
  conn,      \* conn[p]: the server side of the connection of p
  reply,     \* reply[p]: the ack a handler has computed and not yet sent
  aligned,   \* aligned[p]: the handler's next read starts at a frame boundary
  main,      \* the main thread: serving, or how far stop() has got
  acceptor   \* the accept thread

netvars == <<pc, sent, timeouts, acks, up, down, conn, reply, aligned, main, acceptor>>
allvars == <<vars, netvars>>

Ended == {"done", "failed", "dead"}
Alive(p) == pc[p] \notin Ended \cup {"start"}
Closed(p) == pc[p] \in Ended          \* the process has closed its socket
ServerClosed(p) == conn[p] = "closed" \* the handler has closed its socket

HelloFrame(p) == [type |-> "HELLO", hello |-> Config[p]]
ObsFrame(o) == [type |-> "OBS", obs |-> o]
Bye == [type |-> "BYE"]
HelloAck == [type |-> "HELLO_ACK", decision |-> "ACCEPTED"]
ObsAck(d) == [type |-> "OBS_ACK", decision |-> d]

Frames == {HelloFrame(p) : p \in Procs} \cup {ObsFrame(o) : o \in Observations} \cup {Bye}
AckFrames == {HelloAck} \cup {ObsAck(d) : d \in Reasons \cup {"ACCEPTED"}}

ASSUME AckAssumption == None \notin AckFrames

NetInit ==
  /\ Init
  /\ pc = [p \in Procs |-> "start"]
  /\ sent = [p \in Procs |-> 0]
  /\ timeouts = [p \in Procs |-> 0]
  /\ acks = [p \in Procs |-> <<>>]
  /\ up = [p \in Procs |-> <<>>]
  /\ down = [p \in Procs |-> <<>>]
  /\ conn = [p \in Procs |-> "none"]
  /\ reply = [p \in Procs |-> None]
  /\ aligned = [p \in Procs |-> TRUE]
  /\ main = "serving"
  /\ acceptor = "accepting"

-----------------------------------------------------------------------------
(* Source processes *)

Goto(p, label) == pc' = [pc EXCEPT ![p] = label]

\* TcpStream::connect: succeeds while the listening socket is open.
Connect(p) ==
  /\ pc[p] = "start"
  /\ \A q \in After[p] : Closed(q)
  /\ IF main \in {"serving", "stopping"}
     THEN Goto(p, "connected") /\ conn' = [conn EXCEPT ![p] = "backlog"]
     ELSE Goto(p, "failed") /\ UNCHANGED conn
  /\ UNCHANGED <<vars, sent, timeouts, acks, up, down, reply, aligned, main, acceptor>>

\* Mutant: the HELLO is sent twice.
SendHelloTwice(p) ==
  /\ pc[p] = "connected"
  /\ IF ServerClosed(p)
     THEN Goto(p, "failed") /\ UNCHANGED up
     ELSE Goto(p, "hello") /\ up' = [up EXCEPT ![p] = @ \o <<HelloFrame(p), HelloFrame(p)>>]
  /\ UNCHANGED <<vars, sent, timeouts, acks, down, conn, reply, aligned, main, acceptor>>

\* send_hello up to its recv_frame.
SendHello(p) ==
  /\ pc[p] = "connected"
  /\ IF ServerClosed(p)
     THEN Goto(p, "failed") /\ UNCHANGED up
     ELSE Goto(p, "hello") /\ up' = [up EXCEPT ![p] = Append(@, HelloFrame(p))]
  /\ UNCHANGED <<vars, sent, timeouts, acks, down, conn, reply, aligned, main, acceptor>>

\* send_hello from its recv_frame on; an ack of another type is a failure.
RecvHelloAck(p) ==
  /\ pc[p] = "hello"
  /\ down[p] # <<>>
  /\ Goto(p, IF Head(down[p]) = HelloAck THEN "ready" ELSE "failed")
  /\ down' = [down EXCEPT ![p] = Tail(@)]
  /\ UNCHANGED <<vars, sent, timeouts, acks, up, conn, reply, aligned, main, acceptor>>

\* recv_frame without a frame: the server closed, or the 10 s timeout.
\* cmd_source exits on a HELLO without ack.
HelloUnanswered(p) ==
  /\ pc[p] = "hello"
  /\ down[p] = <<>>
  /\ \/ ServerClosed(p) /\ UNCHANGED timeouts
     \/ /\ timeouts[p] < MaxTimeouts
        /\ timeouts' = [timeouts EXCEPT ![p] = @ + 1]
  /\ Goto(p, "failed")
  /\ UNCHANGED <<vars, sent, acks, up, down, conn, reply, aligned, main, acceptor>>

\* Mutant: the source announces itself again after each observation.
SendObservationAndHello(p) ==
  /\ pc[p] = "ready"
  /\ sent[p] < Len(Script[p])
  /\ sent' = [sent EXCEPT ![p] = @ + 1]
  /\ \/ /\ ServerClosed(p)
        /\ UNCHANGED <<up, pc>>
     \/ /\ ~ServerClosed(p)
        /\ Len(up[p]) < Cap
        /\ up' = [up EXCEPT ![p] = @ \o <<ObsFrame(Script[p][sent[p] + 1]), HelloFrame(p)>>]
        /\ Goto(p, IF p \in Fire THEN "ready" ELSE "await")
  /\ UNCHANGED <<vars, timeouts, acks, down, conn, reply, aligned, main, acceptor>>

\* send_observation up to recv_ack, or send_observation_fire.  send_all
\* blocks while the socket buffer is full and fails on a closed connection;
\* cmd_source goes on with its next entry either way.
SendObservation(p) ==
  /\ pc[p] = "ready"
  /\ sent[p] < Len(Script[p])
  /\ sent' = [sent EXCEPT ![p] = @ + 1]
  /\ \/ /\ ServerClosed(p)
        /\ UNCHANGED <<up, pc>>
     \/ /\ ~ServerClosed(p)
        /\ Len(up[p]) < Cap
        /\ up' = [up EXCEPT ![p] = Append(@, ObsFrame(Script[p][sent[p] + 1]))]
        /\ Goto(p, IF p \in Fire THEN "ready" ELSE "await")
  /\ UNCHANGED <<vars, timeouts, acks, down, conn, reply, aligned, main, acceptor>>

\* recv_ack: the next frame is taken for the ack of the last observation.
RecvAck(p) ==
  /\ pc[p] = "await"
  /\ down[p] # <<>>
  /\ acks' = [acks EXCEPT ![p] =
                Append(@, [obs |-> Script[p][sent[p]], decision |-> Head(down[p]).decision])]
  /\ down' = [down EXCEPT ![p] = Tail(@)]
  /\ Goto(p, "ready")
  /\ UNCHANGED <<vars, sent, timeouts, up, conn, reply, aligned, main, acceptor>>

\* recv_ack without a frame; cmd_source prints NOFRAME and goes on.
AckUnanswered(p) ==
  /\ pc[p] = "await"
  /\ down[p] = <<>>
  /\ \/ ServerClosed(p) /\ UNCHANGED timeouts
     \/ /\ timeouts[p] < MaxTimeouts
        /\ timeouts' = [timeouts EXCEPT ![p] = @ + 1]
  /\ Goto(p, "ready")
  /\ UNCHANGED <<vars, sent, acks, up, down, conn, reply, aligned, main, acceptor>>

\* disconnect: BYE, shutdown, close.
Disconnect(p) ==
  /\ pc[p] = "ready"
  /\ sent[p] = Len(Script[p])
  /\ \/ ServerClosed(p) /\ UNCHANGED up
     \/ /\ ~ServerClosed(p)
        /\ Len(up[p]) < Cap
        /\ up' = [up EXCEPT ![p] = Append(@, Bye)]
  /\ Goto(p, "done")
  /\ UNCHANGED <<vars, sent, timeouts, acks, down, conn, reply, aligned, main, acceptor>>

\* The process is killed.
Kill(p) ==
  /\ Crashes
  /\ Alive(p)
  /\ Goto(p, "dead")
  /\ UNCHANGED <<vars, sent, timeouts, acks, up, down, conn, reply, aligned, main, acceptor>>

\* A socket closed with data unread, or by a killed process, may be reset:
\* what the handler has not read yet is lost.
ConnectionReset(p) ==
  /\ Closed(p)
  /\ pc[p] = "dead" \/ down[p] # <<>>
  /\ up[p] # <<>>
  /\ up' = [up EXCEPT ![p] = <<>>]
  /\ UNCHANGED <<vars, pc, sent, timeouts, acks, down, conn, reply, aligned, main, acceptor>>

ClientStep(p) ==
  \/ Connect(p) \/ SendHello(p) \/ RecvHelloAck(p) \/ HelloUnanswered(p)
  \/ SendObservation(p) \/ RecvAck(p) \/ AckUnanswered(p) \/ Disconnect(p)

-----------------------------------------------------------------------------
(* Handler threads: one iteration of the loop of handle_client *)

Reading(p) == conn[p] = "reading" /\ aligned[p] /\ up[p] # <<>>
SetConn(p, state) == conn' = [conn EXCEPT ![p] = state]
Consume(p) == up' = [up EXCEPT ![p] = Tail(@)]

\* Mutant: the HELLO is not answered.
HandleHelloSilently(p) ==
  /\ Reading(p)
  /\ Head(up[p]).type = "HELLO"
  /\ RegisterHello(Head(up[p]).hello)
  /\ Consume(p)
  /\ UNCHANGED <<pc, sent, timeouts, acks, down, conn, reply, aligned, main, acceptor>>

\* HELLO: register under the coordinator's lock, then answer.
HandleHello(p) ==
  /\ Reading(p)
  /\ Head(up[p]).type = "HELLO"
  /\ RegisterHello(Head(up[p]).hello)
  /\ reply' = [reply EXCEPT ![p] = HelloAck]
  /\ SetConn(p, "replying")
  /\ Consume(p)
  /\ UNCHANGED <<pc, sent, timeouts, acks, down, aligned, main, acceptor>>

IngestDecision(o) ==
  IF o.id \in DOMAIN accepted THEN "DUPLICATE_ID" ELSE Decision(registry, o)

\* Mutant: the ack is a fixed acceptance, as HELLO's is.
HandleObsBlindAck(p) ==
  /\ Reading(p)
  /\ Head(up[p]).type = "OBS"
  /\ Head(up[p]).obs.id \notin Undecodable
  /\ Ingest(Head(up[p]).obs)
  /\ reply' = [reply EXCEPT ![p] = ObsAck("ACCEPTED")]
  /\ SetConn(p, "replying")
  /\ Consume(p)
  /\ UNCHANGED <<pc, sent, timeouts, acks, down, aligned, main, acceptor>>

\* OBS: ingest under the coordinator's lock, then answer with its decision.
HandleObs(p) ==
  /\ Reading(p)
  /\ Head(up[p]).type = "OBS"
  /\ Head(up[p]).obs.id \notin Undecodable
  /\ Ingest(Head(up[p]).obs)
  /\ reply' = [reply EXCEPT ![p] = ObsAck(IngestDecision(Head(up[p]).obs))]
  /\ SetConn(p, "replying")
  /\ Consume(p)
  /\ UNCHANGED <<pc, sent, timeouts, acks, down, aligned, main, acceptor>>

\* Mutant: what does not decode is answered as if it had been ingested.
HandleUndecodableAnswered(p) ==
  /\ Reading(p)
  /\ Head(up[p]).type = "OBS"
  /\ Head(up[p]).obs.id \in Undecodable
  /\ reply' = [reply EXCEPT ![p] = ObsAck(IngestDecision(Head(up[p]).obs))]
  /\ SetConn(p, "replying")
  /\ Consume(p)
  /\ UNCHANGED <<vars, pc, sent, timeouts, acks, down, aligned, main, acceptor>>

\* OBS with a payload that does not decode (a double that is NaN or
\* infinite): the frame is dropped, and nothing is sent back.
HandleUndecodable(p) ==
  /\ Reading(p)
  /\ Head(up[p]).type = "OBS"
  /\ Head(up[p]).obs.id \in Undecodable
  /\ Consume(p)
  /\ UNCHANGED <<vars, pc, sent, timeouts, acks, down, conn, reply, aligned, main, acceptor>>

\* BYE: shutdown_send and return.
HandleBye(p) ==
  /\ Reading(p)
  /\ Head(up[p]) = Bye
  /\ SetConn(p, "closed")
  /\ Consume(p)
  /\ UNCHANGED <<vars, pc, sent, timeouts, acks, down, reply, aligned, main, acceptor>>

\* Mutant: the handler leaves its loop when stop is requested.
ReplyAndLeave(p) ==
  /\ conn[p] = "replying"
  /\ Closed(p) \/ Len(down[p]) < Cap
  /\ down' = [down EXCEPT ![p] = IF Len(@) < Cap THEN Append(@, reply[p]) ELSE @]
  /\ reply' = [reply EXCEPT ![p] = None]
  /\ SetConn(p, IF main = "serving" THEN "reading" ELSE "closed")
  /\ UNCHANGED <<vars, pc, sent, timeouts, acks, up, aligned, main, acceptor>>

\* send_all of the ack: blocks while the socket buffer is full; an ack for a
\* process that is gone goes nowhere and the result is ignored.
Reply(p) ==
  /\ conn[p] = "replying"
  /\ Closed(p) \/ Len(down[p]) < Cap
  /\ down' = [down EXCEPT ![p] = IF Len(@) < Cap THEN Append(@, reply[p]) ELSE @]
  /\ reply' = [reply EXCEPT ![p] = None]
  /\ SetConn(p, "reading")
  /\ UNCHANGED <<vars, pc, sent, timeouts, acks, up, aligned, main, acceptor>>

\* recv_frame returns nullopt because the peer closed: the probe finds the
\* same and the loop ends.
HandleEof(p) ==
  /\ conn[p] = "reading" /\ aligned[p]
  /\ up[p] = <<>> /\ Closed(p)
  /\ SetConn(p, "closed")
  /\ UNCHANGED <<vars, pc, sent, timeouts, acks, up, down, reply, aligned, main, acceptor>>

\* recv_frame returns nullopt because nothing came in time: leave when stop
\* was requested, else probe for one byte.
HandleIdle(p) ==
  /\ ServerTimeout
  /\ conn[p] = "reading" /\ aligned[p]
  /\ up[p] = <<>> /\ ~Closed(p)
  /\ SetConn(p, IF main = "serving" THEN "probing" ELSE "closed")
  /\ UNCHANGED <<vars, pc, sent, timeouts, acks, up, down, reply, aligned, main, acceptor>>

\* recv_some(1): a byte that arrived is taken off the stream and dropped
\* before the loop continues; otherwise (timeout or close) the loop ends.
Probe(p) ==
  /\ conn[p] = "probing"
  /\ \/ /\ up[p] # <<>>
        /\ aligned' = [aligned EXCEPT ![p] = FALSE]
        /\ SetConn(p, "reading")
     \/ /\ up[p] = <<>>
        /\ SetConn(p, "closed")
        /\ UNCHANGED aligned
  /\ UNCHANGED <<vars, pc, sent, timeouts, acks, up, down, reply, main, acceptor>>

\* Mutant: a frame that cannot be decoded is skipped.
HandleMisreadSkips(p) ==
  /\ conn[p] = "reading" /\ ~aligned[p]
  /\ up[p] # <<>>
  /\ Consume(p)
  /\ aligned' = [aligned EXCEPT ![p] = TRUE]
  /\ UNCHANGED <<vars, pc, sent, timeouts, acks, down, conn, reply, main, acceptor>>

\* Off the frame boundary the length field is read one byte late.  What
\* arrives is swallowed as the body of a frame that does not exist, until
\* recv_frame or Frame::decode (CRC) fails and the loop ends.
HandleMisread(p) ==
  /\ conn[p] = "reading" /\ ~aligned[p]
  /\ \/ /\ up[p] # <<>>
        /\ Consume(p)
        /\ UNCHANGED conn
     \/ /\ SetConn(p, "closed")
        /\ up' = [up EXCEPT ![p] = <<>>]
  /\ UNCHANGED <<vars, pc, sent, timeouts, acks, down, reply, aligned, main, acceptor>>

HandlerStep(p) ==
  \/ HandleHello(p) \/ HandleObs(p) \/ HandleUndecodable(p)
  \/ HandleBye(p) \/ Reply(p)
  \/ HandleEof(p) \/ HandleIdle(p) \/ Probe(p) \/ HandleMisread(p)

-----------------------------------------------------------------------------
(* The accept thread and stop() *)

\* accept returns a connection: it gets a handler thread, then running_ is
\* tested again.  An accept under way when running_ falls may still succeed.
Accept(p) ==
  /\ acceptor = "accepting"
  /\ main \in {"serving", "stopping"}
  /\ conn[p] = "backlog"
  /\ SetConn(p, "reading")
  /\ acceptor' = IF main = "serving" THEN "accepting" ELSE "exited"
  /\ UNCHANGED <<vars, pc, sent, timeouts, acks, up, down, reply, aligned, main>>

\* Mutant: only the head of the loop tests for stop.
AcceptorExitMissed ==
  /\ acceptor = "accepting"
  /\ main = "stopping"
  /\ acceptor' = "exited"
  /\ UNCHANGED <<vars, pc, sent, timeouts, acks, up, down, conn, reply, aligned, main>>

\* accept fails, or running_ is seen false at the head of the loop.
AcceptorExit ==
  /\ acceptor = "accepting"
  /\ main # "serving"
  /\ acceptor' = "exited"
  /\ UNCHANGED <<vars, pc, sent, timeouts, acks, up, down, conn, reply, aligned, main>>

Advances(from, to) ==
  /\ main = from
  /\ main' = to

\* cmd_serve leaves its polling loop and calls stop: running_ falls.
StopBegin ==
  /\ Advances("serving", "stopping")
  /\ UNCHANGED <<vars, pc, sent, timeouts, acks, up, down, conn, reply, aligned, acceptor>>

\* listener_.close(): connections nobody accepted are gone.
StopListener ==
  /\ Advances("stopping", "unlistened")
  /\ conn' = [p \in Procs |-> IF conn[p] = "backlog" THEN "closed" ELSE conn[p]]
  /\ UNCHANGED <<vars, pc, sent, timeouts, acks, up, down, reply, aligned, acceptor>>

\* accept_thread_.join()
JoinAcceptor ==
  /\ Advances("unlistened", "joining")
  /\ acceptor = "exited"
  /\ UNCHANGED <<vars, pc, sent, timeouts, acks, up, down, conn, reply, aligned, acceptor>>

\* Mutant: the handler threads are detached instead of joined.
DetachClients ==
  /\ Advances("joining", "stopped")
  /\ UNCHANGED <<vars, pc, sent, timeouts, acks, up, down, conn, reply, aligned, acceptor>>

\* Join every handler thread and return.
JoinClients ==
  /\ Advances("joining", "stopped")
  /\ \A p \in Procs : conn[p] \in {"none", "closed"}
  /\ UNCHANGED <<vars, pc, sent, timeouts, acks, up, down, conn, reply, aligned, acceptor>>

StopStep == StopListener \/ JoinAcceptor \/ JoinClients

NetNext ==
  \/ \E p \in Procs : ClientStep(p) \/ HandlerStep(p) \/ Accept(p)
                      \/ Kill(p) \/ ConnectionReset(p)
  \/ AcceptorExit \/ StopBegin \/ StopStep

NetSpec == NetInit /\ [][NetNext]_allvars

\* Threads and processes keep running: a process takes its next step when it
\* can (its 10 s timers included), a handler serves the frame it has, the
\* accept thread and stop() go on.  Nothing forces a stop, a kill, a reset or
\* a server-side timeout.
Fairness ==
  /\ \A p \in Procs : /\ WF_allvars(ClientStep(p))
                      /\ WF_allvars(HandlerStep(p))
                      /\ WF_allvars(Accept(p))
  /\ WF_allvars(AcceptorExit)
  /\ WF_allvars(StopStep)

FairNetSpec == NetSpec /\ Fairness

-----------------------------------------------------------------------------
(* Properties *)

\* Every variable of the server and of the processes keeps its type, and no
\* socket buffer holds more than it can.
NetTypeOK ==
  /\ pc \in [Procs -> {"start", "connected", "hello", "ready", "await"} \cup Ended]
  /\ sent \in [Procs -> Nat]
  /\ timeouts \in [Procs -> 0..MaxTimeouts]
  /\ acks \in [Procs -> Seq([obs : Observations, decision : Reasons \cup {"ACCEPTED"}])]
  /\ up \in [Procs -> Seq(Frames)] /\ down \in [Procs -> Seq(AckFrames)]
  /\ \A p \in Procs : sent[p] <= Len(Script[p]) /\ Len(up[p]) <= Cap /\ Len(down[p]) <= Cap
  /\ conn \in [Procs -> {"none", "backlog", "reading", "replying", "probing", "closed"}]
  /\ reply \in [Procs -> AckFrames \cup {None}]
  /\ \A p \in Procs : conn[p] = "replying" <=> reply[p] # None
  /\ aligned \in [Procs -> BOOLEAN]
  /\ main \in {"serving", "stopping", "unlistened", "joining", "stopped"}
  /\ acceptor \in {"accepting", "exited"}

\* The ack send_observation returns says what the coordinator did with the
\* observation that was passed in: ACCEPTED only if that observation is
\* accepted evidence, another decision only if it is retained under that
\* reason.  (source.hpp: "Send one observation; returns the coordinator's
\* ack".)
AckHonest ==
  \A p \in Procs : \A i \in 1..Len(acks[p]) :
    LET a == acks[p][i] IN
    IF a.decision = "ACCEPTED"
    THEN a.obs.id \in DOMAIN accepted /\ accepted[a.obs.id] = a.obs
    ELSE \E j \in 1..Len(stale) : stale[j] = [obs |-> a.obs, reason |-> a.decision]

\* A source that waits for acks and ran to its normal end got one answer for
\* every observation of its script, in order, even if the server was stopped
\* under it: stop() lets the handlers finish their clients.
DoneMeansAnswered ==
  \A p \in Procs \ Fire :
    pc[p] = "done" =>
      /\ Len(acks[p]) = Len(Script[p])
      /\ \A i \in 1..Len(Script[p]) : acks[p][i].obs = Script[p][i]

\* The evidence of p's worker and boot that the coordinator decided so.
DecidedAs(p, d) ==
  LET Own(o) == o.key = Config[p].key /\ o.boot = Config[p].boot IN
  IF d = "ACCEPTED"
  THEN {id \in DOMAIN accepted : Own(accepted[id])}
  ELSE {j \in 1..Len(stale) : stale[j].reason = d /\ Own(stale[j].obs)}

\* Even when acks come late, are taken for the answer to another observation,
\* or never come, no answer is made up: a source is told of no more
\* acceptances, and of no more refusals for one reason, than there were.  In
\* particular an observation that does not decode adds no answer.
AcksBounded ==
  \A p \in Procs, d \in Reasons \cup {"ACCEPTED"} :
    Cardinality({i \in 1..Len(acks[p]) : acks[p][i].decision = d})
      <= Cardinality(DecidedAs(p, d))

Ingested(o) == \/ o.id \in DOMAIN accepted /\ accepted[o.id] = o
               \/ \E j \in 1..Len(stale) : stale[j].obs = o

\* The coordinator's evidence about a source has no holes but the observations
\* it could not decode: whatever is lost to a timeout, a misread, a reset or
\* a crash is the tail of the script, because a connection that loses a frame
\* delivers no later one.  (That is so for frames that arrive whole; a link
\* slow enough for timeout after timeout inside one frame may lose just that
\* frame: see FrameChannel, which Wire implements.)
NoGaps ==
  \A p \in Procs : \A i, j \in 1..Len(Script[p]) :
    i < j /\ Ingested(Script[p][j])
      => Ingested(Script[p][i]) \/ Script[p][i].id \in Undecodable

\* When stop() has returned, nothing changes the coordinator any more:
\* cmd_serve saves its archive from a coordinator at rest.
QuiescentAfterStop == [][main = "stopped" => UNCHANGED vars]_allvars

\* The authority of a worker falls back to an earlier generation only by the
\* HELLO of a process that died before it was answered: once a boot has sent
\* an observation, its own HELLO cannot displace a later boot.
RollbackNeedsUnansweredHello ==
  [][\A k \in DOMAIN registry :
       registry'[k].src_gen < registry[k].src_gen =>
         \E p \in Procs : /\ conn[p] = "reading" /\ conn'[p] = "replying"
                          /\ Config[p].key = k
                          /\ pc[p] \in {"dead", "failed"} /\ sent[p] = 0]_allvars

\* What source_authority.hpp promises: "the old boot never becomes current
\* again".  A boot is displaced by higher generations only.
OldBootNeverCurrent ==
  [][\A k \in DOMAIN registry :
       registry'[k].boot # registry[k].boot =>
         registry'[k].src_gen > registry[k].src_gen]_allvars

\* stop() returns once it is called, as long as the source processes come to
\* their end: the accept thread and every handler thread can be joined.
StopReturns == main = "stopping" ~> main = "stopped"

\* Every source process comes to an end: nobody waits for ever for an ack,
\* for room in a socket buffer or for the server.
ProcessesEnd == \A p \in Procs : <>Closed(p)
=============================================================================
