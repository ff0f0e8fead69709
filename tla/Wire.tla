-------------------------------- MODULE Wire --------------------------------
(***************************************************************************)
(* One direction of a connection, byte by byte: TcpStream::send_all,       *)
(* recv_exact, recv_frame and recv_some (network.cpp), Frame::decode       *)
(* (protocol.cpp), and the two loops that call them: the handler of a      *)
(* connection (coordinator.cpp: handle_client) and a source waiting for    *)
(* acks (source.cpp: recv_ack).                                            *)
(*                                                                         *)
(* The stream is the frames 1..N one after the other, frame i from byte    *)
(* Start[i] up to byte Start[i + 1], and a byte is its offset.  A read     *)
(* that begins in the middle of a frame takes any four bytes for a length  *)
(* and whatever follows for a body, which has a wrong checksum: crc32 is   *)
(* taken to tell every such body from a frame.                             *)
(*                                                                         *)
(* Whether a recv finds bytes that were sent is up to the network, so a    *)
(* receive timeout may hit at any time, at most MaxTimeouts times.         *)
(***************************************************************************)
EXTENDS Integers, Sequences

CONSTANTS
  N,            \* number of frames
  Start,        \* Start[i]: offset of frame i; Start[N + 1]: end of the stream
  Valid,        \* frames of this protocol version and of a known type
  Bye,          \* frames that end the handler's loop
  Misread,      \* lengths a misplaced length field may hold, within limits
  MaxTimeouts,
  MaxCalls      \* how often the source calls recv_ack

Frames == 1..N

\* A frame is a length field, a checksum, a version, a type and a payload;
\* the limits on the length are not reached.
MinFrame == 12

ASSUME WireAssumption ==
  /\ N \in Nat /\ MaxTimeouts \in Nat /\ MaxCalls \in Nat
  /\ Start \in [1..(N + 1) -> Nat] /\ Start[1] = 0
  /\ \A i, j \in 1..(N + 1) : i < j => Start[i] + MinFrame <= Start[j]
  /\ Valid \subseteq Frames /\ Bye \subseteq Valid
  /\ Misread \subseteq Nat \ 0..7

VARIABLES
  reader,     \* "handler" or "source": which loop reads
  stopping,   \* stop_requested_ of the server
  sender,     \* "open", "closed" (the stream ends) or "reset" (recv fails)
  written,    \* bytes handed to the socket
  consumed,   \* bytes taken from it
  pc,         \* where the reader is
  need,       \* n - out.size() of its recv_exact
  at,         \* offset of the length field whose body is being read
  delivered,  \* the frames that were decoded, in order
  timeouts,
  calls

wirevars ==
  <<reader, stopping, sender, written, consumed, pc, need, at, delivered, timeouts, calls>>

IsStart(offset, f) == f \in Frames /\ Start[f] = offset
AtBoundary(offset) == \E i \in 1..(N + 1) : Start[i] = offset

WireInit ==
  /\ reader \in {"handler", "source"}
  /\ stopping = FALSE
  /\ sender = "open"
  /\ written = 0 /\ consumed = 0
  /\ pc = "length" /\ need = 4 /\ at = 0
  /\ delivered = <<>>
  /\ timeouts = 0
  /\ calls = 0

-----------------------------------------------------------------------------
(* The sender and the server's stop flag *)

\* send_all: one send(), which takes any part of what is left of the frame.
SendSome(w) ==
  /\ sender = "open"
  /\ \E f \in Frames :
       /\ Start[f] <= written /\ written + w <= Start[f + 1]
       /\ w > 0
  /\ written' = written + w
  /\ UNCHANGED <<reader, stopping, sender, consumed, pc, need, at, delivered, timeouts, calls>>

\* close(), or the end of the process, also within a frame.
SenderEnds ==
  /\ sender = "open"
  /\ sender' \in {"closed", "reset"}
  /\ UNCHANGED <<reader, stopping, written, consumed, pc, need, at, delivered, timeouts, calls>>

RequestStop ==
  /\ reader = "handler" /\ ~stopping
  /\ stopping' = TRUE
  /\ UNCHANGED <<reader, sender, written, consumed, pc, need, at, delivered, timeouts, calls>>

-----------------------------------------------------------------------------
(* recv *)

\* r bytes arrive, of at most max asked for.
Recv(r, max) ==
  /\ r \in 1..max /\ consumed + r <= written
  /\ consumed' = consumed + r
  /\ UNCHANGED timeouts

\* The peer closed and all it sent was read; the connection was reset; or the
\* receive timeout hit.
EndOfStream == sender = "closed" /\ consumed = written

RecvFails ==
  /\ \/ (EndOfStream \/ sender = "reset") /\ UNCHANGED timeouts
     \/ timeouts < MaxTimeouts /\ timeouts' = timeouts + 1
  /\ UNCHANGED consumed

\* The next recv_frame of the handler's loop; or back from recv_ack.
NextFrame == pc' = (IF reader = "handler" THEN "length" ELSE "idle") /\ need' = 4

\* recv_frame or decode fails: the handler's loop ends, recv_ack returns.
FrameFails == pc' = (IF reader = "handler" THEN "closed" ELSE "idle") /\ need' = 4

Unchanged == UNCHANGED <<reader, stopping, sender, written>>

\* Mutant: a short recv is taken for the whole length field.
RecvLengthShort(r) ==
  /\ pc = "length"
  /\ Recv(r, need)
  /\ \E len \in Misread \cup {0} :
       /\ \A f \in Frames : IsStart(consumed', f) => len = Start[f + 1] - Start[f] - 4
       /\ pc' = "body" /\ need' = len /\ at' = consumed'
  /\ Unchanged /\ UNCHANGED <<delivered, calls>>

\* recv_frame, recv_exact(4): part of the length field, or the rest of it.
RecvLength(r) ==
  /\ pc = "length"
  /\ Recv(r, need)
  /\ IF r < need
     THEN need' = need - r /\ UNCHANGED <<pc, at>>
     ELSE LET start == consumed' - 4 IN
          \/ \E f \in Frames :
               /\ IsStart(start, f)
               /\ pc' = "body" /\ need' = Start[f + 1] - Start[f] - 4 /\ at' = start
          \/ /\ \A f \in Frames : ~IsStart(start, f)
             /\ \/ \E len \in Misread : pc' = "body" /\ need' = len /\ at' = start
                \/ FrameFails /\ UNCHANGED at   \* invalid frame length
  /\ Unchanged /\ UNCHANGED <<delivered, calls>>

\* Mutant: only a timeout makes the handler look again, but for ever.
NoFrameRetries ==
  /\ pc = "length"
  /\ RecvFails
  /\ pc' = (IF reader = "source" THEN "idle" ELSE IF stopping THEN "closed" ELSE "length")
  /\ need' = 4
  /\ Unchanged /\ UNCHANGED <<at, delivered, calls>>

\* recv_frame returns nothing.  What recv_exact had of the length is dropped.
NoFrame ==
  /\ pc = "length"
  /\ RecvFails
  /\ pc' = (IF reader = "source" THEN "idle" ELSE IF stopping THEN "closed" ELSE "probe")
  /\ need' = 4
  /\ Unchanged /\ UNCHANGED <<at, delivered, calls>>

\* Frame::decode of what was read from at on: length, checksum, version, type.
Decodes(f) == IsStart(at, f) /\ f \in Valid

\* Mutant: the checksum is not compared.
RecvBodyUnchecked(r) ==
  /\ pc = "body"
  /\ Recv(r, need)
  /\ IF r < need
     THEN need' = need - r /\ UNCHANGED <<pc, delivered>>
     ELSE \/ \E f \in Frames :
               /\ Start[f] <= at /\ at < Start[f + 1]
               /\ delivered' = Append(delivered, f)
               /\ NextFrame
          \/ /\ \A f \in Frames : ~(Start[f] <= at /\ at < Start[f + 1])
             /\ FrameFails /\ UNCHANGED delivered
  /\ Unchanged /\ UNCHANGED <<at, calls>>

\* recv_frame, recv_exact(len): part of the body, or its end and the decoding.
RecvBody(r) ==
  /\ pc = "body"
  /\ Recv(r, need)
  /\ IF r < need
     THEN need' = need - r /\ UNCHANGED <<pc, delivered>>
     ELSE \/ \E f \in Frames :
               /\ Decodes(f)
               /\ delivered' = Append(delivered, f)
               /\ IF reader = "handler" /\ f \in Bye THEN FrameFails ELSE NextFrame
          \/ /\ \A f \in Frames : ~Decodes(f)
             /\ FrameFails /\ UNCHANGED delivered
  /\ Unchanged /\ UNCHANGED <<at, calls>>

\* Mutant: what came of the body before a timeout is handed on as the frame.
BodyFailsHandsOn ==
  /\ pc = "body"
  /\ RecvFails
  /\ \/ \E f \in Frames :
          /\ Decodes(f)
          /\ delivered' = Append(delivered, f)
          /\ NextFrame
     \/ /\ \A f \in Frames : ~Decodes(f)
        /\ FrameFails /\ UNCHANGED delivered
  /\ Unchanged /\ UNCHANGED <<at, calls>>

\* "frame body read failed"
BodyFails ==
  /\ pc = "body"
  /\ RecvFails
  /\ FrameFails
  /\ Unchanged /\ UNCHANGED <<at, delivered, calls>>

\* recv_some(1): a byte, which is dropped, and on; or nothing, and the end.
Probe ==
  /\ pc = "probe"
  /\ \/ Recv(1, 1) /\ NextFrame
     \/ RecvFails /\ FrameFails
  /\ Unchanged /\ UNCHANGED <<at, delivered, calls>>

\* The source calls recv_ack for the next ack, or leaves.
CallRecvAck ==
  /\ pc = "idle"
  /\ IF calls < MaxCalls
     THEN pc' = "length" /\ calls' = calls + 1
     ELSE pc' = "closed" /\ UNCHANGED calls
  /\ need' = 4
  /\ Unchanged /\ UNCHANGED <<consumed, timeouts, at, delivered>>

ReaderNext ==
  \/ \E r \in 1..need : RecvLength(r) \/ RecvBody(r)
  \/ NoFrame \/ BodyFails \/ Probe \/ CallRecvAck

WireNext ==
  \/ \E w \in 1..Start[N + 1] : SendSome(w)
  \/ SenderEnds \/ RequestStop \/ ReaderNext

\* Nobody has to send, close or stop; a reader whose recv returns goes on.
WireSpec == WireInit /\ [][WireNext]_wirevars /\ WF_wirevars(ReaderNext)

-----------------------------------------------------------------------------
(* Properties *)

\* Every variable has its type, and nobody reads ahead of the sender.
WireTypeOK ==
  /\ reader \in {"handler", "source"}
  /\ stopping \in BOOLEAN
  /\ sender \in {"open", "closed", "reset"}
  /\ written \in 0..Start[N + 1]
  /\ consumed \in 0..written
  /\ pc \in {"length", "body", "probe", "idle", "closed"}
  /\ need \in Nat
  /\ pc = "length" => need \in 1..4
  /\ at \in Nat
  /\ delivered \in Seq(Valid)
  /\ timeouts \in 0..MaxTimeouts
  /\ calls \in 0..MaxCalls

SentWhole == {f \in Frames : Start[f + 1] <= written}

\* Whatever is dropped, cut short or misread on the way, the frames a reader
\* acts on were sent whole, are acted on once and in the order sent: a
\* misplaced read never passes for a frame.
FramesInOrder ==
  /\ \A k \in 1..Len(delivered) : delivered[k] \in SentWhole
  /\ \A k, m \in 1..Len(delivered) : k < m => delivered[k] < delivered[m]

\* As long as no receive timeout hits and nothing is reset, the reader stays
\* at frame boundaries and nothing it has consumed is lost, whatever pieces
\* the bytes arrive in, also of the ack frames a source cannot decode.
NoLossWithoutTimeout ==
  timeouts = 0 /\ sender # "reset" =>
    /\ \A f \in Valid :
         Start[f + 1] <= consumed => \E k \in 1..Len(delivered) : delivered[k] = f
    /\ pc = "body" => AtBoundary(at)

\* The channel a reader may rely on.
Channel == INSTANCE FrameChannel WITH sent <- SentWhole

ImplementsChannel == Channel!ChannelSpec

\* When the sender is gone, both loops come to their end: a handler's thread
\* can be joined.
ReaderEnds == (sender # "open") ~> (pc = "closed")

\* coordinator.cpp: a receive timeout is "transient": the next frame is read
\* from where it starts.
TimeoutIsTransient == pc = "length" /\ need = 4 => AtBoundary(consumed)
=============================================================================
