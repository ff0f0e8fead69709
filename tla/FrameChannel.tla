---------------------------- MODULE FrameChannel ----------------------------
(***************************************************************************)
(* What one direction of a connection promises its reader: a lossy FIFO    *)
(* channel of frames.  Frames are sent in the order of their numbers; the  *)
(* reader gets each at most once, whole, in that order, and only frames it *)
(* can decode.                                                             *)
(***************************************************************************)
EXTENDS Integers, Sequences

CONSTANTS
  Frames,   \* a set of numbers
  Valid     \* the frames the reader can decode

VARIABLES
  sent,       \* frames that were sent whole
  delivered   \* what the reader got, in order

channelvars == <<sent, delivered>>

Newer(f) == \A k \in 1..Len(delivered) : delivered[k] < f

ChannelInit == sent = {} /\ delivered = <<>>

Send(f) ==
  /\ f \in Frames \ sent
  /\ \A g \in Frames : g < f => g \in sent
  /\ sent' = sent \cup {f}
  /\ UNCHANGED delivered

\* Frames between the last one delivered and f are lost for the reader.
Deliver(f) ==
  /\ f \in sent \cap Valid
  /\ Newer(f)
  /\ delivered' = Append(delivered, f)
  /\ UNCHANGED sent

ChannelNext == \E f \in Frames : Send(f) \/ Deliver(f)

ChannelSpec == ChannelInit /\ [][ChannelNext]_channelvars
=============================================================================
