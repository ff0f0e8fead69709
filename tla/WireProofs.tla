----------------------------- MODULE WireProofs -----------------------------
(***************************************************************************)
(* Proofs about Wire, for every stream of frames, every set of lengths a   *)
(* misplaced read may find and any number of timeouts.                     *)
(***************************************************************************)
EXTENDS Wire, TLAPS

\* A length field that is partly read: how much of it.
Partial == IF pc = "length" THEN 4 - need ELSE 0

\* Everything delivered ends before the frame that is being read, and the
\* rest of a frame that is read from its start is what need says.
ReadPosition ==
  /\ Partial <= consumed
  /\ \A k \in 1..Len(delivered) : Start[delivered[k] + 1] + Partial <= consumed
  /\ \A k, m \in 1..Len(delivered) : k < m => delivered[k] < delivered[m]
  /\ pc = "body" =>
       /\ at + 4 <= consumed
       /\ \A k \in 1..Len(delivered) : Start[delivered[k] + 1] <= at
       /\ \A f \in Frames : Start[f] = at => consumed + need = Start[f + 1]

\* The inductive invariant.
WireInv == WireTypeOK /\ ReadPosition

-----------------------------------------------------------------------------

\* Frames whose ends are in order are in order.
LEMMA EndsOrdered ==
  ASSUME NEW f \in Frames, NEW g \in Frames, Start[f + 1] <= Start[g]
  PROVE  f < g
<1>1. f + 1 \in 1..(N + 1) /\ g \in 1..(N + 1) /\ f \in Int /\ g \in Int
  BY WireAssumption DEF Frames
<1>2. g < f + 1 => Start[g] + 12 <= Start[f + 1]
  BY <1>1, WireAssumption DEF MinFrame
<1>3. Start[g] \in Nat /\ Start[f + 1] \in Nat
  BY <1>1, WireAssumption
<1> QED BY <1>1, <1>2, <1>3

\* The offsets of the stream.
LEMMA OffsetsNat ==
  /\ N \in Nat /\ MaxTimeouts \in Nat /\ MaxCalls \in Nat
  /\ \A i \in 1..(N + 1) : Start[i] \in Nat /\ Start[i] <= Start[N + 1]
  /\ \A f \in Frames : f \in 1..(N + 1) /\ f + 1 \in 1..(N + 1) /\ Start[f] + 12 <= Start[f + 1]
<1>1. N \in Nat /\ MaxTimeouts \in Nat /\ MaxCalls \in Nat /\ N + 1 \in 1..(N + 1)
  BY WireAssumption
<1>2. ASSUME NEW i \in 1..(N + 1)
      PROVE  Start[i] \in Nat /\ Start[i] <= Start[N + 1]
  <2>1. Start[i] \in Nat /\ Start[N + 1] \in Nat
    BY <1>1, WireAssumption
  <2>2. CASE i = N + 1
    BY <2>1, <2>2
  <2>3. CASE i # N + 1
    <3>1. i < N + 1
      BY <1>1, <2>3
    <3>2. Start[i] + 12 <= Start[N + 1]
      BY <1>1, <3>1, WireAssumption DEF MinFrame
    <3> QED BY <2>1, <3>2
  <2> QED BY <2>2, <2>3
<1>3. ASSUME NEW f \in Frames
      PROVE  f \in 1..(N + 1) /\ f + 1 \in 1..(N + 1) /\ Start[f] + 12 <= Start[f + 1]
  <2>1. f \in 1..(N + 1) /\ f + 1 \in 1..(N + 1) /\ f < f + 1
    BY <1>1 DEF Frames
  <2> QED BY <2>1, WireAssumption DEF MinFrame
<1> QED BY <1>1, <1>2, <1>3

LEMMA DeliveredFrames ==
  ASSUME WireTypeOK, NEW k \in 1..Len(delivered)
  PROVE  delivered[k] \in Valid /\ delivered[k] \in Frames
BY WireAssumption DEF WireTypeOK

-----------------------------------------------------------------------------
(* The invariant *)

LEMMA InvInit == WireInit => WireInv
<1> SUFFICES ASSUME WireInit PROVE WireInv
  OBVIOUS
<1>1. Start[N + 1] \in Nat
  BY OffsetsNat
<1>2. delivered = <<>> /\ Len(delivered) = 0 /\ delivered \in Seq(Valid)
  BY DEF WireInit
<1>3. MaxTimeouts \in Nat /\ MaxCalls \in Nat
  BY OffsetsNat
<1>4. written \in 0..Start[N + 1] /\ consumed \in 0..written
  BY <1>1 DEF WireInit
<1>5. timeouts \in 0..MaxTimeouts /\ calls \in 0..MaxCalls
  BY <1>3 DEF WireInit
<1>6. WireTypeOK
  <2>1. stopping \in BOOLEAN
    BY Zenon DEF WireInit
  <2>2. reader \in {"handler", "source"} /\ sender \in {"open", "closed", "reset"}
    BY DEF WireInit
  <2>3. pc \in {"length", "body", "probe", "idle", "closed"} /\ need \in Nat /\ at \in Nat
    BY DEF WireInit
  <2>4. pc = "length" => need \in 1..4
    BY DEF WireInit
  <2> QED BY <1>2, <1>4, <1>5, <2>1, <2>2, <2>3, <2>4, Zenon DEF WireTypeOK
<1>7. ReadPosition
  BY <1>2 DEF WireInit, ReadPosition, Partial
<1> QED BY <1>6, <1>7 DEF WireInv

\* What the sender and the stop flag do leaves the reader's state alone.
LEMMA SenderKeepsInv ==
  ASSUME WireInv,
         (\E w \in 1..Start[N + 1] : SendSome(w)) \/ SenderEnds \/ RequestStop
  PROVE  WireInv'
<1> USE OffsetsNat
<1>1. UNCHANGED <<consumed, pc, need, at, delivered>>
  BY DEF SendSome, SenderEnds, RequestStop
<1>2. ReadPosition'
  BY <1>1 DEF WireInv, ReadPosition, Partial
<1>3. ASSUME NEW w \in 1..Start[N + 1], SendSome(w) PROVE WireTypeOK'
  <2>1. PICK f \in Frames : Start[f] <= written /\ written + w <= Start[f + 1] /\ w > 0
    BY <1>3 DEF SendSome
  <2>2. written' \in 0..Start[N + 1] /\ written <= written'
    <3>1. Start[f + 1] \in Nat /\ Start[f + 1] <= Start[N + 1] /\ Start[N + 1] \in Nat
      BY <2>1
    <3>2. written' = written + w /\ w \in Nat
      BY <1>3, <2>1, <3>1 DEF SendSome
    <3>3. written \in 0..Start[N + 1]
      BY DEF WireInv, WireTypeOK
    <3> QED BY <2>1, <3>1, <3>2, <3>3
  <2> QED BY <1>3, <2>2 DEF SendSome, WireInv, WireTypeOK
<1>4. ASSUME SenderEnds PROVE WireTypeOK'
  <2>1. sender' \in {"open", "closed", "reset"}
    BY <1>4, Zenon DEF SenderEnds
  <2> QED BY <1>4, <2>1, Zenon DEF SenderEnds, WireInv, WireTypeOK
<1>5. ASSUME RequestStop PROVE WireTypeOK'
  <2>1. stopping' \in BOOLEAN
    BY <1>5, Zenon DEF RequestStop
  <2> QED BY <1>5, <2>1, Zenon DEF RequestStop, WireInv, WireTypeOK
<1> QED BY <1>2, <1>3, <1>4, <1>5 DEF WireInv

\* Frames that start at the same byte are the same.
LEMMA StartsDistinct ==
  ASSUME NEW f \in Frames, NEW g \in Frames, Start[f] = Start[g]
  PROVE  f = g
<1>1. f \in 1..(N + 1) /\ g \in 1..(N + 1) /\ Start[f] \in Nat /\ Start[g] \in Nat
  BY OffsetsNat
<1>2. ~(f < g) /\ ~(g < f)
  BY <1>1, WireAssumption DEF MinFrame
<1> QED BY <1>1, <1>2

\* Whatever is being read starts after everything that was delivered.
LEMMA DeliveredBefore ==
  ASSUME WireInv
  PROVE  /\ Partial \in Nat /\ consumed \in Nat /\ consumed - Partial \in Nat
         /\ \A k \in 1..Len(delivered) :
              /\ Start[delivered[k] + 1] \in Nat
              /\ Start[delivered[k] + 1] <= consumed - Partial
<1>1. Partial \in Nat /\ consumed \in Nat /\ Partial <= consumed
  BY OffsetsNat DEF Partial, WireInv, WireTypeOK, ReadPosition
<1>2. ASSUME NEW k \in 1..Len(delivered)
      PROVE  Start[delivered[k] + 1] \in Nat /\ Start[delivered[k] + 1] <= consumed - Partial
  <2>1. Start[delivered[k] + 1] \in Nat
    BY <1>2, DeliveredFrames, OffsetsNat DEF WireInv
  <2>2. Start[delivered[k] + 1] + Partial <= consumed
    BY <1>2 DEF WireInv, ReadPosition
  <2> QED BY <1>1, <2>1, <2>2
<1> QED BY <1>1, <1>2

\* A reader that forgets what it was reading stays behind the delivered frames.
LEMMA ForgettingKeepsPosition ==
  ASSUME WireInv, delivered' = delivered, consumed' \in Nat, consumed <= consumed',
         pc' \in {"length", "probe", "idle", "closed"}, need' = 4
  PROVE  ReadPosition'
<1>1. Partial' = 0 /\ pc' # "body"
  BY DEF Partial
<1>2. \A k \in 1..Len(delivered) : Start[delivered[k] + 1] + 0 <= consumed'
  BY DeliveredBefore
<1>3. \A k, m \in 1..Len(delivered) : k < m => delivered[k] < delivered[m]
  BY DEF WireInv, ReadPosition
<1> QED BY <1>1, <1>2, <1>3 DEF ReadPosition

LEMMA RecvLengthKeepsInv ==
  ASSUME WireInv, NEW r \in 1..need, RecvLength(r)
  PROVE  WireInv'
<1>1. /\ pc = "length" /\ need \in 1..4 /\ r \in 1..need
      /\ consumed' = consumed + r /\ consumed + r <= written
      /\ UNCHANGED <<reader, stopping, sender, written, delivered, timeouts, calls>>
  BY DEF RecvLength, Recv, Unchanged, WireInv, WireTypeOK
<1>2. /\ consumed \in Nat /\ written \in Nat /\ consumed' \in 0..written
      /\ Partial = 4 - need /\ consumed - Partial \in Nat
  BY <1>1, DeliveredBefore, OffsetsNat DEF Partial, WireInv, WireTypeOK
<1>3. ASSUME need' \in Nat, pc' \in {"length", "body", "idle", "closed"},
             pc' = "length" => need' \in 1..4, at' \in Nat
      PROVE  WireTypeOK'
  BY <1>1, <1>2, <1>3, Zenon DEF WireInv, WireTypeOK
<1>4. CASE r < need
  <2>1. need' = need - r /\ pc' = "length" /\ at' = at
    BY <1>1, <1>4 DEF RecvLength
  <2>2. WireTypeOK'
    <3>1. need' \in 1..4 /\ need' \in Nat
      BY <1>1, <1>4, <2>1
    <3>2. at' \in Nat
      BY <2>1 DEF WireInv, WireTypeOK
    <3> QED BY <1>3, <2>1, <3>1, <3>2
  <2>3. Partial' = Partial + r
    BY <1>1, <1>2, <2>1 DEF Partial
  <2>4. Partial' <= consumed'
    BY <1>1, <1>2, <2>3
  <2>5. \A k \in 1..Len(delivered) : Start[delivered[k] + 1] + Partial' <= consumed'
    BY <1>1, <1>2, <2>3, DeliveredBefore
  <2>6. \A k, m \in 1..Len(delivered) : k < m => delivered[k] < delivered[m]
    BY DEF WireInv, ReadPosition
  <2> QED BY <1>1, <2>1, <2>2, <2>4, <2>5, <2>6 DEF WireInv, ReadPosition
<1>5. CASE ~(r < need)
  <2> DEFINE start == consumed' - 4
  <2>1. r = need /\ start \in Nat /\ start = consumed - Partial
    BY <1>1, <1>2, <1>5
  <2>10. consumed' \in Nat /\ start + 4 <= consumed'
    <3>1. \A c \in Nat : (c - 4) + 4 <= c
      OBVIOUS
    <3>2. consumed' \in Nat
      BY <1>2
    <3> QED BY <3>1, <3>2, Zenon
  <2>2. \A k \in 1..Len(delivered) :
          Start[delivered[k] + 1] \in Nat /\ Start[delivered[k] + 1] <= start
    BY <2>1, DeliveredBefore
  <2>3. ASSUME NEW f \in Frames, IsStart(start, f),
               pc' = "body", need' = Start[f + 1] - Start[f] - 4, at' = start
        PROVE  WireInv'
    <3>1. Start[f] = start /\ Start[f] \in Nat /\ Start[f + 1] \in Nat
          /\ Start[f] + 12 <= Start[f + 1]
      BY <2>3, OffsetsNat DEF IsStart
    <3>2. need' \in Nat /\ consumed' + need' = Start[f + 1]
      BY <1>2, <2>3, <3>1
    <3>3. WireTypeOK'
      BY <1>3, <2>1, <2>3, <3>2
    <3>4. \A g \in Frames : Start[g] = at' => consumed' + need' = Start[g + 1]
      BY <2>3, <3>1, <3>2, StartsDistinct
    <3>5. Partial' = 0 /\ at' + 4 <= consumed' /\ Partial' <= consumed'
      <4>1. Partial' = 0
        BY <2>3 DEF Partial
      <4>2. at' = start /\ start \in Nat /\ consumed' \in Nat /\ start + 4 <= consumed'
        BY <2>1, <2>10, <2>3
      <4> HIDE DEF start
      <4> QED BY <4>1, <4>2
    <3>6. \A k \in 1..Len(delivered) :
            /\ Start[delivered[k] + 1] + Partial' <= consumed'
            /\ Start[delivered[k] + 1] <= at'
      BY <1>2, <2>1, <2>2, <2>3, <3>5
    <3>7. \A k, m \in 1..Len(delivered) : k < m => delivered[k] < delivered[m]
      BY DEF WireInv, ReadPosition
    <3> QED BY <1>1, <3>3, <3>4, <3>5, <3>6, <3>7 DEF WireInv, ReadPosition
  <2>4. ASSUME \A f \in Frames : ~IsStart(start, f),
               NEW len \in Misread, pc' = "body", need' = len, at' = start
        PROVE  WireInv'
    <3>1. need' \in Nat
      BY <2>4, WireAssumption
    <3>2. WireTypeOK'
      BY <1>3, <2>1, <2>4, <3>1
    <3>3. \A g \in Frames : Start[g] # at'
      BY <2>4 DEF IsStart
    <3>4. Partial' = 0 /\ at' + 4 <= consumed' /\ Partial' <= consumed'
      <4>1. Partial' = 0
        BY <2>4 DEF Partial
      <4>2. at' = start /\ start \in Nat /\ consumed' \in Nat /\ start + 4 <= consumed'
        BY <2>1, <2>10, <2>4
      <4> HIDE DEF start
      <4> QED BY <4>1, <4>2
    <3>5. \A k \in 1..Len(delivered) :
            /\ Start[delivered[k] + 1] + Partial' <= consumed'
            /\ Start[delivered[k] + 1] <= at'
      BY <1>2, <2>1, <2>2, <2>4, <3>4
    <3>6. \A k, m \in 1..Len(delivered) : k < m => delivered[k] < delivered[m]
      BY DEF WireInv, ReadPosition
    <3> QED BY <1>1, <3>2, <3>3, <3>4, <3>5, <3>6 DEF WireInv, ReadPosition
  <2>5. ASSUME FrameFails, UNCHANGED at
        PROVE  WireInv'
    <3>1. pc' \in {"idle", "closed"} /\ need' = 4
      BY <2>5 DEF FrameFails
    <3>2. at' \in Nat
      BY <2>5 DEF WireInv, WireTypeOK
    <3>3. WireTypeOK'
      BY <1>3, <3>1, <3>2
    <3>4. ReadPosition'
      BY <1>1, <1>2, <3>1, ForgettingKeepsPosition
    <3> QED BY <3>3, <3>4 DEF WireInv
  <2> QED BY <1>5, <2>3, <2>4, <2>5 DEF RecvLength
<1> QED BY <1>4, <1>5

LEMMA RecvBodyKeepsInv ==
  ASSUME WireInv, NEW r \in 1..need, RecvBody(r)
  PROVE  WireInv'
<1>1. /\ pc = "body" /\ need \in Nat /\ r \in 1..need
      /\ consumed' = consumed + r /\ consumed + r <= written
      /\ UNCHANGED <<reader, stopping, sender, written, timeouts, calls, at>>
  BY DEF RecvBody, Recv, Unchanged, WireInv, WireTypeOK
<1>2. /\ consumed \in Nat /\ written \in Nat /\ consumed' \in 0..written
      /\ Partial = 0 /\ at \in Nat
  BY <1>1, OffsetsNat DEF Partial, WireInv, WireTypeOK
<1>3. ASSUME need' \in Nat, pc' \in {"length", "body", "idle", "closed"},
             pc' = "length" => need' \in 1..4, delivered' \in Seq(Valid)
      PROVE  WireTypeOK'
  BY <1>1, <1>2, <1>3, Zenon DEF WireInv, WireTypeOK
<1>4. CASE r < need
  <2>1. need' = need - r /\ pc' = "body" /\ delivered' = delivered
    BY <1>1, <1>4 DEF RecvBody
  <2>2. WireTypeOK'
    <3>1. need' \in Nat
      BY <1>1, <1>4, <2>1
    <3> QED BY <1>3, <2>1, <3>1 DEF WireInv, WireTypeOK
  <2>3. Partial' = 0 /\ Partial' <= consumed' /\ at' + 4 <= consumed'
    BY <1>1, <1>2, <2>1 DEF Partial, WireInv, ReadPosition
  <2>4. \A g \in Frames : Start[g] = at' => consumed' + need' = Start[g + 1]
    BY <1>1, <1>2, <2>1 DEF WireInv, ReadPosition
  <2>5. \A k \in 1..Len(delivered) :
          /\ Start[delivered[k] + 1] + Partial' <= consumed'
          /\ Start[delivered[k] + 1] <= at'
    BY <1>1, <1>2, <2>3, DeliveredBefore DEF WireInv, ReadPosition
  <2>6. \A k, m \in 1..Len(delivered) : k < m => delivered[k] < delivered[m]
    BY DEF WireInv, ReadPosition
  <2> QED BY <2>1, <2>2, <2>3, <2>4, <2>5, <2>6 DEF WireInv, ReadPosition
<1>5. CASE ~(r < need)
  <2>1. r = need /\ consumed <= consumed'
    BY <1>1, <1>2, <1>5
  <2>2. ASSUME FrameFails \/ NextFrame
        PROVE  pc' \in {"length", "idle", "closed"} /\ need' = 4
    BY <2>2, Zenon DEF FrameFails, NextFrame
  <2>3. ASSUME NEW f \in Frames, Decodes(f), delivered' = Append(delivered, f),
               FrameFails \/ NextFrame
        PROVE  WireInv'
    <3> DEFINE n == Len(delivered)
    <3>1. f \in Valid /\ Start[f] = at /\ Start[f + 1] \in Nat
      BY <2>3, OffsetsNat DEF Decodes, IsStart
    <3>2. consumed' = Start[f + 1]
      BY <1>1, <1>2, <2>1, <3>1 DEF WireInv, ReadPosition
    <3>3. /\ n \in Nat /\ delivered \in Seq(Valid)
          /\ Len(delivered') = n + 1 /\ delivered'[n + 1] = f
          /\ \A k \in 1..n : delivered'[k] = delivered[k]
      BY <2>3 DEF WireInv, WireTypeOK
    <3>4. delivered' \in Seq(Valid)
      BY <2>3, <3>1, <3>3
    <3>5. WireTypeOK'
      BY <1>3, <2>2, <2>3, <3>4
    <3>6. Partial' = 0 /\ pc' # "body" /\ Partial' <= consumed'
      BY <1>2, <2>2, <2>3 DEF Partial
    <3>7. \A k \in 1..n : Start[delivered[k] + 1] \in Nat /\ Start[delivered[k] + 1] <= at
      BY <1>1, DeliveredBefore DEF WireInv, ReadPosition
    <3>8. \A k \in 1..n : delivered[k] \in Frames /\ delivered[k] < f
      <4> SUFFICES ASSUME NEW k \in 1..n PROVE delivered[k] \in Frames /\ delivered[k] < f
        OBVIOUS
      <4>1. delivered[k] \in Frames
        BY DeliveredFrames DEF WireInv
      <4>2. Start[delivered[k] + 1] <= Start[f]
        BY <3>1, <3>7
      <4> QED BY <4>1, <4>2, EndsOrdered
    <3>9. \A k \in 1..(n + 1) : Start[delivered'[k] + 1] + 0 <= consumed'
      <4> SUFFICES ASSUME NEW k \in 1..(n + 1) PROVE Start[delivered'[k] + 1] + 0 <= consumed'
        OBVIOUS
      <4>1. CASE k = n + 1
        BY <3>1, <3>2, <3>3, <4>1
      <4>2. CASE k # n + 1
        <5>1. k \in 1..n
          BY <3>3, <4>2
        <5>2. at + 4 <= consumed
          BY <1>1 DEF WireInv, ReadPosition
        <5> QED BY <1>2, <2>1, <3>3, <3>7, <5>1, <5>2
      <4> QED BY <4>1, <4>2
    <3>10. \A k, m \in 1..(n + 1) : k < m => delivered'[k] < delivered'[m]
      <4> SUFFICES ASSUME NEW k \in 1..(n + 1), NEW m \in 1..(n + 1), k < m
                   PROVE  delivered'[k] < delivered'[m]
        OBVIOUS
      <4>1. k \in 1..n
        BY <3>3
      <4>2. CASE m = n + 1
        BY <3>3, <3>8, <4>1, <4>2
      <4>3. CASE m # n + 1
        <5>1. m \in 1..n
          BY <3>3, <4>3
        <5> QED BY <3>3, <4>1, <5>1 DEF WireInv, ReadPosition
      <4> QED BY <4>2, <4>3
    <3> QED BY <3>3, <3>5, <3>6, <3>9, <3>10 DEF WireInv, ReadPosition
  <2>4. ASSUME FrameFails, delivered' = delivered
        PROVE  WireInv'
    <3>1. WireTypeOK'
      BY <1>3, <2>2, <2>4 DEF WireInv, WireTypeOK
    <3>2. ReadPosition'
      BY <1>2, <2>1, <2>2, <2>4, ForgettingKeepsPosition
    <3> QED BY <3>1, <3>2 DEF WireInv
  <2> QED BY <1>5, <2>3, <2>4 DEF RecvBody
<1> QED BY <1>4, <1>5

\* recv_frame without a frame, the probe, and the source between two calls.
LEMMA OthersKeepInv ==
  ASSUME WireInv, NoFrame \/ BodyFails \/ Probe \/ CallRecvAck
  PROVE  WireInv'
<1>1. /\ UNCHANGED <<reader, stopping, sender, written, at, delivered>>
      /\ pc' \in {"length", "probe", "idle", "closed"} /\ need' = 4
  BY Zenon DEF NoFrame, BodyFails, Probe, CallRecvAck, FrameFails, NextFrame, Unchanged
<1>2. consumed \in Nat /\ written \in Nat /\ consumed <= written /\ MaxTimeouts \in Nat /\ MaxCalls \in Nat
  BY OffsetsNat DEF WireInv, WireTypeOK
<1>3. consumed' \in 0..written /\ consumed <= consumed'
  BY <1>2 DEF NoFrame, BodyFails, Probe, CallRecvAck, RecvFails, Recv
<1>4. timeouts' \in 0..MaxTimeouts /\ calls' \in 0..MaxCalls
  BY <1>2 DEF NoFrame, BodyFails, Probe, CallRecvAck, RecvFails, Recv, WireInv, WireTypeOK
<1>5. need' \in Nat /\ (pc' = "length" => need' \in 1..4)
  BY <1>1
<1>6. WireTypeOK'
  BY <1>1, <1>3, <1>4, <1>5, Zenon DEF WireInv, WireTypeOK
<1>7. ReadPosition'
  BY <1>1, <1>2, <1>3, ForgettingKeepsPosition
<1> QED BY <1>6, <1>7 DEF WireInv

LEMMA InvStep == WireInv /\ [WireNext]_wirevars => WireInv'
<1>1. ASSUME WireInv, UNCHANGED wirevars PROVE WireInv'
  BY <1>1 DEF wirevars, WireInv, WireTypeOK, ReadPosition, Partial
<1>2. ASSUME WireInv, WireNext PROVE WireInv'
  BY <1>2, SenderKeepsInv, RecvLengthKeepsInv, RecvBodyKeepsInv, OthersKeepInv
     DEF WireNext, ReaderNext
<1> QED BY <1>1, <1>2

\* The inductive invariant holds in every reachable state.
THEOREM WireInvariant == WireSpec => []WireInv
BY InvInit, InvStep, PTL DEF WireSpec

\* Type correctness, recv's bound included: nothing is read that was not sent.
THEOREM WireTyped == WireSpec => []WireTypeOK
<1>1. WireInv => WireTypeOK
  BY DEF WireInv
<1> QED BY <1>1, WireInvariant, PTL

\* What was delivered was sent, each frame in its turn.
LEMMA InvGivesOrder == WireInv => FramesInOrder
<1> SUFFICES ASSUME WireInv PROVE FramesInOrder
  OBVIOUS
<1>1. ASSUME NEW k \in 1..Len(delivered)
      PROVE  delivered[k] \in SentWhole
  <2>1. delivered[k] \in Frames
    BY <1>1, DeliveredFrames DEF WireInv
  <2>2. Start[delivered[k] + 1] <= consumed /\ Start[delivered[k] + 1] \in Nat
    <3>1. /\ Start[delivered[k] + 1] \in Nat
          /\ Start[delivered[k] + 1] <= consumed - Partial
      BY <1>1, DeliveredBefore
    <3> QED BY <3>1, DeliveredBefore
  <2>3. consumed <= written /\ consumed \in Nat /\ written \in Nat
    BY OffsetsNat DEF WireInv, WireTypeOK
  <2> QED BY <2>1, <2>2, <2>3 DEF SentWhole
<1>2. \A k, m \in 1..Len(delivered) : k < m => delivered[k] < delivered[m]
  BY DEF WireInv, ReadPosition
<1> QED BY <1>1, <1>2 DEF FramesInOrder

\* FramesInOrder, for every stream, every cut of it into pieces and every
\* number of timeouts: misplaced reads included, a reader never acts on a
\* frame twice, out of order or before it was sent whole.
THEOREM FramesInOrderAlways == WireSpec => []FramesInOrder
BY InvGivesOrder, WireInvariant, PTL

-----------------------------------------------------------------------------
(* Refinement *)

\* send_all sends the frames one by one: the frame being sent is the first
\* that is not whole yet, and only its last byte makes it whole.
LEMMA SendingIsOneByOne ==
  ASSUME WireInv, NEW w \in 1..Start[N + 1], SendSome(w)
  PROVE  SentWhole' = SentWhole \/ \E f \in Frames : Channel!Send(f)
<1>1. PICK f \in Frames : Start[f] <= written /\ written + w <= Start[f + 1] /\ w > 0
  BY DEF SendSome
<1>2. /\ w \in Nat /\ written \in Nat /\ written' = written + w
      /\ delivered' = delivered /\ f \in Int
      /\ Start[f] \in Nat /\ Start[f + 1] \in Nat
  BY <1>1, OffsetsNat DEF SendSome, WireInv, WireTypeOK, Frames
<1>3. ASSUME NEW g \in Frames, g # f
      PROVE  /\ g \in SentWhole <=> g < f
             /\ g \in SentWhole' <=> g < f
  <2>1. g \in 1..(N + 1) /\ g + 1 \in 1..(N + 1) /\ Start[g] \in Nat /\ Start[g + 1] \in Nat
        /\ Start[g] + 12 <= Start[g + 1] /\ g \in Int
    BY OffsetsNat DEF Frames
  <2>2. CASE g < f
    <3>1. Start[g + 1] <= Start[f]
      <4>1. CASE g + 1 = f
        BY <1>2, <4>1
      <4>2. CASE g + 1 # f
        <5>1. g + 1 < f /\ f \in 1..(N + 1)
          BY <1>2, <2>1, <2>2, <4>2, OffsetsNat
        <5> QED BY <1>2, <2>1, <5>1, WireAssumption DEF MinFrame
      <4> QED BY <4>1, <4>2
    <3> QED BY <1>1, <1>2, <2>1, <2>2, <3>1 DEF SentWhole
  <2>3. CASE ~(g < f)
    <3>1. Start[f + 1] + 12 <= Start[g + 1]
      <4>1. f + 1 < g + 1 /\ f + 1 \in 1..(N + 1)
        BY <1>2, <1>3, <2>1, <2>3, OffsetsNat
      <4> QED BY <2>1, <4>1, WireAssumption DEF MinFrame
    <3>2. ~(Start[g + 1] <= written) /\ ~(Start[g + 1] <= written')
      BY <1>1, <1>2, <2>1, <3>1
    <3> QED BY <2>3, <3>2 DEF SentWhole
  <2> QED BY <2>2, <2>3
<1>4. f \notin SentWhole
  BY <1>1, <1>2 DEF SentWhole
<1>5. CASE f \in SentWhole'
  <2>1. SentWhole' = SentWhole \cup {f}
    BY <1>3, <1>5 DEF SentWhole
  <2>2. \A g \in Frames : g < f => g \in SentWhole
    BY <1>2, <1>3 DEF Frames
  <2>3. Channel!Send(f)
    BY <1>2, <1>4, <2>1, <2>2 DEF Channel!Send
  <2> QED BY <2>3
<1>6. CASE f \notin SentWhole'
  <2>1. SentWhole' = SentWhole
    BY <1>3, <1>4, <1>6 DEF SentWhole
  <2> QED BY <2>1
<1> QED BY <1>5, <1>6

\* Decoding is the only step that delivers, and it delivers a frame that is
\* whole and newer than everything before.
LEMMA DecodingDelivers ==
  ASSUME WireInv, NEW r \in 1..need, RecvBody(r)
  PROVE  delivered' = delivered \/ \E f \in Frames : Channel!Deliver(f)
<1>1. SentWhole' = SentWhole
  BY DEF RecvBody, Unchanged, SentWhole
<1>2. WireInv'
  BY RecvBodyKeepsInv
<1>3. ASSUME NEW f \in Frames, Decodes(f), delivered' = Append(delivered, f)
      PROVE  Channel!Deliver(f)
  <2> DEFINE n == Len(delivered)
  <2>1. /\ n \in Nat /\ Len(delivered') = n + 1 /\ delivered'[n + 1] = f
        /\ \A k \in 1..n : delivered'[k] = delivered[k]
    BY <1>3 DEF WireInv, WireTypeOK
  <2>2. FramesInOrder'
    BY <1>2, InvGivesOrder, PTL
  <2>3. delivered'[n + 1] \in SentWhole
    BY <1>1, <2>1, <2>2 DEF FramesInOrder
  <2>4. \A k \in 1..n : delivered'[k] < delivered'[n + 1]
    BY <2>1, <2>2 DEF FramesInOrder
  <2>5. Channel!Newer(f)
    BY <2>1, <2>4 DEF Channel!Newer
  <2> QED BY <1>1, <1>3, <2>1, <2>3, <2>5 DEF Channel!Deliver, Decodes
<1> QED BY <1>3 DEF RecvBody

LEMMA StepRefines ==
  WireInv /\ [WireNext]_wirevars => [Channel!ChannelNext]_(Channel!channelvars)
<1> SUFFICES ASSUME WireInv, [WireNext]_wirevars
             PROVE  [Channel!ChannelNext]_(Channel!channelvars)
  OBVIOUS
<1>1. CASE \E w \in 1..Start[N + 1] : SendSome(w)
  <2>1. delivered' = delivered
    BY <1>1 DEF SendSome
  <2> QED BY <1>1, <2>1, SendingIsOneByOne DEF Channel!ChannelNext, Channel!channelvars
<1>2. CASE \E r \in 1..need : RecvBody(r)
  <2>1. SentWhole' = SentWhole
    BY <1>2 DEF RecvBody, Unchanged, SentWhole
  <2> QED BY <1>2, <2>1, DecodingDelivers DEF Channel!ChannelNext, Channel!channelvars
<1>3. CASE \/ SenderEnds \/ RequestStop \/ NoFrame \/ BodyFails \/ Probe \/ CallRecvAck
           \/ \E r \in 1..need : RecvLength(r)
           \/ UNCHANGED wirevars
  <2>1. UNCHANGED <<written, delivered>>
    BY <1>3, Zenon DEF SenderEnds, RequestStop, NoFrame, BodyFails, Probe, CallRecvAck,
                       RecvLength, Unchanged, wirevars
  <2>2. SentWhole' = SentWhole
    BY <2>1 DEF SentWhole
  <2> QED BY <2>1, <2>2 DEF Channel!channelvars
<1> QED BY <1>1, <1>2, <1>3 DEF WireNext, ReaderNext

\* The byte stream with its partial sends and receives, timeouts, probes and
\* misplaced reads implements a lossy FIFO channel of frames.
THEOREM WireImplementsChannel == WireSpec => ImplementsChannel
<1>1. WireInit => Channel!ChannelInit
  <2> SUFFICES ASSUME WireInit PROVE Channel!ChannelInit
    OBVIOUS
  <2>1. written = 0 /\ delivered = <<>>
    BY DEF WireInit
  <2>2. ASSUME NEW f \in Frames PROVE ~(Start[f + 1] <= written)
    <3>1. Start[f] \in Nat /\ Start[f + 1] \in Nat /\ Start[f] + 12 <= Start[f + 1]
      BY OffsetsNat
    <3> QED BY <2>1, <3>1
  <2>3. SentWhole = {}
    BY <2>2 DEF SentWhole
  <2> QED BY <2>1, <2>3 DEF Channel!ChannelInit
<1> QED BY <1>1, StepRefines, WireInvariant, PTL
    DEF WireSpec, ImplementsChannel, Channel!ChannelSpec

-----------------------------------------------------------------------------
(* Nothing is lost without a timeout *)

\* Every frame that was taken from the socket and can be decoded was delivered.
NothingLost ==
  \A f \in Valid :
    Start[f + 1] <= consumed => \E k \in 1..Len(delivered) : delivered[k] = f

\* The reader is where a frame starts, or nothing will ever be read again.
InStep ==
  timeouts = 0 /\ sender # "reset" =>
    /\ NothingLost
    /\ pc = "body" => \E f \in Frames : IsStart(at, f)
    /\ pc \in {"length", "idle", "probe"} =>
         EndOfStream \/ (pc # "probe" /\ AtBoundary(consumed - Partial))

LossInv == WireInv /\ InStep

\* Between two frame starts no frame ends.
LEMMA BoundaryGap ==
  ASSUME NEW i \in 1..(N + 1), NEW g \in Frames, NEW c \in Nat,
         Start[g + 1] <= c, c < Start[i] + 12
  PROVE  Start[g + 1] <= Start[i]
<1>1. g + 1 \in 1..(N + 1) /\ Start[g + 1] \in Nat /\ Start[i] \in Nat
  BY OffsetsNat
<1>2. i < g + 1 => Start[i] + 12 <= Start[g + 1]
  BY <1>1, WireAssumption DEF MinFrame
<1>3. g + 1 < i => Start[g + 1] + 12 <= Start[i]
  BY <1>1, WireAssumption DEF MinFrame
<1>4. i \in Int /\ g + 1 \in Int
  BY <1>1, OffsetsNat
<1>5. CASE i < g + 1
  BY <1>1, <1>2, <1>5
<1>6. CASE g + 1 < i
  BY <1>1, <1>3, <1>6
<1>7. CASE i = g + 1
  BY <1>1, <1>7
<1> QED BY <1>4, <1>5, <1>6, <1>7

\* Frames that end at the same byte are the same.
LEMMA EndsDistinct ==
  ASSUME NEW f \in Frames, NEW g \in Frames, Start[f + 1] = Start[g + 1]
  PROVE  f = g
<1>1. /\ f + 1 \in 1..(N + 1) /\ g + 1 \in 1..(N + 1)
      /\ Start[f + 1] \in Nat /\ Start[g + 1] \in Nat /\ f \in Int /\ g \in Int
  BY OffsetsNat DEF Frames
<1>2. ~(f + 1 < g + 1) /\ ~(g + 1 < f + 1)
  BY <1>1, WireAssumption DEF MinFrame
<1> QED BY <1>1, <1>2

\* Reading on without passing the end of another frame loses nothing.
LEMMA NothingNew ==
  ASSUME NothingLost, delivered' = delivered, consumed \in Nat, consumed' \in Nat,
         NEW i \in 1..(N + 1), Start[i] <= consumed,
         \A g \in Frames : Start[g + 1] <= consumed' => Start[g + 1] <= Start[i]
  PROVE  NothingLost'
<1> SUFFICES ASSUME NEW f \in Valid, Start[f + 1] <= consumed'
             PROVE  \E k \in 1..Len(delivered) : delivered[k] = f
  BY DEF NothingLost
<1>1. f \in Frames
  BY WireAssumption
<1>2. Start[f + 1] \in Nat /\ Start[i] \in Nat
  BY <1>1, OffsetsNat
<1>3. Start[f + 1] <= Start[i]
  BY <1>1
<1>4. Start[f + 1] <= consumed
  BY <1>2, <1>3
<1> QED BY <1>4 DEF NothingLost

LEMMA RecvLengthInStep ==
  ASSUME LossInv, NEW r \in 1..need, RecvLength(r)
  PROVE  InStep'
<1> SUFFICES ASSUME timeouts' = 0, sender' # "reset"
             PROVE  /\ NothingLost'
                    /\ pc' = "body" => \E f \in Frames : IsStart(at', f)
                    /\ pc' \in {"length", "idle", "probe"} =>
                         EndOfStream' \/ (pc' # "probe" /\ AtBoundary((consumed - Partial)'))
  BY DEF InStep, IsStart, AtBoundary
<1>1. /\ pc = "length" /\ need \in 1..4 /\ consumed' = consumed + r /\ consumed + r <= written
      /\ delivered' = delivered /\ timeouts = 0 /\ sender # "reset"
      /\ written \in 0..Start[N + 1] /\ consumed \in Nat /\ Partial = 4 - need
      /\ consumed - Partial \in Nat
  BY DeliveredBefore DEF RecvLength, Recv, Unchanged, LossInv, WireInv, WireTypeOK, Partial
<1>2. Start[N + 1] \in Nat /\ N + 1 \in 1..(N + 1) /\ written \in Nat
  BY <1>1, OffsetsNat
<1>3. NothingLost /\ AtBoundary(consumed - Partial)
  <2>1. consumed # written
    BY <1>1, <1>2
  <2> QED BY <1>1, <2>1 DEF LossInv, InStep, EndOfStream
<1>4. PICK i \in 1..(N + 1) : Start[i] = consumed - Partial
  BY <1>3 DEF AtBoundary
<1>5. Start[i] \in Nat /\ Start[i] <= consumed /\ consumed' \in Nat /\ consumed' <= Start[i] + 4
      /\ Start[i] + Partial = consumed
  BY <1>1, <1>4
<1>6. NothingLost'
  <2>1. \A g \in Frames : Start[g + 1] <= consumed' => Start[g + 1] <= Start[i]
    <3>1. consumed' < Start[i] + 12
      BY <1>5
    <3> QED BY <1>5, <3>1, BoundaryGap
  <2> QED BY <1>1, <1>3, <1>5, <2>1, NothingNew
<1>7. CASE r < need
  <2>1. need' = need - r /\ pc' = "length"
    BY <1>1, <1>7 DEF RecvLength
  <2>2. Partial' = 4 - (need - r)
    BY <2>1 DEF Partial
  <2>3. consumed' - Partial' = Start[i]
    BY <1>1, <1>4, <2>2
  <2>4. AtBoundary((consumed - Partial)')
    BY <2>3 DEF AtBoundary
  <2> QED BY <1>6, <2>1, <2>4
<1>8. CASE ~(r < need)
  <2>1. consumed' = Start[i] + 4
    BY <1>1, <1>4, <1>8
  <2>2. i \in Frames
    <3>1. i # N + 1
      <4>1. ~(Start[N + 1] + 4 <= Start[N + 1])
        BY <1>2
      <4>2. Start[i] + 4 <= Start[N + 1]
        BY <1>1, <1>2, <1>5, <2>1
      <4> QED BY <4>1, <4>2
    <3> QED BY <3>1, OffsetsNat DEF Frames
  <2>3. consumed' - 4 = Start[i]
    BY <1>5, <2>1
  <2>4. IsStart(consumed' - 4, i)
    BY <2>2, <2>3 DEF IsStart
  <2>5. pc' = "body" /\ at' = Start[i]
    BY <1>8, <2>2, <2>3, <2>4 DEF RecvLength
  <2>6. \E f \in Frames : IsStart(at', f)
    BY <2>2, <2>5 DEF IsStart
  <2> QED BY <1>6, <2>5, <2>6
<1> QED BY <1>7, <1>8

LEMMA RecvBodyInStep ==
  ASSUME LossInv, NEW r \in 1..need, RecvBody(r)
  PROVE  InStep'
<1> SUFFICES ASSUME timeouts' = 0, sender' # "reset"
             PROVE  /\ NothingLost'
                    /\ pc' = "body" => \E f \in Frames : IsStart(at', f)
                    /\ pc' \in {"length", "idle", "probe"} =>
                         EndOfStream' \/ (pc' # "probe" /\ AtBoundary((consumed - Partial)'))
  BY DEF InStep, IsStart, AtBoundary
<1>1. /\ pc = "body" /\ need \in Nat /\ consumed' = consumed + r
      /\ consumed \in Nat /\ at + 4 <= consumed /\ at \in Nat /\ at' = at
      /\ timeouts = 0 /\ sender # "reset" /\ delivered \in Seq(Valid)
  BY OffsetsNat DEF RecvBody, Recv, Unchanged, LossInv, WireInv, WireTypeOK, ReadPosition
<1>2. NothingLost
  BY <1>1 DEF LossInv, InStep
<1>3. PICK f \in Frames : Start[f] = at
  BY <1>1 DEF LossInv, InStep, IsStart
<1>4. /\ f \in 1..(N + 1) /\ f + 1 \in 1..(N + 1)
      /\ Start[f] \in Nat /\ Start[f + 1] \in Nat /\ Start[f] + 12 <= Start[f + 1]
  BY OffsetsNat
<1>5. consumed + need = Start[f + 1] /\ Start[f] <= consumed
  BY <1>1, <1>3, <1>4 DEF LossInv, WireInv, ReadPosition
<1>6. ASSUME NEW g \in Frames, Start[g + 1] <= Start[f + 1], g # f
      PROVE  Start[g + 1] <= Start[f]
  <2>1. Start[g + 1] # Start[f + 1]
    BY <1>6, EndsDistinct
  <2>2. g + 1 \in 1..(N + 1) /\ Start[g + 1] \in Nat /\ f \in Int /\ g \in Int
    BY OffsetsNat DEF Frames
  <2>3. ~(f + 1 < g + 1)
    BY <1>4, <1>6, <2>2, WireAssumption DEF MinFrame
  <2>4. CASE g + 1 = f
    BY <1>4, <2>4
  <2>5. CASE g + 1 # f
    <3>1. g + 1 < f
      BY <1>6, <2>2, <2>3, <2>5
    <3> QED BY <1>4, <2>2, <3>1, WireAssumption DEF MinFrame
  <2> QED BY <2>4, <2>5
<1>7. CASE r < need
  <2>1. pc' = "body" /\ delivered' = delivered
    BY <1>7 DEF RecvBody
  <2>2. consumed' \in Nat /\ consumed' < Start[f + 1]
    BY <1>1, <1>4, <1>5, <1>7
  <2>3. \A g \in Frames : Start[g + 1] <= consumed' => Start[g + 1] <= Start[f]
    <3> SUFFICES ASSUME NEW g \in Frames, Start[g + 1] <= consumed'
                 PROVE  Start[g + 1] <= Start[f]
      OBVIOUS
    <3>1. Start[g + 1] \in Nat
      BY OffsetsNat
    <3>2. Start[g + 1] <= Start[f + 1] /\ g # f
      BY <1>4, <2>2, <3>1
    <3> QED BY <1>6, <3>2
  <2>4. NothingLost'
    BY <1>1, <1>2, <1>4, <1>5, <2>1, <2>2, <2>3, NothingNew
  <2> QED BY <1>1, <1>3, <2>1, <2>4 DEF IsStart
<1>8. CASE ~(r < need)
  <2>1. consumed' = Start[f + 1] /\ r = need
    BY <1>1, <1>4, <1>5, <1>8
  <2>2. pc' \in {"length", "idle", "closed"} /\ need' = 4
    BY <1>8, Zenon DEF RecvBody, FrameFails, NextFrame
  <2>3. Partial' = 0
    BY <2>2 DEF Partial
  <2>4. AtBoundary((consumed - Partial)')
    <3>1. consumed' - Partial' = Start[f + 1]
      BY <1>4, <2>1, <2>3
    <3> QED BY <1>4, <3>1 DEF AtBoundary
  <2>5. ASSUME NEW g \in Valid, Start[g + 1] <= consumed', g # f
        PROVE  \E k \in 1..Len(delivered) : delivered[k] = g
    <3>1. g \in Frames /\ Start[g + 1] \in Nat
      BY OffsetsNat, WireAssumption
    <3>2. Start[g + 1] <= consumed
      BY <1>1, <1>4, <1>5, <1>6, <2>1, <2>5, <3>1
    <3> QED BY <1>2, <3>2 DEF NothingLost
  <2>6. CASE f \in Valid
    <3>1. \E d \in Frames : Decodes(d) /\ delivered' = Append(delivered, d)
      BY <1>3, <1>8, <2>6 DEF RecvBody, Decodes, IsStart
    <3>2. delivered' = Append(delivered, f)
      BY <1>3, <3>1, StartsDistinct DEF Decodes, IsStart
    <3> DEFINE n == Len(delivered)
    <3>3. /\ n \in Nat /\ Len(delivered') = n + 1 /\ delivered'[n + 1] = f
          /\ \A k \in 1..n : delivered'[k] = delivered[k]
      BY <1>1, <3>2
    <3>4. NothingLost'
      <4> SUFFICES ASSUME NEW g \in Valid, Start[g + 1] <= consumed'
                   PROVE  \E k \in 1..Len(delivered') : delivered'[k] = g
        BY DEF NothingLost
      <4>1. CASE g = f
        BY <3>3, <4>1
      <4>2. CASE g # f
        <5>1. PICK k \in 1..n : delivered[k] = g
          BY <2>5, <4>2
        <5>2. k \in 1..(n + 1)
          BY <3>3
        <5> QED BY <3>3, <5>1, <5>2
      <4> QED BY <4>1, <4>2
    <3> QED BY <2>2, <2>4, <3>4
  <2>7. CASE f \notin Valid
    <3>1. \A d \in Frames : ~Decodes(d)
      BY <1>3, <2>7, StartsDistinct DEF Decodes, IsStart
    <3>2. delivered' = delivered
      BY <1>8, <3>1 DEF RecvBody
    <3>3. NothingLost'
      BY <2>5, <2>7, <3>2 DEF NothingLost
    <3> QED BY <2>2, <2>4, <3>3
  <2> QED BY <2>6, <2>7
<1> QED BY <1>7, <1>8

LEMMA OthersInStep ==
  ASSUME LossInv, NoFrame \/ BodyFails \/ Probe \/ CallRecvAck
  PROVE  InStep'
<1> SUFFICES ASSUME timeouts' = 0, sender' # "reset"
             PROVE  /\ NothingLost'
                    /\ pc' # "body"
                    /\ pc' \in {"length", "idle", "probe"} =>
                         EndOfStream' \/ (pc' # "probe" /\ AtBoundary((consumed - Partial)'))
  BY DEF InStep, AtBoundary
<1>1. /\ consumed \in Nat /\ written \in Nat /\ consumed <= written /\ timeouts \in Nat
  BY OffsetsNat DEF LossInv, WireInv, WireTypeOK
<1>2. /\ UNCHANGED <<sender, written, delivered>> /\ sender # "reset"
      /\ pc' \in {"length", "probe", "idle", "closed"} /\ need' = 4
  BY Zenon DEF NoFrame, BodyFails, Probe, CallRecvAck, FrameFails, NextFrame, Unchanged
<1>3. timeouts = 0
  BY <1>1 DEF NoFrame, BodyFails, Probe, CallRecvAck, RecvFails, Recv
<1>4. NothingLost
  BY <1>2, <1>3 DEF LossInv, InStep
<1>5. CASE NoFrame \/ BodyFails \/ (Probe /\ ~Recv(1, 1))
  <2>1. RecvFails
    BY <1>5 DEF NoFrame, BodyFails, Probe
  <2>2. EndOfStream /\ consumed' = consumed
    BY <1>1, <1>2, <1>3, <2>1 DEF RecvFails
  <2>3. EndOfStream'
    BY <1>2, <2>2 DEF EndOfStream
  <2>4. NothingLost'
    BY <1>2, <1>4, <2>2 DEF NothingLost
  <2> QED BY <1>2, <2>3, <2>4
<1>6. CASE Probe /\ Recv(1, 1)
  <2>1. EndOfStream
    BY <1>2, <1>3, <1>6 DEF Probe, LossInv, InStep
  <2>2. consumed + 1 <= written
    BY <1>6 DEF Recv
  <2> QED BY <1>1, <2>1, <2>2 DEF EndOfStream
<1>7. CASE CallRecvAck
  <2>1. pc = "idle" /\ consumed' = consumed /\ pc' # "probe"
    BY <1>7 DEF CallRecvAck
  <2>2. Partial = 0 /\ Partial' = 0
    BY <1>2, <2>1 DEF Partial
  <2>3. EndOfStream' \/ AtBoundary((consumed - Partial)')
    BY <1>2, <1>3, <2>1, <2>2 DEF LossInv, InStep, EndOfStream, AtBoundary
  <2>4. NothingLost'
    BY <1>2, <1>4, <2>1 DEF NothingLost
  <2> QED BY <1>2, <2>1, <2>3, <2>4
<1> QED BY <1>5, <1>6, <1>7

LEMMA SenderInStep ==
  ASSUME LossInv, (\E w \in 1..Start[N + 1] : SendSome(w)) \/ SenderEnds \/ RequestStop
  PROVE  InStep'
<1>1. UNCHANGED <<consumed, pc, need, at, delivered, timeouts>>
  BY DEF SendSome, SenderEnds, RequestStop
<1>2. NothingLost' = NothingLost /\ Partial' = Partial
  BY <1>1 DEF NothingLost, Partial
<1>3. (sender' # "reset" => sender # "reset") /\ (EndOfStream => EndOfStream')
  BY DEF SendSome, SenderEnds, RequestStop, EndOfStream
<1> QED BY <1>1, <1>2, <1>3 DEF LossInv, InStep, IsStart, AtBoundary

LEMMA LossInit == WireInit => LossInv
<1> SUFFICES ASSUME WireInit PROVE LossInv
  OBVIOUS
<1>1. consumed = 0 /\ pc = "length" /\ need = 4 /\ delivered = <<>>
  BY DEF WireInit
<1>2. NothingLost
  <2> SUFFICES ASSUME NEW f \in Valid PROVE ~(Start[f + 1] <= consumed)
    BY DEF NothingLost
  <2>1. Start[f] \in Nat /\ Start[f + 1] \in Nat /\ Start[f] + 12 <= Start[f + 1]
    BY OffsetsNat, WireAssumption
  <2> QED BY <1>1, <2>1
<1>3. AtBoundary(consumed - Partial)
  <2>1. Partial = 0
    BY <1>1 DEF Partial
  <2>2. 1 \in 1..(N + 1) /\ Start[1] = 0
    BY OffsetsNat, WireAssumption
  <2> QED BY <1>1, <2>1, <2>2 DEF AtBoundary
<1> QED BY <1>1, <1>2, <1>3, InvInit DEF LossInv, InStep

LEMMA LossStep == LossInv /\ [WireNext]_wirevars => LossInv'
<1>1. ASSUME LossInv, UNCHANGED wirevars PROVE InStep'
  BY <1>1 DEF wirevars, LossInv, InStep, NothingLost, EndOfStream, AtBoundary, IsStart, Partial
<1>2. ASSUME LossInv, WireNext PROVE InStep'
  BY <1>2, SenderInStep, RecvLengthInStep, RecvBodyInStep, OthersInStep DEF WireNext, ReaderNext
<1> QED BY <1>1, <1>2, InvStep DEF LossInv

\* NoLossWithoutTimeout, for every stream and every cut of it into pieces: the
\* loops of recv_exact keep the reader in step with the sender, and only a
\* timeout can break that.
THEOREM NoLoss == WireSpec => []NoLossWithoutTimeout
<1>1. LossInv => NoLossWithoutTimeout
  <2> SUFFICES ASSUME LossInv, timeouts = 0, sender # "reset"
               PROVE  /\ \A f \in Valid :
                           Start[f + 1] <= consumed => \E k \in 1..Len(delivered) : delivered[k] = f
                      /\ pc = "body" => AtBoundary(at)
    BY DEF NoLossWithoutTimeout
  <2>1. NothingLost /\ (pc = "body" => \E f \in Frames : IsStart(at, f))
    BY DEF LossInv, InStep
  <2>2. \A f \in Frames : f \in 1..(N + 1)
    BY OffsetsNat
  <2> QED BY <2>1, <2>2 DEF NothingLost, IsStart, AtBoundary
<1> QED BY <1>1, LossInit, LossStep, PTL DEF WireSpec
=============================================================================
