------------------------- MODULE PartTransferProofs -------------------------
(***************************************************************************)
(* The transfer of one part, for every size of part, every loss, every     *)
(* order of packets and of the goroutines, and every value an append that  *)
(* is seen half-way may be read as.                                        *)
(***************************************************************************)
EXTENDS PartTransfer, PartReceiverProofs

\* Read has left its loop; Write has left WritePart.
ReadDone == rpc \in {"finishing", "returned"}

Retransferring ==
  spc \in {"loop", "snapshot", "range", "reset", "returned", "panicked", "fatal", "zero"}

\* The messages to the sender: their lists are parallel, and a finish message is
\* sent when Read has left its loop.
Messages ==
  [PartFinished                 : BOOLEAN,
   MissingSequenceNumbers       : Seq(Int),
   MissingSequenceNumberOffsets : Seq(Int)]

Requests ==
  {m \in Messages :
     /\ Len(m.MissingSequenceNumberOffsets) = Len(m.MissingSequenceNumbers)
     /\ m.PartFinished => ReadDone}

\* The data packets of a sender that is at sequence number n.
PacketsUpTo(n) == [part : PartIds, seq : 1..n]

WriteOK ==
  /\ spc \in {"writing", "loop", "snapshot", "range", "reset", "returned",
              "failed", "panicked", "fatal", "zero"}
  /\ sent \in 0..NumPackets
  /\ dpState \in {"pending", "retransfer"}
  /\ rangeLen \in Nat /\ rangeIdx \in Nat
  /\ Retransferring => sent = NumPackets
  /\ spc = "range" => rangeIdx >= 1

HandleOK ==
  /\ hpc \in {"select", "num", "offset", "store", "stopping"}
  /\ hmsg \in Requests
  /\ hpos \in 0..Len(hmsg.MissingSequenceNumbers)
  /\ hpc \in {"num", "offset", "store"} => hpos >= 1

NetOK ==
  /\ dataNet \in Seq(PacketsUpTo(sent)) /\ Len(dataNet) <= DataBuf
  /\ highest <= sent
  /\ ackNet \in Seq(Requests)
  /\ Len(ackNet) <= MaxRequests + (IF ReadDone THEN 1 ELSE 0)
  /\ lost \in Losses

\* Only a finish message ends the retransfer loop.
FinishAfterRead ==
  /\ hpc = "stopping" => ReadDone
  /\ spc \in {"loop", "snapshot", "range", "reset"} /\ dpState = "pending" => hpc = "stopping"
  /\ spc = "returned" => hpc = "stopping"

\* The number of the gap that handlePartAckPacket is adding.
NumAdded == hmsg.MissingSequenceNumbers[hpos]

\* The sender's lists name no gap twice.  What is added last may not be in its
\* slot yet.
ListsOK ==
  /\ sMissing \in Seq(Int) /\ sOffsets \in Seq(Int)
  /\ ListsSettle
  /\ \A i \in 1..Len(sOffsets) : \A j \in 1..Len(sOffsets) :
       i # j => sMissing[i] # sMissing[j]
  /\ hpc = "offset" => \A i \in 1..Len(sOffsets) : sMissing[i] # NumAdded
  /\ hpc = "store" => /\ Len(sOffsets) >= 1
                      /\ sMissing[Len(sOffsets)] = NumAdded
                      /\ sOffsets[Len(sOffsets)] \in Garbage

\* The gap from n up to b is in a pair of lists, in a request, in the sender's
\* lists, or anywhere.
ListsHave(nums, offsets, n, b) ==
  \E i \in 1..Len(nums) : n = nums[i] /\ b = nums[i] + offsets[i]

RequestHas(m, n, b) ==
  ListsHave(m.MissingSequenceNumbers, m.MissingSequenceNumberOffsets, n, b)

SenderHas(n, b) == \E i \in Settled : n = sMissing[i] /\ b = sMissing[i] + sOffsets[i]

IsGap(n, b) ==
  \/ ListsHave(rMissing, rOffsets, n, b)
  \/ SenderHas(n, b)
  \/ RequestHas(hmsg, n, b)
  \/ \E k \in 1..Len(ackNet) : RequestHas(ackNet[k], n, b)

\* Wherever a gap is, the packets it names are below the highest one received ...
GapsBelow == \A n, b \in Int : IsGap(n, b) => 1 <= n /\ n < b /\ b <= highest

\* ... and two gaps of whatever age overlap only when they start at the same
\* packet.
GapsApart ==
  \A n1, b1, n2, b2 \in Int :
    IsGap(n1, b1) /\ IsGap(n2, b2) /\ n1 < n2 => b1 <= n2

\* What is proved inductive, together with the receiver's own invariant.
TInv ==
  /\ IInv
  /\ WriteOK /\ HandleOK /\ NetOK
  /\ FinishAfterRead
  /\ ListsOK
  /\ GapsBelow /\ GapsApart
-----------------------------------------------------------------------------
(* What parts of a step leave alone.                                       *)

\* A step after which every gap is an old one, or what is left of it.
LEMMA SmallerGaps ==
  ASSUME TInv, highest' \in Int, highest <= highest',
         \A n, b \in Int :
           IsGap(n, b)' => n < b /\ \E c \in Int : b <= c /\ IsGap(n, c)
  PROVE  GapsBelow' /\ GapsApart'
<1>1. highest \in Int
  BY PartAssumption DEF TInv, IInv, ReceiverTypeOK
<1>2. GapsBelow'
  BY <1>1 DEF TInv, GapsBelow
<1>3. GapsApart'
  <2> SUFFICES ASSUME NEW n1 \in Int, NEW b1 \in Int, NEW n2 \in Int, NEW b2 \in Int,
                      IsGap(n1, b1)', IsGap(n2, b2)', n1 < n2
               PROVE  b1 <= n2
    BY DEF GapsApart
  <2>1. PICK c1 \in Int : b1 <= c1 /\ IsGap(n1, c1)
    OBVIOUS
  <2>2. PICK c2 \in Int : IsGap(n2, c2)
    OBVIOUS
  <2>3. c1 <= n2
    BY <2>1, <2>2 DEF TInv, GapsApart
  <2> QED BY <2>1, <2>3
<1> QED BY <1>2, <1>3

\* A step that brings no new gap.
LEMMA SameGaps ==
  ASSUME TInv, highest' \in Int, highest <= highest',
         \A n, b \in Int : IsGap(n, b)' => IsGap(n, b)
  PROVE  GapsBelow' /\ GapsApart'
<1>1. \A n, b \in Int : IsGap(n, b)' => n < b /\ \E c \in Int : b <= c /\ IsGap(n, c)
  BY DEF TInv, GapsBelow
<1> QED BY <1>1, SmallerGaps

LEMMA ReceiverKept ==
  ASSUME TInv, UNCHANGED recvVars
  PROVE  /\ IInv' /\ Requests' = Requests /\ (ReadDone' <=> ReadDone)
         /\ UNCHANGED <<highest, rMissing, rOffsets, rpc>>
         /\ highest \in 0..NumPackets
<1>1. IInv'
  BY NextInv DEF TInv
<1>2. UNCHANGED <<highest, rMissing, rOffsets, rpc>>
  BY DEF recvVars
<1>3. highest \in 0..NumPackets
  BY DEF TInv, IInv, ReceiverTypeOK
<1> QED BY <1>1, <1>2, <1>3 DEF Requests, ReadDone

\* The steps of Write that leave the lists alone.
LEMMA WriteKeeps ==
  ASSUME TInv, UNCHANGED <<recvVars, listVars, handleVars, ackNet, lost>>
  PROVE  /\ IInv' /\ HandleOK' /\ ListsOK' /\ GapsBelow' /\ GapsApart'
         /\ UNCHANGED <<highest, hpc, ackNet, lost>>
         /\ (ReadDone' <=> ReadDone)
         /\ ackNet' \in Seq(Requests') /\ highest \in 0..NumPackets
<1>1. UNCHANGED <<recvVars, sMissing, sOffsets, hpc, hmsg, hpos, ackNet, lost>>
  BY DEF listVars, handleVars
<1>2. /\ IInv' /\ Requests' = Requests /\ (ReadDone' <=> ReadDone)
      /\ UNCHANGED <<highest, rMissing, rOffsets, rpc>>
      /\ highest \in 0..NumPackets
  BY <1>1, ReceiverKept
<1>3. HandleOK'
  BY <1>1, <1>2 DEF TInv, HandleOK
<1>4. ListsOK'
  BY <1>1 DEF TInv, ListsOK, ListsSettle, NumAdded
<1>5. \A n, b \in Int : IsGap(n, b)' => IsGap(n, b)
  BY <1>1, <1>2 DEF IsGap, SenderHas, RequestHas, ListsHave, Settled
<1>6. GapsBelow' /\ GapsApart'
  BY <1>2, <1>5, SameGaps
<1> QED BY <1>1, <1>2, <1>3, <1>4, <1>6 DEF TInv, NetOK

\* What DataBuf lets through.
LEMMA BufferedOK ==
  ASSUME NEW S, NEW net \in Seq(S), NEW msgs \in Seq(S)
  PROVE  Buffered(net, msgs) \in Seq(S) /\ Len(Buffered(net, msgs)) <= DataBuf
<1> DEFINE all == net \o msgs
           len == MinInt(DataBuf, Len(net) + Len(msgs))
<1>1. all \in Seq(S) /\ Len(all) = Len(net) + Len(msgs)
  BY ConcatProperties
<1>2. len \in 0..Len(all) /\ len <= DataBuf
  BY <1>1, NetworkAssumption DEF MinInt
<1> HIDE DEF all, len
<1>3. SubSeq(all, 1, len) \in Seq(S) /\ Len(SubSeq(all, 1, len)) = len
  BY <1>1, <1>2
<1> QED BY <1>2, <1>3 DEF Buffered, all, len

\* The packets of a gap are packets of the part, whatever numbers the lists hold.
LEMMA GapPacketsOK ==
  ASSUME sMissing[rangeIdx] \in Int, sOffsets[rangeIdx] \in Int
  PROVE  GapPackets \in Seq(PacketsUpTo(NumPackets))
<1> DEFINE a == sMissing[rangeIdx]
           e == a + sOffsets[rangeIdx] - 1
           seqs == {s \in GapNumbers : \A t \in a..s : HasPayload(t)}
           last == IF a \in 1..NumPackets THEN MinInt(e, NumPackets) ELSE a - 1
<1>1. GapNumbers = a..e /\ a \in Int /\ e \in Int /\ NumPackets \in Nat
  BY PartAssumption DEF GapNumbers
<1>2. last \in Int /\ seqs = a..last
  <2>1. CASE a \in 1..NumPackets
    BY <1>1, <2>1 DEF HasPayload, SequenceNumbers, MinInt
  <2>2. CASE a \notin 1..NumPackets
    <3>1. seqs = {}
      BY <1>1, <2>2 DEF HasPayload, SequenceNumbers
    <3> QED BY <1>1, <2>2, <3>1
  <2> QED BY <2>1, <2>2
<1>3. Cardinality(seqs) = IF a > last THEN 0 ELSE last - a + 1
  BY <1>1, <1>2, FS_Interval
<1>4. ASSUME NEW j \in 1..Cardinality(seqs)
      PROVE  DataPacket(a + j - 1) \in PacketsUpTo(NumPackets)
  <2>1. a + j - 1 \in 1..NumPackets
    BY <1>1, <1>2, <1>3 DEF MinInt
  <2> QED BY <2>1, PartAssumption DEF DataPacket, PacketsUpTo
<1>5. Cardinality(seqs) \in Nat
  BY <1>1, <1>2, <1>3
<1>6. GapPackets = [j \in 1..Cardinality(seqs) |-> DataPacket(a + j - 1)]
  BY DEF GapPackets
<1> HIDE DEF seqs, a, e, last
<1> QED BY <1>4, <1>5, <1>6

LEMMA LongerPart ==
  ASSUME NEW a \in Nat, NEW b \in Nat, a <= b, NEW s \in Seq(PacketsUpTo(a))
  PROVE  s \in Seq(PacketsUpTo(b))
<1>1. PacketsUpTo(a) \subseteq PacketsUpTo(b)
  BY DEF PacketsUpTo
<1> QED BY <1>1

-----------------------------------------------------------------------------
(* Write.                                                                  *)

\* The steps of Write that leave the lists alone: what each has to add.
LEMMA WriteInv ==
  ASSUME TInv, UNCHANGED <<recvVars, listVars, handleVars, ackNet, lost>>,
         WriteOK', FinishAfterRead', sent <= sent',
         dataNet' \in Seq(PacketsUpTo(sent')), Len(dataNet') <= DataBuf
  PROVE  TInv'
<1>1. /\ IInv' /\ HandleOK' /\ ListsOK' /\ GapsBelow' /\ GapsApart'
      /\ UNCHANGED <<highest, hpc, ackNet, lost>>
      /\ (ReadDone' <=> ReadDone)
      /\ ackNet' \in Seq(Requests') /\ highest \in 0..NumPackets
  BY WriteKeeps
<1>2. highest' <= sent'
  BY <1>1, PartAssumption DEF TInv, NetOK, WriteOK
<1>3. Len(ackNet') <= MaxRequests + (IF ReadDone' THEN 1 ELSE 0) /\ lost' \in Losses
  BY <1>1 DEF TInv, NetOK
<1>4. NetOK'
  BY <1>1, <1>2, <1>3 DEF NetOK
<1> QED BY <1>1, <1>4 DEF TInv

LEMMA SendPacketInv == ASSUME TInv, SendPacket PROVE TInv'
<1>1. /\ UNCHANGED <<recvVars, listVars, handleVars, ackNet, lost>>
      /\ UNCHANGED <<spc, rangeLen, rangeIdx, dpState, hpc, rpc>>
      /\ sent' = sent + 1 /\ spc = "writing" /\ sent < NumPackets
      /\ sent \in 0..NumPackets /\ NumPackets \in Nat
  BY PartAssumption
  DEF SendPacket, WritePacket, handleVars, recvVars, TInv, WriteOK
<1>2. WriteOK'
  BY <1>1 DEF TInv, WriteOK, Retransferring
<1>3. FinishAfterRead'
  BY <1>1 DEF TInv, FinishAfterRead, ReadDone
<1>4. dataNet \in Seq(PacketsUpTo(sent + 1)) /\ Len(dataNet) <= DataBuf
  BY <1>1, LongerPart DEF TInv, NetOK
<1>5. <<DataPacket(sent + 1)>> \in Seq(PacketsUpTo(sent + 1))
  BY <1>1, PartAssumption DEF DataPacket, PacketsUpTo
<1>6. dataNet' \in Seq(PacketsUpTo(sent')) /\ Len(dataNet') <= DataBuf
  <2>1. CASE sent + 1 \in lost
    BY <1>1, <1>4, <2>1 DEF SendPacket
  <2>2. CASE sent + 1 \notin lost
    <3>1. dataNet' = Buffered(dataNet, <<DataPacket(sent + 1)>>)
      BY <2>2 DEF SendPacket
    <3> QED BY <1>1, <1>4, <1>5, <3>1, BufferedOK
  <2> QED BY <2>1, <2>2
<1>7. sent <= sent'
  BY <1>1
<1> QED BY <1>1, <1>2, <1>3, <1>6, <1>7, WriteInv

LEMMA SendGapInv == ASSUME TInv, SendGap PROVE TInv'
<1>1. /\ UNCHANGED <<recvVars, listVars, handleVars, ackNet, lost>>
      /\ UNCHANGED <<sent, rangeLen, dpState, hpc, rpc>>
      /\ rangeIdx' = rangeIdx + 1 /\ spc = "range"
      /\ spc' \in {"zero", "panicked", "reset", "range"}
      /\ rangeIdx \in 1..Len(sOffsets)
      /\ sent = NumPackets /\ NumPackets \in Nat
  BY PartAssumption
  DEF SendGap, RetransferGap, handleVars, recvVars, TInv, WriteOK, Retransferring, ListsOK
<1>2. WriteOK'
  BY <1>1 DEF TInv, WriteOK, Retransferring
<1>3. FinishAfterRead'
  BY <1>1 DEF TInv, FinishAfterRead, ReadDone
<1>4. sMissing[rangeIdx] \in Int /\ sOffsets[rangeIdx] \in Int
  <2>1. /\ sMissing \in Seq(Int) /\ sOffsets \in Seq(Int)
        /\ Len(sMissing) >= Len(sOffsets)
    BY DEF TInv, ListsOK, ListsSettle
  <2> QED BY <1>1, <2>1
<1>5. GapPackets \in Seq(PacketsUpTo(sent))
  BY <1>1, <1>4, GapPacketsOK
<1>6. dataNet' \in Seq(PacketsUpTo(sent')) /\ Len(dataNet') <= DataBuf
  BY <1>1, <1>5, BufferedOK DEF SendGap, TInv, NetOK
<1> QED BY <1>1, <1>2, <1>3, <1>6, WriteInv

\* The steps of Write that send nothing.
LEMMA QuietWriteInv ==
  ASSUME TInv, UNCHANGED <<recvVars, netVars>>,
         \/ EnterRetransfer \/ LoopTest \/ RangeSnapshot \/ RangeMismatch
         \/ WriteError \/ RetransferError
  PROVE  TInv'
<1>1. /\ UNCHANGED <<recvVars, listVars, handleVars, ackNet, lost>>
      /\ UNCHANGED <<sent, dataNet, hpc, rpc>>
  BY DEF EnterRetransfer, LoopTest, RangeSnapshot, RangeMismatch, WriteError,
         RetransferError, netVars, recvVars, handleVars
<1>2. sent \in 0..NumPackets /\ NumPackets \in Nat /\ sMissing \in Seq(Int)
  BY PartAssumption DEF TInv, WriteOK, ListsOK
<1>3. WriteOK'
  BY <1>1, <1>2
  DEF EnterRetransfer, LoopTest, RangeSnapshot, RangeMismatch, WriteError,
      RetransferError, TInv, WriteOK, Retransferring
<1>4. FinishAfterRead'
  BY <1>1
  DEF EnterRetransfer, LoopTest, RangeSnapshot, RangeMismatch, WriteError,
      RetransferError, TInv, WriteOK, FinishAfterRead, ReadDone
<1>5. dataNet' \in Seq(PacketsUpTo(sent')) /\ Len(dataNet') <= DataBuf /\ sent <= sent'
  BY <1>1, <1>2 DEF TInv, NetOK
<1> QED BY <1>1, <1>3, <1>4, <1>5, WriteInv

-----------------------------------------------------------------------------
(* The lists of the sender.                                                *)

\* The steps that send no packet and bring no new gap: what each has to add.
LEMMA ListsInv ==
  ASSUME TInv, UNCHANGED <<recvVars, sent, dataNet, lost>>,
         WriteOK', HandleOK', FinishAfterRead', ListsOK',
         ackNet' \in Seq(Requests), Len(ackNet') <= Len(ackNet),
         \A n, b \in Int : IsGap(n, b)' => IsGap(n, b)
  PROVE  TInv'
<1>1. /\ IInv' /\ Requests' = Requests /\ (ReadDone' <=> ReadDone)
      /\ UNCHANGED <<highest, rMissing, rOffsets, rpc>>
      /\ highest \in 0..NumPackets
  BY ReceiverKept
<1>2. GapsBelow' /\ GapsApart'
  BY <1>1, SameGaps
<1>3. ackNet \in Seq(Requests) /\ MaxRequests \in Nat
  BY NetworkAssumption DEF TInv, NetOK
<1>4. Len(ackNet') <= MaxRequests + (IF ReadDone' THEN 1 ELSE 0)
  BY <1>1, <1>3 DEF TInv, NetOK
<1>5. dataNet' \in Seq(PacketsUpTo(sent')) /\ Len(dataNet') <= DataBuf
  BY DEF TInv, NetOK
<1>6. NetOK'
  BY <1>1, <1>4, <1>5 DEF TInv, NetOK
<1> QED BY <1>1, <1>2, <1>6 DEF TInv

LEMMA WriteResetInv == ASSUME TInv, WriteReset PROVE TInv'
<1>1. /\ UNCHANGED <<recvVars, sent, dataNet, lost, ackNet, dpState, hpc, hmsg, hpos>>
      /\ UNCHANGED <<rMissing, rOffsets, rpc>>
      /\ spc = "reset" /\ spc' = "loop" /\ hpc \notin {"offset", "store"}
      /\ sMissing' = <<>> /\ sOffsets' = <<>> /\ rangeLen' = 0 /\ rangeIdx' = 0
  BY DEF WriteReset, ResetRetransfers, handleVars, netVars, recvVars
<1>2. /\ Requests' = Requests /\ (ReadDone' <=> ReadDone)
  BY <1>1 DEF Requests, ReadDone
<1>3. WriteOK'
  BY <1>1 DEF TInv, WriteOK, Retransferring
<1>4. HandleOK'
  BY <1>1, <1>2 DEF TInv, HandleOK
<1>5. FinishAfterRead'
  BY <1>1, <1>2 DEF TInv, FinishAfterRead
<1>6. ListsOK'
  BY <1>1 DEF ListsOK, ListsSettle
<1>7. \A n, b \in Int : IsGap(n, b)' => IsGap(n, b)
  BY <1>1 DEF IsGap, SenderHas, RequestHas, ListsHave, Settled
<1>8. ackNet' \in Seq(Requests) /\ Len(ackNet') <= Len(ackNet)
  BY <1>1 DEF TInv, NetOK
<1> QED BY <1>1, <1>3, <1>4, <1>5, <1>6, <1>7, <1>8, ListsInv

-----------------------------------------------------------------------------
(* HandleAckPackets.                                                       *)

\* A message is taken from the network.
LEMMA ReceiveAckInv == ASSUME TInv, ReceiveAck PROVE TInv'
<1>1. PICK k \in Deliverable(ackNet) : HandleAck(ackNet[k]) /\ Received(ackNet, k)
  BY DEF ReceiveAck
<1>2. ackNet \in Seq(Requests)
  BY DEF TInv, NetOK
<1>3. k \in 1..Len(ackNet)
  BY <1>1, <1>2 DEF Deliverable, MinInt
<1>4. ackNet[k] \in Requests
  BY <1>2, <1>3, ElementOfSeq, Zenon
<1>5. ackNet' = RemoveFromSliceByIndex(ackNet, k)
  BY <1>1 DEF Received
<1>6. ackNet' \in Seq(Requests) /\ Len(ackNet') <= Len(ackNet)
  BY <1>2, <1>3, <1>5, QueueLeft, Zenon
<1>7. \A i \in 1..Len(ackNet') : \E j \in 1..Len(ackNet) : ackNet'[i] = ackNet[j]
  BY <1>2, <1>3, <1>5, QueueElements
<1>8. /\ UNCHANGED <<recvVars, sent, spc, rangeLen, rangeIdx, dataNet, lost>>
      /\ UNCHANGED <<rMissing, rOffsets, rpc, sMissing, sOffsets>>
  BY <1>1
  DEF ReceiveAck, HandleAck, HandleFinish, HandleRequest, writeVars, listVars, recvVars
<1>9. /\ Requests' = Requests /\ (ReadDone' <=> ReadDone)
  BY <1>8 DEF Requests, ReadDone
<1>10. /\ hpc = "select"
       /\ \/ /\ ackNet[k].PartFinished
             /\ dpState' = "pending" /\ hpc' = "stopping" /\ UNCHANGED <<hmsg, hpos>>
          \/ UNCHANGED <<dpState, hpc, hmsg, hpos>>
          \/ /\ ackNet[k].MissingSequenceNumbers # <<>>
             /\ hpc' = "num" /\ hmsg' = ackNet[k] /\ hpos' = 1 /\ UNCHANGED dpState
  BY <1>1
  DEF HandleAck, HandleFinish, HandleRequest, SetStatePending, handleVars, listVars,
      writeVars
<1>11. WriteOK'
  BY <1>8, <1>10 DEF TInv, WriteOK, Retransferring
<1>12. HandleOK'
  <2>1. /\ hmsg \in Requests /\ hpos \in 0..Len(hmsg.MissingSequenceNumbers)
    BY DEF TInv, HandleOK
  <2>2. CASE UNCHANGED <<hmsg, hpos>> /\ hpc' \in {"select", "stopping"}
    BY <1>9, <2>1, <2>2 DEF HandleOK
  <2>3. CASE /\ ackNet[k].MissingSequenceNumbers # <<>>
             /\ hpc' = "num" /\ hmsg' = ackNet[k] /\ hpos' = 1
    <3>1. ackNet[k].MissingSequenceNumbers \in Seq(Int)
      BY <1>4 DEF Requests, Messages
    <3>2. Len(ackNet[k].MissingSequenceNumbers) \in Nat \ {0}
      BY <3>1, <2>3
    <3> QED BY <1>4, <1>9, <2>3, <3>2 DEF HandleOK
  <2> QED BY <1>10, <2>2, <2>3
<1>13. FinishAfterRead'
  <2>1. ackNet[k].PartFinished => ReadDone
    BY <1>4 DEF Requests
  <2> QED BY <1>8, <1>9, <1>10, <2>1 DEF TInv, FinishAfterRead
<1>14. ListsOK'
  BY <1>8, <1>10 DEF TInv, ListsOK, ListsSettle, NumAdded
<1>15. \A n, b \in Int : IsGap(n, b)' => IsGap(n, b)
  <2> SUFFICES ASSUME NEW n \in Int, NEW b \in Int, IsGap(n, b)' PROVE IsGap(n, b)
    OBVIOUS
  <2>1. CASE ListsHave(rMissing, rOffsets, n, b)'
    BY <2>1, <1>8 DEF IsGap, ListsHave
  <2>2. CASE SenderHas(n, b)'
    BY <2>2, <1>8, <1>10 DEF IsGap, SenderHas, Settled
  <2>3. CASE RequestHas(hmsg, n, b)'
    BY <2>3, <1>3, <1>10 DEF IsGap, RequestHas, ListsHave
  <2>4. CASE \E i \in 1..Len(ackNet') : RequestHas(ackNet'[i], n, b)
    BY <2>4, <1>7 DEF IsGap
  <2> QED BY <2>1, <2>2, <2>3, <2>4 DEF IsGap
<1> QED BY <1>6, <1>8, <1>11, <1>12, <1>13, <1>14, <1>15, ListsInv

\* The loop of handlePartAckPacket goes on.
LEMMA NextGapOK ==
  ASSUME TInv, NextGap, hpc \in {"num", "offset", "store"}, UNCHANGED rpc
  PROVE  /\ HandleOK' /\ hpc' \in {"select", "num"}
         /\ hmsg' \in {hmsg, NoRequest}
<1>1. /\ hmsg \in Requests /\ hpos \in 0..Len(hmsg.MissingSequenceNumbers)
      /\ hmsg.MissingSequenceNumbers \in Seq(Int)
  BY DEF TInv, HandleOK, Requests, Messages
<1>2. Requests' = Requests /\ NoRequest \in Requests /\ NoRequest.MissingSequenceNumbers = <<>>
  BY DEF Requests, ReadDone, NoRequest, GapRequest, Messages
<1>3. CASE hpos = Len(hmsg.MissingSequenceNumbers)
  BY <1>1, <1>2, <1>3 DEF NextGap, HandleOK
<1>4. CASE hpos # Len(hmsg.MissingSequenceNumbers)
  BY <1>1, <1>2, <1>4 DEF NextGap, HandleOK
<1> QED BY <1>3, <1>4

\* NoRequest asks for nothing.
LEMMA NoRequestHas ==
  ASSUME NEW n, NEW b
  PROVE  ~RequestHas(NoRequest, n, b)
BY DEF RequestHas, ListsHave, NoRequest, GapRequest

LEMMA SkipGapInv ==
  ASSUME TInv, SkipGap, UNCHANGED <<recvVars, netVars>>
  PROVE  TInv'
<1>1. /\ UNCHANGED <<recvVars, sent, spc, rangeLen, rangeIdx, dpState, dataNet, lost, ackNet>>
      /\ UNCHANGED <<rMissing, rOffsets, rpc, sMissing, sOffsets>>
      /\ hpc = "num" /\ NextGap
  BY DEF SkipGap, writeVars, listVars, recvVars, netVars
<1>2. /\ HandleOK' /\ hpc' \in {"select", "num"} /\ hmsg' \in {hmsg, NoRequest}
  BY <1>1, NextGapOK
<1>3. WriteOK'
  BY <1>1 DEF TInv, WriteOK, Retransferring
<1>4. FinishAfterRead'
  BY <1>1, <1>2 DEF TInv, FinishAfterRead, ReadDone
<1>5. ListsOK'
  BY <1>1, <1>2 DEF TInv, ListsOK, ListsSettle, NumAdded
<1>6. \A n, b \in Int : IsGap(n, b)' => IsGap(n, b)
  <2>1. \A n, b \in Int : SenderHas(n, b)' => SenderHas(n, b)
    BY <1>1, <1>2 DEF SenderHas, Settled
  <2>2. \A n, b \in Int : RequestHas(hmsg, n, b)' => RequestHas(hmsg, n, b)
    BY <1>2, NoRequestHas DEF RequestHas, ListsHave
  <2> QED BY <1>1, <2>1, <2>2 DEF IsGap, RequestHas, ListsHave
<1>7. ackNet' \in Seq(Requests) /\ Len(ackNet') <= Len(ackNet)
  BY <1>1 DEF TInv, NetOK
<1> QED BY <1>1, <1>2, <1>3, <1>4, <1>5, <1>6, <1>7, ListsInv

\* The gap that is being added.
LEMMA GapAdded ==
  ASSUME TInv, hpc \in {"num", "offset", "store"}
  PROVE  /\ hpos \in 1..Len(hmsg.MissingSequenceNumbers)
         /\ NumAdded \in Int /\ hmsg.MissingSequenceNumberOffsets[hpos] \in Int
         /\ RequestHas(hmsg, NumAdded, NumAdded + hmsg.MissingSequenceNumberOffsets[hpos])
<1>1. /\ hmsg.MissingSequenceNumbers \in Seq(Int)
      /\ hmsg.MissingSequenceNumberOffsets \in Seq(Int)
      /\ Len(hmsg.MissingSequenceNumberOffsets) = Len(hmsg.MissingSequenceNumbers)
      /\ hpos \in 1..Len(hmsg.MissingSequenceNumbers)
  BY DEF TInv, HandleOK, Requests, Messages
<1>2. NumAdded \in Int /\ hmsg.MissingSequenceNumberOffsets[hpos] \in Int
  BY <1>1 DEF NumAdded
<1> QED BY <1>1, <1>2 DEF RequestHas, ListsHave, NumAdded

LEMMA AppendNumInv ==
  ASSUME TInv, AppendNum, UNCHANGED <<recvVars, netVars>>
  PROVE  TInv'
<1>1. /\ UNCHANGED <<recvVars, sent, spc, rangeLen, rangeIdx, dpState, dataNet, lost, ackNet>>
      /\ UNCHANGED <<rMissing, rOffsets, rpc, sOffsets, hmsg, hpos>>
      /\ hpc = "num" /\ hpc' = "offset"
      /\ IndexOf(NumAdded, sMissing) = NotFound
  BY DEF AppendNum, writeVars, recvVars, netVars, NumAdded
<1>2. PICK v \in Garbage \cup {NumAdded} : sMissing' = Append(sMissing, v)
  BY DEF AppendNum, Slot, NumAdded
<1>3. v \in Int
  BY <1>1, <1>2, GapAdded, SenderAssumption
<1>4. /\ sMissing \in Seq(Int) /\ sOffsets \in Seq(Int)
      /\ Len(sMissing) = Len(sOffsets)
      /\ \A i \in 1..Len(sOffsets) : \A j \in 1..Len(sOffsets) :
           i # j => sMissing[i] # sMissing[j]
  BY <1>1 DEF TInv, ListsOK, ListsSettle
<1>5. /\ sMissing' \in Seq(Int) /\ Len(sMissing') = Len(sOffsets) + 1
      /\ \A i \in 1..Len(sOffsets) : sMissing'[i] = sMissing[i]
  BY <1>2, <1>3, <1>4
<1>6. \A i \in 1..Len(sMissing) : sMissing[i] # NumAdded
  BY <1>1, <1>4, IndexOfPresent
<1>7. ListsOK'
  BY <1>1, <1>4, <1>5, <1>6 DEF ListsOK, ListsSettle, NumAdded
<1>8. WriteOK'
  BY <1>1 DEF TInv, WriteOK, Retransferring
<1>9. FinishAfterRead'
  BY <1>1 DEF TInv, FinishAfterRead, ReadDone
<1>10. HandleOK'
  BY <1>1 DEF TInv, HandleOK, Requests, ReadDone
<1>11. \A n, b \in Int : IsGap(n, b)' => IsGap(n, b)
  <2>1. \A n, b \in Int : SenderHas(n, b)' => SenderHas(n, b)
    BY <1>1, <1>5 DEF SenderHas, Settled
  <2> QED BY <1>1, <2>1 DEF IsGap, RequestHas, ListsHave
<1>12. ackNet' \in Seq(Requests) /\ Len(ackNet') <= Len(ackNet)
  BY <1>1 DEF TInv, NetOK
<1> QED BY <1>1, <1>7, <1>8, <1>9, <1>10, <1>11, <1>12, ListsInv

LEMMA AppendOffsetInv ==
  ASSUME TInv, AppendOffset, UNCHANGED <<recvVars, netVars>>
  PROVE  TInv'
<1> DEFINE offset == hmsg.MissingSequenceNumberOffsets[hpos]
           len    == Len(sOffsets)
<1>1. /\ UNCHANGED <<recvVars, sent, spc, rangeLen, rangeIdx, dpState, dataNet, lost, ackNet>>
      /\ UNCHANGED <<rMissing, rOffsets, rpc>>
      /\ hpc = "offset"
      /\ sMissing' = [sMissing EXCEPT ![Len(sMissing)] = NumAdded]
  BY DEF AppendOffset, writeVars, recvVars, netVars, NumAdded
<1>2. PICK v \in Garbage \cup {offset} :
        /\ sOffsets' = Append(sOffsets, v)
        /\ IF v = offset THEN NextGap ELSE hpc' = "store" /\ UNCHANGED <<hmsg, hpos>>
  BY DEF AppendOffset, Slot
<1>3. /\ NumAdded \in Int /\ offset \in Int /\ v \in Int
      /\ RequestHas(hmsg, NumAdded, NumAdded + offset)
  BY <1>1, <1>2, GapAdded, SenderAssumption
<1>4. /\ sMissing \in Seq(Int) /\ sOffsets \in Seq(Int) /\ len \in Nat
      /\ Len(sMissing) = len + 1
      /\ \A i \in 1..len : \A j \in 1..len : i # j => sMissing[i] # sMissing[j]
      /\ \A i \in 1..len : sMissing[i] # NumAdded
  BY <1>1 DEF TInv, ListsOK, ListsSettle
<1>5. /\ sMissing' \in Seq(Int) /\ Len(sMissing') = len + 1
      /\ \A i \in 1..len : sMissing'[i] = sMissing[i]
      /\ sMissing'[len + 1] = NumAdded
  <2>1. len + 1 \in 1..Len(sMissing) /\ sMissing' = [sMissing EXCEPT ![len + 1] = NumAdded]
    BY <1>1, <1>4
  <2>2. sMissing' \in Seq(Int) /\ Len(sMissing') = Len(sMissing)
    BY <1>3, <1>4, <2>1, ExceptSeq
  <2>3. \A i \in 1..Len(sMissing) : sMissing'[i] = IF i = len + 1 THEN NumAdded ELSE sMissing[i]
    BY <1>3, <1>4, <2>1, ExceptSeq
  <2> QED BY <1>4, <2>2, <2>3
<1>6. /\ sOffsets' \in Seq(Int) /\ Len(sOffsets') = len + 1
      /\ \A i \in 1..len : sOffsets'[i] = sOffsets[i]
      /\ sOffsets'[len + 1] = v
  BY <1>2, <1>3, <1>4
<1>7. \A i \in 1..(len + 1) : \A j \in 1..(len + 1) : i # j => sMissing'[i] # sMissing'[j]
  <2> SUFFICES ASSUME NEW i \in 1..(len + 1), NEW j \in 1..(len + 1), i # j
               PROVE  sMissing'[i] # sMissing'[j]
    OBVIOUS
  <2>1. CASE i \in 1..len /\ j \in 1..len
    BY <1>4, <1>5, <2>1
  <2>2. CASE i = len + 1
    <3>1. j \in 1..len
      BY <1>4, <2>2
    <3> QED BY <1>4, <1>5, <2>2, <3>1
  <2>3. CASE j = len + 1
    <3>1. i \in 1..len
      BY <1>4, <2>3
    <3> QED BY <1>4, <1>5, <2>3, <3>1
  <2> QED BY <1>4, <2>1, <2>2, <2>3
<1>8. \/ /\ v = offset /\ HandleOK' /\ hpc' \in {"select", "num"} /\ hmsg' \in {hmsg, NoRequest}
      \/ /\ v \in Garbage /\ HandleOK' /\ hpc' = "store" /\ UNCHANGED <<hmsg, hpos>>
  <2>1. CASE v = offset
    BY <1>1, <1>2, <2>1, NextGapOK
  <2>2. CASE v # offset
    BY <1>1, <1>2, <2>2 DEF TInv, HandleOK, Requests, ReadDone
  <2> QED BY <2>1, <2>2
<1> HIDE DEF offset, len
<1>9. ListsOK'
  <2>1. ListsSettle'
    BY <1>5, <1>6, <1>8 DEF ListsSettle
  <2>2. hpc' = "store" => /\ Len(sOffsets') >= 1
                          /\ sMissing'[Len(sOffsets')] = NumAdded'
                          /\ sOffsets'[Len(sOffsets')] \in Garbage
    BY <1>4, <1>5, <1>6, <1>8 DEF NumAdded
  <2>3. \A i \in 1..Len(sOffsets') : \A j \in 1..Len(sOffsets') :
          i # j => sMissing'[i] # sMissing'[j]
    BY <1>6, <1>7
  <2> QED BY <1>5, <1>6, <1>8, <2>1, <2>2, <2>3 DEF ListsOK
<1>10. WriteOK'
  BY <1>1 DEF TInv, WriteOK, Retransferring
<1>11. FinishAfterRead'
  BY <1>1, <1>8 DEF TInv, FinishAfterRead, ReadDone
<1>12. \A n, b \in Int : IsGap(n, b)' => IsGap(n, b)
  <2> SUFFICES ASSUME NEW n \in Int, NEW b \in Int, IsGap(n, b)' PROVE IsGap(n, b)
    OBVIOUS
  <2>1. CASE ListsHave(rMissing, rOffsets, n, b)'
    BY <2>1, <1>1 DEF IsGap, ListsHave
  <2>2. CASE SenderHas(n, b)'
    <3>1. PICK i \in Settled' : n = sMissing'[i] /\ b = sMissing'[i] + sOffsets'[i]
      BY <2>2 DEF SenderHas
    <3>2. CASE i \in 1..len
      <4>1. Settled = 1..len
        BY <1>1 DEF Settled, len
      <4> QED BY <1>5, <1>6, <3>1, <3>2, <4>1 DEF IsGap, SenderHas
    <3>3. CASE i \notin 1..len
      <4>1. v = offset /\ i = len + 1
        BY <1>4, <1>6, <1>8, <3>1, <3>3 DEF Settled
      <4>2. n = NumAdded /\ b = NumAdded + offset
        BY <1>5, <1>6, <3>1, <4>1
      <4> QED BY <1>3, <4>2 DEF IsGap
    <3> QED BY <3>2, <3>3
  <2>3. CASE RequestHas(hmsg, n, b)'
    BY <2>3, <1>8, NoRequestHas DEF IsGap, RequestHas, ListsHave
  <2>4. CASE \E i \in 1..Len(ackNet') : RequestHas(ackNet'[i], n, b)
    BY <2>4, <1>1 DEF IsGap
  <2> QED BY <2>1, <2>2, <2>3, <2>4 DEF IsGap
<1>13. ackNet' \in Seq(Requests) /\ Len(ackNet') <= Len(ackNet)
  BY <1>1 DEF TInv, NetOK
<1> QED BY <1>1, <1>8, <1>9, <1>10, <1>11, <1>12, <1>13, ListsInv

LEMMA StoreOffsetInv ==
  ASSUME TInv, StoreOffset, UNCHANGED <<recvVars, netVars>>
  PROVE  TInv'
<1> DEFINE offset == hmsg.MissingSequenceNumberOffsets[hpos]
           len    == Len(sOffsets)
<1>1. /\ UNCHANGED <<recvVars, sent, spc, rangeLen, rangeIdx, dpState, dataNet, lost, ackNet>>
      /\ UNCHANGED <<rMissing, rOffsets, rpc, sMissing>>
      /\ hpc = "store" /\ NextGap
      /\ sOffsets' = [sOffsets EXCEPT ![len] = offset]
  BY DEF StoreOffset, writeVars, recvVars, netVars
<1>2. /\ HandleOK' /\ hpc' \in {"select", "num"} /\ hmsg' \in {hmsg, NoRequest}
  BY <1>1, NextGapOK
<1>3. /\ NumAdded \in Int /\ offset \in Int
      /\ RequestHas(hmsg, NumAdded, NumAdded + offset)
  BY <1>1, GapAdded
<1>4. /\ sMissing \in Seq(Int) /\ sOffsets \in Seq(Int) /\ len \in 1..Len(sOffsets)
      /\ Len(sMissing) = len /\ sMissing[len] = NumAdded
      /\ \A i \in 1..len : \A j \in 1..len : i # j => sMissing[i] # sMissing[j]
  BY <1>1 DEF TInv, ListsOK, ListsSettle
<1>5. sOffsets' \in Seq(Int) /\ Len(sOffsets') = len
  BY <1>1, <1>3, <1>4, ExceptSeq
<1>6. \A i \in 1..len : sOffsets'[i] = IF i = len THEN offset ELSE sOffsets[i]
  BY <1>1, <1>3, <1>4, ExceptSeq
<1>7. ListsOK'
  BY <1>1, <1>2, <1>4, <1>5 DEF ListsOK, ListsSettle
<1>8. WriteOK'
  BY <1>1 DEF TInv, WriteOK, Retransferring
<1>9. FinishAfterRead'
  BY <1>1, <1>2 DEF TInv, FinishAfterRead, ReadDone
<1>10. Settled = 1..(len - 1) /\ Settled' = 1..len
  BY <1>1, <1>2, <1>5 DEF Settled
<1> HIDE DEF offset, len
<1>11. \A n, b \in Int : IsGap(n, b)' => IsGap(n, b)
  <2> SUFFICES ASSUME NEW n \in Int, NEW b \in Int, IsGap(n, b)' PROVE IsGap(n, b)
    OBVIOUS
  <2>1. CASE ListsHave(rMissing, rOffsets, n, b)'
    BY <2>1, <1>1 DEF IsGap, ListsHave
  <2>2. CASE SenderHas(n, b)'
    <3>1. PICK i \in 1..len : n = sMissing[i] /\ b = sMissing[i] + sOffsets'[i]
      BY <1>1, <1>10, <2>2 DEF SenderHas
    <3>2. CASE i # len
      <4>1. i \in 1..(len - 1)
        BY <1>4, <3>2
      <4> QED BY <1>6, <1>10, <3>1, <3>2, <4>1 DEF IsGap, SenderHas
    <3>3. CASE i = len
      <4>1. n = NumAdded /\ b = NumAdded + offset
        BY <1>4, <1>6, <3>1, <3>3
      <4> QED BY <1>3, <4>1 DEF IsGap
    <3> QED BY <3>2, <3>3
  <2>3. CASE RequestHas(hmsg, n, b)'
    BY <2>3, <1>2, NoRequestHas DEF IsGap, RequestHas, ListsHave
  <2>4. CASE \E i \in 1..Len(ackNet') : RequestHas(ackNet'[i], n, b)
    BY <2>4, <1>1 DEF IsGap
  <2> QED BY <2>1, <2>2, <2>3, <2>4 DEF IsGap
<1>12. ackNet' \in Seq(Requests) /\ Len(ackNet') <= Len(ackNet)
  BY <1>1 DEF TInv, NetOK
<1> QED BY <1>1, <1>2, <1>7, <1>8, <1>9, <1>11, <1>12, ListsInv

-----------------------------------------------------------------------------
(* Read and requestRetransfers.                                            *)

\* The steps of the receiver: what each has to add.
LEMMA ReadInv ==
  ASSUME TInv, UNCHANGED <<sendVars, lost>>, ReceiverNext, ReadDone => ReadDone',
         highest' <= sent, dataNet' \in Seq(PacketsUpTo(sent)), Len(dataNet') <= DataBuf,
         ackNet' \in Seq(Requests)',
         Len(ackNet') <= MaxRequests + (IF ReadDone' THEN 1 ELSE 0),
         GapsBelow', GapsApart'
  PROVE  TInv'
<1>1. UNCHANGED <<spc, sent, dpState, sMissing, sOffsets, rangeLen, rangeIdx, hpc, hmsg,
                  hpos, lost>>
  BY DEF sendVars
<1>2. IInv'
  BY NextInv DEF TInv
<1>3. WriteOK'
  BY <1>1 DEF TInv, WriteOK, Retransferring
<1>4. HandleOK'
  <2>1. Requests \subseteq Requests'
    BY DEF Requests
  <2> QED BY <1>1, <2>1 DEF TInv, HandleOK
<1>5. NetOK'
  BY <1>1 DEF TInv, NetOK
<1>6. FinishAfterRead'
  BY <1>1 DEF TInv, FinishAfterRead
<1>7. ListsOK'
  BY <1>1 DEF TInv, ListsOK, ListsSettle, NumAdded
<1> QED BY <1>2, <1>3, <1>4, <1>5, <1>6, <1>7 DEF TInv

\* What the receiver's steps leave of the sender's gaps and those on their way.
LEMMA GapsElsewhere ==
  ASSUME UNCHANGED <<sendVars, ackNet>>, NEW n, NEW b, IsGap(n, b)'
  PROVE  IsGap(n, b) \/ ListsHave(rMissing, rOffsets, n, b)'
<1>1. UNCHANGED <<sMissing, sOffsets, hpc, hmsg, ackNet>>
  BY DEF sendVars
<1> QED BY <1>1 DEF IsGap, SenderHas, RequestHas, ListsHave, Settled

LEMMA ReadAheadGaps ==
  ASSUME TInv, NEW p \in Packets, ReadAhead(p), UNCHANGED <<sendVars, ackNet>>
  PROVE  GapsBelow' /\ GapsApart'
<1>1. /\ p.seq \in Int /\ highest \in Nat /\ highest + 1 < p.seq /\ highest' = p.seq
  BY PartAssumption
  DEF ReadAhead, Diff, Packets, SequenceNumbers, TInv, IInv, ReceiverTypeOK
<1>2. ASSUME NEW n \in Int, NEW b \in Int, IsGap(n, b)'
      PROVE  IsGap(n, b) \/ (n = highest + 1 /\ b = p.seq)
  <2>1. CASE ListsHave(rMissing, rOffsets, n, b)'
    <3>1. PICK i \in 1..Len(rMissing') : n = rMissing'[i] /\ b = rMissing'[i] + rOffsets'[i]
      BY <2>1 DEF ListsHave
    <3>2. rMissing \in Seq(Int) /\ rOffsets \in Seq(Int) /\ Len(rOffsets) = Len(rMissing)
      BY DEF TInv, IInv, ReceiverTypeOK, GapsWellFormed, ListsAligned
    <3>3. CASE UNCHANGED <<rMissing, rOffsets>>
      BY <3>1, <3>3 DEF IsGap, ListsHave
    <3>4. CASE /\ rMissing' = Append(rMissing, p.seq - (Diff(p) - 1))
               /\ rOffsets' = Append(rOffsets, Diff(p) - 1)
      <4>1. p.seq - (Diff(p) - 1) = highest + 1 /\ Diff(p) - 1 = p.seq - highest - 1
        BY <1>1 DEF Diff
      <4>2. /\ rMissing' = Append(rMissing, highest + 1)
            /\ rOffsets' = Append(rOffsets, p.seq - highest - 1)
        BY <3>4, <4>1
      <4>3. /\ Len(rMissing') = Len(rMissing) + 1
            /\ \A j \in 1..Len(rMissing) :
                 rMissing'[j] = rMissing[j] /\ rOffsets'[j] = rOffsets[j]
            /\ rMissing'[Len(rMissing) + 1] = highest + 1
            /\ rOffsets'[Len(rMissing) + 1] = p.seq - highest - 1
        BY <1>1, <3>2, <4>2, AppendProperties
      <4>4. CASE i \in 1..Len(rMissing)
        BY <3>1, <4>3, <4>4 DEF IsGap, ListsHave
      <4>5. CASE i = Len(rMissing) + 1
        BY <1>1, <3>1, <4>3, <4>5
      <4> QED BY <3>2, <4>3, <4>4, <4>5
    <3> QED BY <3>3, <3>4 DEF ReadAhead
  <2> QED BY <1>2, <2>1, GapsElsewhere
<1>3. GapsBelow'
  BY <1>1, <1>2 DEF TInv, GapsBelow
<1>4. GapsApart'
  <2> SUFFICES ASSUME NEW n1 \in Int, NEW b1 \in Int, NEW n2 \in Int, NEW b2 \in Int,
                      IsGap(n1, b1)', IsGap(n2, b2)', n1 < n2
               PROVE  b1 <= n2
    BY DEF GapsApart
  <2>1. \/ IsGap(n1, b1) /\ IsGap(n2, b2)
        \/ IsGap(n1, b1) /\ n2 = highest + 1
        \/ n1 = highest + 1 /\ (IsGap(n2, b2) \/ n2 = highest + 1)
    BY <1>2
  <2> QED BY <1>1, <2>1 DEF TInv, GapsBelow, GapsApart
<1> QED BY <1>3, <1>4

LEMMA ReadLateGaps ==
  ASSUME TInv, NEW p \in Packets, ReadLate(p), UNCHANGED <<sendVars, ackNet>>
  PROVE  GapsBelow' /\ GapsApart'
<1>1. highest \in Int /\ highest' = highest
  BY PartAssumption DEF ReadLate, LateInGap, TInv, IInv, ReceiverTypeOK
<1>2. IInv /\ IInv'
  BY ReadLateInv DEF TInv
<1>3. /\ rMissing \in Seq(Int) /\ rOffsets \in Seq(Int) /\ Len(rOffsets) = Len(rMissing)
      /\ rMissing' \in Seq(Int) /\ rOffsets' \in Seq(Int) /\ Len(rOffsets') = Len(rMissing')
      /\ \A i \in 1..Len(rMissing') : rOffsets'[i] >= 1
  BY <1>2 DEF IInv, ReceiverTypeOK, GapsWellFormed, ListsAligned, GapsBelowHighest
<1>4. \A i \in 1..Len(rMissing') : \E j \in 1..Len(rMissing) :
        rMissing'[i] = rMissing[j] /\ rOffsets'[i] <= rOffsets[j]
  BY <1>2, LateGapsKept, Zenon
<1>5. ASSUME NEW n \in Int, NEW b \in Int, IsGap(n, b)'
      PROVE  n < b /\ \E c \in Int : b <= c /\ IsGap(n, c)
  <2>1. CASE ListsHave(rMissing, rOffsets, n, b)'
    <3>1. PICK i \in 1..Len(rMissing') : n = rMissing'[i] /\ b = rMissing'[i] + rOffsets'[i]
      BY <2>1 DEF ListsHave
    <3>2. PICK j \in 1..Len(rMissing) :
            rMissing'[i] = rMissing[j] /\ rOffsets'[i] <= rOffsets[j]
      BY <1>4, Zenon
    <3>3. /\ rMissing[j] \in Int /\ rOffsets[j] \in Int
          /\ rOffsets'[i] \in Int /\ rOffsets'[i] >= 1
      <4>1. i \in 1..Len(rOffsets') /\ j \in 1..Len(rOffsets)
        BY <1>3
      <4> QED BY <1>3, <4>1, ElementOfSeq, Zenon
    <3>4. IsGap(n, rMissing[j] + rOffsets[j])
      BY <3>1, <3>2 DEF IsGap, ListsHave
    <3> QED BY <3>1, <3>2, <3>3, <3>4
  <2>2. CASE IsGap(n, b)
    BY <2>2 DEF TInv, GapsBelow
  <2> QED BY <1>5, <2>1, <2>2, GapsElsewhere
<1> QED BY <1>1, <1>5, SmallerGaps

LEMMA ReceivePacketInv == ASSUME TInv, ReceivePacket PROVE TInv'
<1>1. PICK k \in Deliverable(dataNet) : ReadPacket(dataNet[k]) /\ Received(dataNet, k)
  BY DEF ReceivePacket
<1> DEFINE p == dataNet[k]
<1>2. /\ dataNet \in Seq(PacketsUpTo(sent)) /\ Len(dataNet) <= DataBuf
      /\ sent \in 0..NumPackets /\ NumPackets \in Nat /\ DataBuf \in Nat
      /\ highest \in 0..NumPackets /\ highest <= sent
  BY PartAssumption, NetworkAssumption DEF TInv, NetOK, WriteOK, IInv, ReceiverTypeOK
<1>3. k \in 1..Len(dataNet)
  BY <1>1, <1>2 DEF Deliverable, MinInt
<1>4. p \in PacketsUpTo(sent)
  BY <1>2, <1>3, ElementOfSeq, Zenon
<1>5. p \in Packets /\ p.seq \in 1..sent
  BY <1>2, <1>4 DEF PacketsUpTo, Packets, SequenceNumbers
<1>6. dataNet' = RemoveFromSliceByIndex(dataNet, k)
  BY <1>1 DEF Received
<1>7. dataNet' \in Seq(PacketsUpTo(sent)) /\ Len(dataNet') <= Len(dataNet)
  BY <1>2, <1>3, <1>6, QueueLeft, Zenon
<1>8. Len(dataNet') <= DataBuf
  BY <1>2, <1>7
<1> HIDE DEF p
<1>9. ReadPacket(p) /\ UNCHANGED <<sendVars, ackNet, lost>>
  BY <1>1 DEF ReceivePacket, p
<1>10. ReceiverNext
  BY <1>5, <1>9 DEF ReceiverNext
<1>11. highest' <= sent /\ highest' \in Int
  BY <1>2, <1>5, <1>9
  DEF ReadPacket, ReadInOrder, ReadAhead, ReadLate, LateInGap, ReadRefused, ReadBlocks,
      gapVars
<1>12. rpc = "reading" /\ rpc' \in {"reading", "blocked"}
  BY <1>9
  DEF ReadPacket, ReadInOrder, ReadAhead, ReadLate, LateInGap, ReadRefused, ReadBlocks,
      InLoop, Accept
<1>13. ~ReadDone /\ ~ReadDone'
  BY <1>12 DEF ReadDone
<1>14. Requests' = Requests
  BY <1>13 DEF Requests
<1>15. ackNet' \in Seq(Requests)' /\ Len(ackNet') <= MaxRequests + (IF ReadDone' THEN 1 ELSE 0)
  BY <1>9, <1>13, <1>14 DEF TInv, NetOK
<1>16. GapsBelow' /\ GapsApart'
  <2>1. CASE ReadAhead(p)
    BY <1>5, <1>9, <2>1, ReadAheadGaps
  <2>2. CASE ReadLate(p)
    BY <1>5, <1>9, <2>2, ReadLateGaps
  <2>3. CASE ReadInOrder(p) \/ ReadRefused(p) \/ ReadBlocks(p)
    <3>1. UNCHANGED <<rMissing, rOffsets>> /\ highest <= highest'
      BY <1>2, <1>5, <2>3
      DEF ReadInOrder, ReadRefused, ReadBlocks, gapVars, Diff
    <3>2. \A n, b \in Int : IsGap(n, b)' => IsGap(n, b)
      BY <1>9, <3>1, GapsElsewhere DEF IsGap, ListsHave
    <3> QED BY <1>11, <3>1, <3>2, SameGaps
  <2> QED BY <1>9, <2>1, <2>2, <2>3 DEF ReadPacket
<1> QED BY <1>7, <1>8, <1>9, <1>10, <1>11, <1>13, <1>15, <1>16, ReadInv

\* The steps of the receiver that leave its lists and the data packets alone.
\* The message it may send has gaps of its lists only.
LEMMA QuietReadInv ==
  ASSUME TInv, ReceiverNext, UNCHANGED <<sendVars, dataNet, lost, gapVars>>,
         ReadDone => ReadDone', NEW m \in Requests',
         ackNet' = ackNet \/ ackNet' = Append(ackNet, m),
         Len(ackNet') <= MaxRequests + (IF ReadDone' THEN 1 ELSE 0),
         \A n, b \in Int : RequestHas(m, n, b) => ListsHave(rMissing, rOffsets, n, b)
  PROVE  TInv'
<1>1. UNCHANGED <<sMissing, sOffsets, hpc, hmsg, sent, dataNet, highest, rMissing, rOffsets>>
  BY DEF sendVars, gapVars
<1>2. /\ dataNet \in Seq(PacketsUpTo(sent)) /\ Len(dataNet) <= DataBuf
      /\ highest \in 0..NumPackets /\ highest <= sent /\ ackNet \in Seq(Requests)
  BY DEF TInv, NetOK, IInv, ReceiverTypeOK
<1>3. ackNet \in Seq(Requests')
  <2>1. Requests \subseteq Requests'
    BY DEF Requests
  <2> QED BY <1>2, <2>1
<1>4. ackNet' \in Seq(Requests)'
  BY <1>3
<1>5. \A k \in 1..Len(ackNet') : ackNet'[k] = m \/ \E j \in 1..Len(ackNet) : ackNet'[k] = ackNet[j]
  <2>1. CASE ackNet' = ackNet
    BY <2>1
  <2>2. CASE ackNet' = Append(ackNet, m)
    <3>1. /\ Len(ackNet') = Len(ackNet) + 1 /\ Len(ackNet) \in Nat
          /\ \A j \in 1..Len(ackNet) : ackNet'[j] = ackNet[j]
          /\ ackNet'[Len(ackNet) + 1] = m
      BY <1>3, <2>2, AppendProperties
    <3> QED BY <3>1
  <2> QED BY <2>1, <2>2
<1>6. \A n, b \in Int : IsGap(n, b)' => IsGap(n, b)
  <2> SUFFICES ASSUME NEW n \in Int, NEW b \in Int, IsGap(n, b)' PROVE IsGap(n, b)
    OBVIOUS
  <2>1. CASE \E k \in 1..Len(ackNet') : RequestHas(ackNet'[k], n, b)
    BY <1>5, <2>1 DEF IsGap
  <2>2. CASE (ListsHave(rMissing, rOffsets, n, b) \/ SenderHas(n, b) \/ RequestHas(hmsg, n, b))'
    BY <1>1, <2>2 DEF IsGap, SenderHas, RequestHas, ListsHave, Settled
  <2> QED BY <2>1, <2>2 DEF IsGap
<1>7. GapsBelow' /\ GapsApart'
  BY <1>1, <1>2, <1>6, SameGaps
<1> QED BY <1>1, <1>2, <1>4, <1>7, ReadInv

\* A step without a message.
LEMMA NoGapAsked ==
  ASSUME NEW m \in {NoRequest, FinishPacket}
  PROVE  \A n, b \in Int : ~RequestHas(m, n, b)
BY DEF RequestHas, ListsHave, NoRequest, FinishPacket, GapRequest

LEMMA StopInv == ASSUME TInv, ReadStop \/ ReadFails PROVE TInv'
<1>1. /\ ReceiverNext /\ UNCHANGED <<sendVars, dataNet, ackNet, lost, gapVars>>
      /\ (rpc' = "returned" /\ rpc = "finishing") \/ (rpc' = "failed" /\ rpc = "reading")
  BY DEF ReadStop, ReadFails, StopRetransfers, ReadError, InLoop, netVars, ReceiverNext
<1>2. ReadDone' <=> ReadDone
  BY <1>1 DEF ReadDone
<1>3. NoRequest \in Requests'
  BY DEF Requests, Messages, NoRequest, GapRequest
<1>4. Len(ackNet') <= MaxRequests + (IF ReadDone' THEN 1 ELSE 0)
  BY <1>1, <1>2 DEF TInv, NetOK
<1> QED BY <1>1, <1>2, <1>3, <1>4, NoGapAsked, QuietReadInv

LEMMA FinishReadInv == ASSUME TInv, FinishRead PROVE TInv'
<1>1. /\ ReceiverNext /\ UNCHANGED <<sendVars, dataNet, lost, gapVars>>
      /\ rpc = "reading" /\ rpc' = "finishing"
      /\ ackNet' = ackNet \/ ackNet' = Append(ackNet, FinishPacket)
  BY DEF FinishRead, SendPartFinish, SendRequest, ReceiverNext
<1>2. ~ReadDone /\ ReadDone'
  BY <1>1 DEF ReadDone
<1>3. FinishPacket \in Requests'
  <2>1. NoRequest \in Messages
    BY DEF NoRequest, GapRequest, Messages
  <2>2. FinishPacket \in Messages
    BY <2>1 DEF FinishPacket, Messages
  <2>3. /\ FinishPacket.MissingSequenceNumbers = NoRequest.MissingSequenceNumbers
        /\ FinishPacket.MissingSequenceNumberOffsets = NoRequest.MissingSequenceNumberOffsets
    BY <2>1 DEF FinishPacket, Messages
  <2>4. Len(FinishPacket.MissingSequenceNumberOffsets) = Len(FinishPacket.MissingSequenceNumbers)
    BY <2>3 DEF NoRequest, GapRequest
  <2> QED BY <1>2, <2>2, <2>4 DEF Requests
<1>4. ackNet \in Seq(Requests) /\ Len(ackNet) <= MaxRequests /\ MaxRequests \in Nat
  BY <1>2, NetworkAssumption DEF TInv, NetOK
<1>5. Len(ackNet') <= MaxRequests + 1
  BY <1>1, <1>4
<1> QED BY <1>1, <1>2, <1>3, <1>5, NoGapAsked, QuietReadInv

\* A request packet carries gaps of the list as it is.
LEMMA RequestPacketOK ==
  ASSUME TInv
  PROVE  /\ RequestPacket \in Messages /\ ~RequestPacket.PartFinished
         /\ Len(RequestPacket.MissingSequenceNumberOffsets) =
              Len(RequestPacket.MissingSequenceNumbers)
         /\ \A n, b \in Int : RequestHas(RequestPacket, n, b)
                                => ListsHave(rMissing, rOffsets, n, b)
<1>1. /\ rMissing \in Seq(Int) /\ rOffsets \in Seq(Int) /\ Len(rOffsets) = Len(rMissing)
      /\ start \in Nat /\ ChunkEnd \in Nat /\ ChunkEnd <= Len(rMissing)
  BY ReceiverAssumption
  DEF TInv, IInv, ReceiverTypeOK, GapsWellFormed, ListsAligned, ChunkEnd, MinInt
<1> DEFINE nums    == SubSeq(rMissing, start + 1, ChunkEnd)
           offsets == SubSeq(rOffsets, start + 1, ChunkEnd)
           len     == IF start <= ChunkEnd THEN ChunkEnd - start ELSE 0
<1>2. /\ nums \in Seq(Int) /\ Len(nums) = len
      /\ \A i \in 1..len : nums[i] = rMissing[start + i]
  <2>1. CASE start <= ChunkEnd
    <3>1. start \in Nat /\ ChunkEnd \in Nat /\ rMissing \in Seq(Int) /\ rOffsets \in Seq(Int)
          /\ ChunkEnd <= Len(rMissing) /\ ChunkEnd <= Len(rOffsets) /\ len = ChunkEnd - start
      BY <1>1, <2>1
    <3> HIDE DEF len
    <3> QED BY <2>1, <3>1, Chunk
  <2>2. CASE start > ChunkEnd
    <3>1. nums = <<>>
      BY <1>1, <2>2
    <3> QED BY <1>1, <2>2, <3>1
  <2>3. start <= ChunkEnd \/ start > ChunkEnd
    BY <1>1
  <2> HIDE DEF nums, offsets, len
  <2> QED BY <2>1, <2>2, <2>3
<1>3. /\ offsets \in Seq(Int) /\ Len(offsets) = len
      /\ \A i \in 1..len : offsets[i] = rOffsets[start + i]
  <2>1. CASE start <= ChunkEnd
    <3>1. start \in Nat /\ ChunkEnd \in Nat /\ rMissing \in Seq(Int) /\ rOffsets \in Seq(Int)
          /\ ChunkEnd <= Len(rMissing) /\ ChunkEnd <= Len(rOffsets) /\ len = ChunkEnd - start
      BY <1>1, <2>1
    <3> HIDE DEF len
    <3> QED BY <2>1, <3>1, Chunk
  <2>2. CASE start > ChunkEnd
    <3>1. offsets = <<>>
      BY <1>1, <2>2
    <3> QED BY <1>1, <2>2, <3>1
  <2>3. start <= ChunkEnd \/ start > ChunkEnd
    BY <1>1
  <2> HIDE DEF nums, offsets, len
  <2> QED BY <2>1, <2>2, <2>3
<1>4. RequestPacket = GapRequest(nums, offsets)
  BY DEF RequestPacket
<1> HIDE DEF nums, offsets
<1>5. ASSUME NEW n \in Int, NEW b \in Int, RequestHas(RequestPacket, n, b)
      PROVE  ListsHave(rMissing, rOffsets, n, b)
  <2>1. PICK i \in 1..Len(nums) : n = nums[i] /\ b = nums[i] + offsets[i]
    BY <1>4, <1>5 DEF RequestHas, ListsHave, GapRequest
  <2>2. start + i \in 1..Len(rMissing)
    BY <1>1, <1>2
  <2> QED BY <1>2, <1>3, <2>1, <2>2 DEF ListsHave
<1> QED BY <1>2, <1>3, <1>4, <1>5 DEF Messages, GapRequest

LEMMA TickStepInv == ASSUME TInv, TickStep PROVE TInv'
<1>1. /\ ReceiverNext /\ UNCHANGED <<sendVars, dataNet, lost, gapVars, rpc>>
      /\ Len(ackNet) < MaxRequests
      /\ ackNet' = ackNet \/ ackNet' = Append(ackNet, RequestPacket)
  BY DEF TickStep, RequestRetransfers, SendRequest, ReceiverNext, readVars
<1>2. ReadDone' <=> ReadDone
  BY <1>1 DEF ReadDone
<1>3. RequestPacket \in Requests'
  BY RequestPacketOK DEF Requests
<1>4. ackNet \in Seq(Requests) /\ MaxRequests \in Nat
  BY NetworkAssumption DEF TInv, NetOK
<1>5. Len(ackNet') <= MaxRequests + (IF ReadDone' THEN 1 ELSE 0)
  BY <1>1, <1>4
<1> QED BY <1>1, <1>2, <1>3, <1>5, RequestPacketOK, QuietReadInv

-----------------------------------------------------------------------------
(* The transfer.                                                           *)

LEMMA TransferInit == Init => TInv
<1> SUFFICES ASSUME Init PROVE TInv
  OBVIOUS
<1>1. IInv
  BY InitInv DEF Init
<1>2. WriteOK
  BY PartAssumption DEF Init, SenderInit, WriteOK, Retransferring
<1>3. HandleOK
  BY DEF Init, SenderInit, HandleOK, Requests, Messages, NoRequest, GapRequest
<1>4. NetOK
  BY NetworkAssumption DEF Init, SenderInit, ReceiverInit, NetOK
<1>5. FinishAfterRead
  BY DEF Init, SenderInit, FinishAfterRead
<1>6. ListsOK
  BY DEF Init, SenderInit, ListsOK, ListsSettle
<1>7. \A n, b \in Int : ~IsGap(n, b)
  BY DEF Init, SenderInit, ReceiverInit, IsGap, SenderHas, RequestHas, ListsHave, Settled,
         NoRequest, GapRequest
<1> QED
  BY <1>1, <1>2, <1>3, <1>4, <1>5, <1>6, <1>7 DEF TInv, GapsBelow, GapsApart

LEMMA TransferNext == TInv /\ [Next]_vars => TInv'
<1> SUFFICES ASSUME TInv, [Next]_vars PROVE TInv'
  OBVIOUS
<1>1. CASE WriteStep
  BY <1>1, SendPacketInv, SendGapInv, QuietWriteInv DEF WriteStep
<1>2. CASE WriteReset
  BY <1>2, WriteResetInv
<1>3. CASE SendFails
  BY <1>3, QuietWriteInv DEF SendFails
<1>4. CASE HandleStep
  BY <1>4, ReceiveAckInv, SkipGapInv, AppendNumInv, AppendOffsetInv, StoreOffsetInv
  DEF HandleStep
<1>5. CASE ReceivePacket
  BY <1>5, ReceivePacketInv
<1>6. CASE FinishRead
  BY <1>6, FinishReadInv
<1>7. CASE ReadStop \/ ReadFails
  BY <1>7, StopInv
<1>8. CASE TickStep
  BY <1>8, TickStepInv
<1>9. CASE UNCHANGED vars
  <2>1. /\ UNCHANGED <<recvVars, listVars, handleVars, ackNet, lost>>
        /\ UNCHANGED <<spc, sent, dpState, rangeLen, rangeIdx, hpc, rpc, dataNet>>
    BY <1>9 DEF vars, sendVars, recvVars, netVars, listVars, handleVars
  <2>2. WriteOK'
    BY <2>1 DEF TInv, WriteOK, Retransferring
  <2>3. FinishAfterRead'
    BY <2>1 DEF TInv, FinishAfterRead, ReadDone
  <2>4. dataNet' \in Seq(PacketsUpTo(sent')) /\ Len(dataNet') <= DataBuf /\ sent <= sent'
    BY <2>1, PartAssumption DEF TInv, NetOK, WriteOK
  <2> QED BY <2>1, <2>2, <2>3, <2>4, WriteInv
<1> QED BY <1>1, <1>2, <1>3, <1>4, <1>5, <1>6, <1>7, <1>8, <1>9 DEF Next

LEMMA TransferInvariant == Spec => []TInv
BY TransferInit, TransferNext, PTL DEF Spec

\* The state of both sides and of the network keeps its types.
THEOREM TypeCorrect == Spec => []TypeOK
<1>1. TInv => TypeOK
  <2> SUFFICES ASSUME TInv PROVE TypeOK
    OBVIOUS
  <2>1. \A k \in 1..Len(dataNet) : dataNet[k] \in Packets
    <3>1. dataNet \in Seq(PacketsUpTo(sent)) /\ sent \in 0..NumPackets /\ NumPackets \in Nat
      BY PartAssumption DEF TInv, NetOK, WriteOK
    <3>2. PacketsUpTo(sent) \subseteq Packets
      BY <3>1 DEF PacketsUpTo, Packets, SequenceNumbers
    <3> QED BY <3>1, <3>2
  <2>2. Len(ackNet) <= MaxRequests + 1
    BY NetworkAssumption DEF TInv, NetOK
  <2> QED BY <2>1, <2>2 DEF TInv, IInv, WriteOK, HandleOK, NetOK, ListsOK, TypeOK
<1> QED BY <1>1, TransferInvariant, PTL

\* Only while handlePartAckPacket is between its two appends
\* (controlplane.go:325) do the sender's two lists differ in length.
THEOREM ListsAlwaysSettle == Spec => []ListsSettle
<1>1. TInv => ListsSettle
  BY DEF TInv, ListsOK
<1> QED BY <1>1, TransferInvariant, PTL

\* Write returns only when Read has left its loop, whatever is lost, repeated or
\* overtaken (dataplane.go:160).
THEOREM WriteReturnsAfterRead == Spec => []WriteAfterRead
<1>1. TInv => WriteAfterRead
  BY DEF TInv, FinishAfterRead, ReadDone, WriteAfterRead
<1> QED BY <1>1, TransferInvariant, PTL

LEMMA ListFacts ==
  ASSUME TInv
  PROVE  /\ Len(sOffsets) \in Nat /\ Settled \subseteq 1..Len(sOffsets)
         /\ \A i \in 1..Len(sOffsets) : sMissing[i] \in Int /\ sOffsets[i] \in Int
         /\ \A i, j \in 1..Len(sOffsets) : i # j => sMissing[i] # sMissing[j]
         /\ \A i \in Settled : IsGap(sMissing[i], sMissing[i] + sOffsets[i])
         /\ highest \in Int /\ sent \in Int /\ highest <= sent
<1>1. /\ sMissing \in Seq(Int) /\ sOffsets \in Seq(Int) /\ Len(sOffsets) \in Nat
      /\ Len(sMissing) >= Len(sOffsets)
      /\ \A i, j \in 1..Len(sOffsets) : i # j => sMissing[i] # sMissing[j]
  BY DEF TInv, ListsOK, ListsSettle
<1>2. Settled \subseteq 1..Len(sOffsets)
  BY <1>1 DEF Settled
<1>3. \A i \in 1..Len(sOffsets) : sMissing[i] \in Int /\ sOffsets[i] \in Int
  BY <1>1
<1>4. \A i \in Settled : IsGap(sMissing[i], sMissing[i] + sOffsets[i])
  BY DEF IsGap, SenderHas
<1>5. highest \in Int /\ sent \in Int /\ highest <= sent
  BY PartAssumption DEF TInv, NetOK, WriteOK, IInv, ReceiverTypeOK
<1> QED BY <1>1, <1>2, <1>3, <1>4, <1>5

LEMMA SettledSent == TInv => OnlySentRequested
BY ListFacts DEF OnlySentRequested, TInv, GapsBelow

\* However requests are delayed, repeated, lost or overtaken, and whatever an
\* unwritten slot reads as, every gap that is in its slots names packets WritePart
\* has sent, and never the newest of them (controlplane.go:322).
THEOREM OnlySentAreRequested == Spec => []OnlySentRequested
BY SettledSent, TransferInvariant, PTL

\* The gaps that are in their slots share no packet, whatever an unwritten slot
\* reads as: a pass of RetransferMissingPackets over them (dataplane.go:163) sends
\* no packet twice.
THEOREM OnePassSendsOnce == Spec => []PassSendsOnce
<1>1. TInv => PassSendsOnce
  <2> SUFFICES ASSUME TInv, NEW i \in Settled, NEW j \in Settled, i # j
               PROVE  \/ sMissing[i] + sOffsets[i] <= sMissing[j]
                      \/ sMissing[j] + sOffsets[j] <= sMissing[i]
    BY DEF PassSendsOnce
  <2>1. /\ IsGap(sMissing[i], sMissing[i] + sOffsets[i])
        /\ IsGap(sMissing[j], sMissing[j] + sOffsets[j])
        /\ sMissing[i] \in Int /\ sOffsets[i] \in Int
        /\ sMissing[j] \in Int /\ sOffsets[j] \in Int
        /\ sMissing[i] # sMissing[j]
    BY ListFacts
  <2> QED BY <2>1 DEF TInv, GapsApart
<1> QED BY <1>1, TransferInvariant, PTL

-----------------------------------------------------------------------------
(* The range statement of RetransferMissingPackets.                        *)

\* The range statement stays inside the list: only the goroutine that executes it
\* makes the list shorter.
RangeOK ==
  spc = "range" => rangeIdx \in 1..rangeLen /\ rangeLen <= Len(sMissing)

LEMMA RangeWrite ==
  ASSUME TInv, RangeOK, WriteStep \/ WriteReset \/ SendFails
  PROVE  RangeOK'
<1>1. sMissing \in Seq(Int) /\ Len(sMissing) \in Nat /\ rangeIdx \in Nat /\ rangeLen \in Nat
  BY DEF TInv, ListsOK, WriteOK
<1>2. CASE spc' # "range"
  BY <1>2 DEF RangeOK
<1>3. CASE spc' = "range" /\ RangeSnapshot
  BY <1>1, <1>3 DEF RangeSnapshot, RangeOK, listVars
<1>4. CASE spc' = "range" /\ RetransferGap
  <2>1. /\ spc = "range" /\ rangeIdx # rangeLen /\ rangeIdx' = rangeIdx + 1
        /\ rangeLen' = rangeLen /\ sMissing' = sMissing
    BY <1>4 DEF RetransferGap, listVars
  <2> QED BY <1>1, <2>1 DEF RangeOK
<1>5. spc' # "range" \/ RangeSnapshot \/ RetransferGap
  BY DEF WriteStep, WriteReset, SendFails, SendPacket, SendGap, WritePacket, EnterRetransfer,
         LoopTest, RangeMismatch, ResetRetransfers, WriteError, RetransferError
<1> QED BY <1>2, <1>3, <1>4, <1>5

LEMMA RangeHandle ==
  ASSUME TInv, RangeOK, HandleStep
  PROVE  RangeOK'
<1>1. sMissing \in Seq(Int) /\ Len(sMissing) \in Nat /\ rangeLen \in Nat
  BY DEF TInv, ListsOK, WriteOK
<1>2. UNCHANGED <<spc, rangeIdx, rangeLen>>
  BY DEF HandleStep, ReceiveAck, HandleAck, HandleFinish, HandleRequest, SkipGap, AppendNum,
         AppendOffset, StoreOffset, writeVars
<1>3. Len(sMissing') >= Len(sMissing)
  <2>1. CASE AppendNum
    <3>1. PICK v : sMissing' = Append(sMissing, v)
      BY <2>1 DEF AppendNum
    <3> QED BY <1>1, <3>1
  <2>2. CASE AppendOffset
    BY <1>1, <2>2 DEF AppendOffset
  <2>3. CASE UNCHANGED sMissing
    BY <1>1, <2>3
  <2> QED
    BY <2>1, <2>2, <2>3
    DEF HandleStep, ReceiveAck, HandleAck, HandleFinish, HandleRequest, SkipGap, StoreOffset,
        listVars
<1> QED BY <1>1, <1>2, <1>3 DEF RangeOK

LEMMA RangeNext == TInv /\ RangeOK /\ [Next]_vars => RangeOK'
<1> SUFFICES ASSUME TInv, RangeOK, [Next]_vars PROVE RangeOK'
  OBVIOUS
<1>1. CASE UNCHANGED sendVars
  BY <1>1 DEF RangeOK, sendVars
<1>2. CASE ReceivePacket \/ FinishRead \/ ReadStop \/ ReadFails \/ TickStep
  BY <1>1, <1>2 DEF ReceivePacket, FinishRead, ReadStop, ReadFails, TickStep
<1>3. CASE UNCHANGED vars
  BY <1>1, <1>3 DEF vars
<1> QED BY <1>2, <1>3, RangeWrite, RangeHandle DEF Next

\* A gap that is in its slots can be retransferred: its packets are in the data.
LEMMA SettledHasPayload ==
  ASSUME TInv, spc = "range", rangeIdx \in Settled
  PROVE  sMissing[rangeIdx] # 0 /\ \A t \in GapNumbers : HasPayload(t)
<1>1. /\ sMissing[rangeIdx] \in Int /\ sOffsets[rangeIdx] \in Int
      /\ sMissing[rangeIdx] >= 1 /\ sMissing[rangeIdx] + sOffsets[rangeIdx] <= sent
  BY ListFacts, SettledSent DEF OnlySentRequested
<1>2. sent = NumPackets /\ NumPackets \in Nat
  BY PartAssumption DEF TInv, WriteOK, Retransferring
<1> QED BY <1>1, <1>2 DEF GapNumbers, HasPayload, SequenceNumbers

LEMMA CrashStep ==
  ASSUME TInv, RangeOK, Next, spc = "range", spc' \in {"panicked", "zero"}
  PROVE  hpc \in {"offset", "store"} /\ rangeIdx = Len(sMissing)
<1>1. /\ Len(sMissing) = Len(sOffsets) + (IF hpc = "offset" THEN 1 ELSE 0)
      /\ Len(sOffsets) \in Nat /\ rangeIdx \in Nat /\ rangeIdx >= 1
      /\ rangeIdx <= Len(sMissing)
  BY ListFacts DEF TInv, ListsOK, ListsSettle, WriteOK, RangeOK
<1>2. RangeMismatch \/ RetransferGap
  BY DEF Next, WriteStep, WriteReset, SendFails, HandleStep, ReceivePacket, FinishRead,
         ReadStop, ReadFails, TickStep, SendPacket, SendGap, WritePacket, EnterRetransfer,
         LoopTest, RangeSnapshot, ResetRetransfers, WriteError, RetransferError, ReceiveAck,
         HandleAck, HandleFinish, HandleRequest, SkipGap, AppendNum, AppendOffset,
         StoreOffset, writeVars, sendVars
<1>3. CASE RangeMismatch
  BY <1>1, <1>3 DEF RangeMismatch
<1>4. CASE RetransferGap
  <2>1. rangeIdx \in 1..Len(sOffsets)
    BY <1>1, <1>4 DEF RetransferGap
  <2>2. sMissing[rangeIdx] = 0 \/ \E t \in GapNumbers : ~HasPayload(t)
    BY <1>4 DEF RetransferGap
  <2>3. rangeIdx \notin Settled
    BY <2>2, SettledHasPayload
  <2> QED BY <1>1, <2>1, <2>3 DEF Settled
<1> QED BY <1>2, <1>3, <1>4

\* Whatever an unwritten slot reads as, RetransferMissingPackets (dataplane.go:163)
\* ends the process only at the gap that handlePartAckPacket is still adding.
THEOREM CrashesOnlyMidAppend == Spec => CrashOnlyMidAppend
<1>1. Init => RangeOK
  BY DEF Init, SenderInit, RangeOK
<1>2. TInv /\ RangeOK /\ [Next]_vars =>
        [spc = "range" /\ spc' \in {"panicked", "zero"}
           => hpc \in {"offset", "store"} /\ rangeIdx = Len(sMissing)]_vars
  BY CrashStep
<1> QED
  BY <1>1, <1>2, RangeNext, TransferInvariant, PTL DEF Spec, CrashOnlyMidAppend
=============================================================================
