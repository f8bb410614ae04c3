----------------------------- MODULE PartSender -----------------------------
(***************************************************************************)
(* The sending side of one part: PartsConn.Write once the handshake is     *)
(* done.  Two goroutines share the PartContext and the dataplane's state:  *)
(*                                                                         *)
(*   - Write itself: WritePart sends the packets in order, then            *)
(*     RetransferMissingPackets loops over the list of requested gaps      *)
(*     until somebody takes the dataplane out of DP_STATE_RETRANSFER;      *)
(*   - HandleAckPackets: it adds the gaps of each request packet to that   *)
(*     list and takes the finish message to SetState(DP_STATE_PENDING).    *)
(*                                                                         *)
(* The lists are written under the PartContext mutex but read without it   *)
(* by RetransferMissingPackets, so the two appends of a gap are two steps, *)
(* and an append that the reader catches half-way is a data race: the new  *)
(* length can be visible before the new element is.  The lists start empty *)
(* after every pass, so the first appends allocate, and memory allocated   *)
(* for them is not cleared: Garbage is the set of values an unwritten      *)
(* element may be read as.  Garbage = {} is the outcome in which every     *)
(* append is seen as a whole.                                              *)
(*                                                                         *)
(* The goroutine inside HandleAckPackets that reads the socket and hands   *)
(* each packet over on an unbuffered channel is part of the way from the   *)
(* network to HandleAck.                                                   *)
(***************************************************************************)
EXTENDS Part, FiniteSets

CONSTANT Garbage

ASSUME SenderAssumption == Garbage \subseteq Int

VARIABLES
  spc,       \* Write: "writing", "loop", "snapshot", "range", "reset",
             \*   "returned", "failed" (error returned), "panicked" (slice
             \*   out of bounds), "fatal" (log.Fatal on a write error) or
             \*   "zero" (log.Fatal on a gap numbered 0)
  sent,      \* loop variable of WritePart and currentSequenceNumber
  dpState,   \* SCIONDataplane.state: "pending" or "retransfer"
  sMissing,  \* PartContext.MissingSequenceNums
  sOffsets,  \* PartContext.MissingSequenceNumOffsets
  rangeLen,  \* length of the slice the range statement evaluated
  rangeIdx,  \* position the range statement has reached
  hpc,       \* HandleAckPackets: "select", "num", "offset", "store"
             \*   (mutex held in the last two) or "stopping"
  hmsg,      \* request packet in handlePartAckPacket
  hpos       \* position its loop has reached

writeVars  == <<spc, sent, rangeLen, rangeIdx>>
listVars   == <<sMissing, sOffsets>>
handleVars == <<hpc, hmsg, hpos>>
sendVars   == <<spc, sent, dpState, sMissing, sOffsets, rangeLen, rangeIdx,
                hpc, hmsg, hpos>>

\* Dial left the dataplane in DP_STATE_PENDING and nothing sets
\* DP_STATE_SENDING.
SenderInit ==
  /\ spc = "writing"
  /\ sent = 0
  /\ dpState = "pending"
  /\ sMissing = <<>>
  /\ sOffsets = <<>>
  /\ rangeLen = 0
  /\ rangeIdx = 0
  /\ hpc = "select"
  /\ hmsg = NoRequest
  /\ hpos = 0

-----------------------------------------------------------------------------
(* WritePart and RetransferMissingPackets.                                 *)

\* Mutant: one packet too many.
WritePacketOneMore ==
  /\ spc = "writing"
  /\ sent <= NumPackets
  /\ sent' = sent + 1
  /\ UNCHANGED <<spc, rangeLen, rangeIdx, dpState, listVars, handleVars>>

\* One iteration of WritePart: the packet with the next sequence number.
WritePacket ==
  /\ spc = "writing"
  /\ sent < NumPackets
  /\ sent' = sent + 1
  /\ UNCHANGED <<spc, rangeLen, rangeIdx, dpState, listVars, handleVars>>

\* WriteToConn fails: WritePart, and so Write, returns the error.
WriteError ==
  /\ spc = "writing"
  /\ sent < NumPackets
  /\ spc' = "failed"
  /\ UNCHANGED <<sent, rangeLen, rangeIdx, dpState, listVars, handleVars>>

\* Mutant: the state is left as it is.
EnterRetransferKeepState ==
  /\ spc = "writing"
  /\ sent = NumPackets
  /\ spc' = "loop"
  /\ UNCHANGED <<dpState, sent, rangeLen, rangeIdx, listVars, handleVars>>

\* WritePart has returned; RetransferMissingPackets sets its state, without
\* looking at what the state is by now.
EnterRetransfer ==
  /\ spc = "writing"
  /\ sent = NumPackets
  /\ spc' = "loop"
  /\ dpState' = "retransfer"
  /\ UNCHANGED <<sent, rangeLen, rangeIdx, listVars, handleVars>>

\* Mutant: the loop does not look at the state.
LoopForever ==
  /\ spc = "loop"
  /\ spc' = "snapshot"
  /\ UNCHANGED <<sent, rangeLen, rangeIdx, dpState, listVars, handleVars>>

\* for dp.state == DP_STATE_RETRANSFER, read without the dataplane's mutex.
\* When the loop ends Write returns.
LoopTest ==
  /\ spc = "loop"
  /\ spc' = IF dpState = "retransfer" THEN "snapshot" ELSE "returned"
  /\ UNCHANGED <<sent, rangeLen, rangeIdx, dpState, listVars, handleVars>>

\* range evaluates MissingSequenceNums once.
RangeSnapshot ==
  /\ spc = "snapshot"
  /\ rangeLen' = Len(sMissing)
  /\ rangeIdx' = 1
  /\ spc' = IF Len(sMissing) = 0 THEN "reset" ELSE "range"
  /\ UNCHANGED <<sent, dpState, listVars, handleVars>>

\* Mutant: the packet index is taken to be one less.
HasPayloadBefore(seq) == seq - 1 \in SequenceNumbers

\* GetPayloadByPacketIndex(v + j - 1) slices the part's data, whose length is
\* taken not to be a multiple of the payload length.
HasPayload(seq) == seq \in SequenceNumbers

\* The gap at rangeIdx; the offset is looked up in the list as it is now.
GapNumbers == sMissing[rangeIdx]..(sMissing[rangeIdx] + sOffsets[rangeIdx] - 1)

\* Mutant: the last packet of the gap is left out.
GapPacketsButLast ==
  [j \in 1..(sOffsets[rangeIdx] - 1) |-> DataPacket(sMissing[rangeIdx] + j - 1)]

\* The packets of the gap that are sent: all of them, or those before the one
\* whose payload is out of bounds.
GapPackets ==
  LET seqs == {s \in GapNumbers : \A t \in sMissing[rangeIdx]..s : HasPayload(t)}
  IN  [j \in 1..Cardinality(seqs) |-> DataPacket(sMissing[rangeIdx] + j - 1)]

\* The offset of the gap is not in its list yet: log the mismatch and leave
\* the range loop.
RangeMismatch ==
  /\ spc = "range"
  /\ rangeIdx > Len(sOffsets)
  /\ spc' = IF sMissing[rangeIdx] = 0 THEN "zero" ELSE "reset"
  /\ UNCHANGED <<sent, rangeLen, rangeIdx, dpState, listVars, handleVars>>

\* All packets of one gap are sent again.
RetransferGap ==
  /\ spc = "range"
  /\ rangeIdx <= Len(sOffsets)
  /\ rangeIdx' = rangeIdx + 1
  /\ spc' = IF sMissing[rangeIdx] = 0 THEN "zero"
            ELSE IF \E s \in GapNumbers : ~HasPayload(s) THEN "panicked"
            ELSE IF rangeIdx = rangeLen THEN "reset"
            ELSE "range"
  /\ UNCHANGED <<sent, rangeLen, dpState, listVars, handleVars>>

\* dp.Write fails: log.Fatal.
RetransferError ==
  /\ spc = "range"
  /\ rangeIdx <= Len(sOffsets)
  /\ spc' = "fatal"
  /\ UNCHANGED <<sent, rangeLen, rangeIdx, dpState, listVars, handleVars>>

\* Mutant: the lists are emptied without the mutex.
ResetWithoutLock ==
  /\ spc = "reset"
  /\ sMissing' = <<>>
  /\ sOffsets' = <<>>
  /\ rangeLen' = 0
  /\ rangeIdx' = 0
  /\ spc' = "loop"
  /\ UNCHANGED <<sent, dpState, handleVars>>

\* Under the mutex, so never between the two appends of a gap: both lists are
\* emptied, whatever was added to them since the range statement began.
ResetRetransfers ==
  /\ spc = "reset"
  /\ hpc \notin {"offset", "store"}
  /\ sMissing' = <<>>
  /\ sOffsets' = <<>>
  /\ rangeLen' = 0
  /\ rangeIdx' = 0
  /\ spc' = "loop"
  /\ UNCHANGED <<sent, dpState, handleVars>>

-----------------------------------------------------------------------------
(* HandleAckPackets and handlePartAckPacket.                               *)

\* SetState(DP_STATE_PENDING): the state is set, and metrics.Stop is called with
\* the dataplane's mutex held.  Stop sends on an unbuffered channel that only a
\* goroutine started by metrics.Collect receives from, and nothing calls
\* Collect, so the goroutine never gets further.
SetStatePending ==
  /\ dpState' = "pending"
  /\ hpc' = "stopping"

HandleFinish(m) ==
  /\ hpc = "select"
  /\ m.PartFinished
  /\ SetStatePending
  /\ UNCHANGED <<writeVars, listVars, hmsg, hpos>>

\* A request packet: its gaps are looked at one after the other.
HandleRequest(m) ==
  /\ hpc = "select"
  /\ ~m.PartFinished
  /\ IF m.MissingSequenceNumbers = <<>>
     THEN UNCHANGED handleVars
     ELSE /\ hpc' = "num"
          /\ hmsg' = m
          /\ hpos' = 1
  /\ UNCHANGED <<writeVars, dpState, listVars>>

HandleAck(m) == HandleFinish(m) \/ HandleRequest(m)

\* The loop of handlePartAckPacket goes on to the next gap, or is done.
NextGap ==
  IF hpos = Len(hmsg.MissingSequenceNumbers)
  THEN hpc' = "select" /\ hmsg' = NoRequest /\ hpos' = 0
  ELSE hpc' = "num" /\ hmsg' = hmsg /\ hpos' = hpos + 1

\* A gap whose first number is already in the list is left as it is.
SkipGap ==
  /\ hpc = "num"
  /\ IndexOf(hmsg.MissingSequenceNumbers[hpos], sMissing) # NotFound
  /\ NextGap
  /\ UNCHANGED <<writeVars, dpState, listVars>>

\* What the slot of an append may hold until value is written to it.
Slot(value) == Garbage \cup {value}

\* Otherwise the gap is added under the mutex, first its number ...
AppendNum ==
  /\ hpc = "num"
  /\ IndexOf(hmsg.MissingSequenceNumbers[hpos], sMissing) = NotFound
  /\ \E v \in Slot(hmsg.MissingSequenceNumbers[hpos]) :
       sMissing' = Append(sMissing, v)
  /\ hpc' = "offset"
  /\ UNCHANGED <<writeVars, dpState, sOffsets, hmsg, hpos>>

\* ... then its offset; the number is in its slot by now.
AppendOffset ==
  LET offset == hmsg.MissingSequenceNumberOffsets[hpos]
  IN  /\ hpc = "offset"
      /\ sMissing' = [sMissing EXCEPT ![Len(sMissing)] =
                        hmsg.MissingSequenceNumbers[hpos]]
      /\ \E v \in Slot(offset) :
           /\ sOffsets' = Append(sOffsets, v)
           /\ IF v = offset
              THEN NextGap
              ELSE hpc' = "store" /\ UNCHANGED <<hmsg, hpos>>
      /\ UNCHANGED <<writeVars, dpState>>

\* The offset reaches a slot that did not hold it yet.
StoreOffset ==
  /\ hpc = "store"
  /\ sOffsets' = [sOffsets EXCEPT ![Len(sOffsets)] =
                    hmsg.MissingSequenceNumberOffsets[hpos]]
  /\ NextGap
  /\ UNCHANGED <<writeVars, dpState, sMissing>>
=============================================================================
