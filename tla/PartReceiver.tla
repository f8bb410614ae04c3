---------------------------- MODULE PartReceiver ----------------------------
(***************************************************************************)
(* The receiving side of one part: PartsConn.Read once the handshake is    *)
(* done.  Two goroutines share the PartContext:                            *)
(*                                                                         *)
(*   - Read itself: ReadPart reads one packet per iteration, hands it to   *)
(*     DeSerializePacket, and after NumPackets iterations FinishReadpart   *)
(*     sends the finish message and stops the other goroutine;             *)
(*   - requestRetransfers: on every tick of a 50 ms ticker it sends the    *)
(*     list of gaps, MissingNumsPerPacket entries per packet, holding the  *)
(*     PartContext mutex for the whole round.                              *)
(*                                                                         *)
(* A gap is an entry of two parallel lists: its first sequence number in   *)
(* MissingSequenceNums and how many packets of it are still missing in     *)
(* MissingSequenceNumOffsets.  A payload is abstracted to its sequence     *)
(* number: data is the set of sequence numbers copied into b.Data.         *)
(*                                                                         *)
(* DeSerializePacket changes the lists only under the mutex, so it is one  *)
(* step that has to wait while a round is under way (tick = "round").      *)
(*                                                                         *)
(* requestRetransfers reads cp.PartContext anew at every use.  After a     *)
(* Read that failed the goroutine lives on, and the next Read puts a fresh *)
(* context in its way, in the middle of a round too (ReplaceContext).      *)
(* That is followed here as far as the left-over round goes; the later     *)
(* Read is the subject of module Connection.                               *)
(***************************************************************************)
EXTENDS Part, FiniteSets

CONSTANTS
  MissingNumsPerPacket,  \* gaps per request packet; 100 in the code
  PacketChanCap          \* capacity of PacketChan; 64 in the code

ASSUME ReceiverAssumption ==
  /\ MissingNumsPerPacket \in Nat \ {0}
  /\ PacketChanCap \in Nat

VARIABLES
  rpc,          \* "reading", "blocked", "finishing", "returned", "failed", or
                \*   "replaced": a later Read has replaced the PartContext
  reads,        \* loop variable i of ReadPart
  highest,      \* PartContext.HighestSequenceNumber
  rMissing,     \* PartContext.MissingSequenceNums
  rOffsets,     \* PartContext.MissingSequenceNumOffsets
  recvPackets,  \* PartContext.RecvPackets
  data,         \* sequence numbers whose payload is in PartContext.Data
  packetChan,   \* number of packets buffered in PacketChan
  tick,         \* requestRetransfers: "idle", "round" or "stopped"
  start         \* its local start (and missingNumIndex, always equal to it)

readVars   == <<rpc, reads, recvPackets, data, packetChan>>
gapVars    == <<highest, rMissing, rOffsets>>
tickVars   == <<tick, start>>
recvVars   == <<rpc, reads, highest, rMissing, rOffsets, recvPackets, data,
                packetChan, tick, start>>

\* PacketChan is made once per connection and never drained, so the errors of
\* earlier parts may still fill it when a part starts.
ReceiverInit ==
  /\ rpc = "reading"
  /\ reads = 0
  /\ highest = 0
  /\ rMissing = <<>>
  /\ rOffsets = <<>>
  /\ recvPackets = 0
  /\ data = {}
  /\ packetChan \in 0..PacketChanCap
  /\ tick = "idle"
  /\ start = 0

-----------------------------------------------------------------------------
(* ReadPart and DeSerializePacket.                                         *)

Diff(p) == p.seq - highest

\* Mutant: the loop runs once too often.
InLoopOnceMore == rpc = "reading" /\ reads <= NumPackets

\* ReadPart is in its loop and ReadFromConn returned the packet p.
InLoop == rpc = "reading" /\ reads < NumPackets

\* The tail of DeSerializePacket and of the loop body when it returns nil: the
\* payload is copied to its place and the packet is counted.
Accept(p) ==
  /\ reads' = reads + 1
  /\ recvPackets' = recvPackets + 1
  /\ data' = data \cup {p.seq}
  /\ UNCHANGED <<rpc, packetChan>>

\* diff = 1, the expected packet, or diff = 0, another copy of the newest one:
\* neither touches the lists nor takes the mutex.
ReadInOrder(p) ==
  /\ InLoop
  /\ p.part = PartId
  /\ Diff(p) \in {0, 1}
  /\ highest' = p.seq
  /\ Accept(p)
  /\ UNCHANGED <<rMissing, rOffsets, tickVars>>

\* Mutant: the gap is taken one packet too long.
ReadAheadGapTooLong(p) ==
  /\ InLoop
  /\ p.part = PartId
  /\ Diff(p) > 1
  /\ tick # "round"
  /\ rMissing' = Append(rMissing, p.seq - (Diff(p) - 1))
  /\ rOffsets' = Append(rOffsets, Diff(p))
  /\ highest' = p.seq
  /\ Accept(p)
  /\ UNCHANGED tickVars

\* diff > 1: the packets between highest and p become a gap.
ReadAhead(p) ==
  /\ InLoop
  /\ p.part = PartId
  /\ Diff(p) > 1
  /\ tick # "round"
  /\ IF IndexOf(p.seq - (Diff(p) - 1), rMissing) = NotFound
     THEN /\ rMissing' = Append(rMissing, p.seq - (Diff(p) - 1))
          /\ rOffsets' = Append(rOffsets, Diff(p) - 1)
     ELSE UNCHANGED <<rMissing, rOffsets>>
  /\ highest' = p.seq
  /\ Accept(p)
  /\ UNCHANGED tickVars

\* A packet below the highest number whose gap is at index.
LateInGap(p, index) ==
  /\ InLoop
  /\ p.part = PartId
  /\ Diff(p) < 0
  /\ index # NotFound
  /\ tick # "round"
  /\ highest' = highest
  /\ Accept(p)
  /\ UNCHANGED tickVars

DropGap(index) ==
  /\ rMissing' = RemoveFromSliceByIndex(rMissing, index)
  /\ rOffsets' = RemoveFromSliceByIndex(rOffsets, index)

\* Mutant: the first late packet closes its gap.
ReadLateClosesGap(p) ==
  LET index == IndexOfMin(p.seq, rMissing)
  IN  LateInGap(p, index) /\ DropGap(index)

\* Mutant: the gap's first number moves on as well (the line commented out at
\* partcontext.go:154).
ReadLateMovesGap(p) ==
  LET index == IndexOfMin(p.seq, rMissing)
  IN  /\ LateInGap(p, index)
      /\ IF rOffsets[index] = 1
         THEN DropGap(index)
         ELSE /\ rOffsets' = [rOffsets EXCEPT ![index] = @ - 1]
              /\ rMissing' = [rMissing EXCEPT ![index] = @ + 1]

\* diff < 0: a late or retransferred packet is counted against the gap that
\* IndexOfMin names; the gap shrinks by one and goes when it is used up.  Its
\* first sequence number stays what it was.
ReadLate(p) ==
  LET index == IndexOfMin(p.seq, rMissing)
  IN  /\ LateInGap(p, index)
      /\ IF rOffsets[index] = 1
         THEN DropGap(index)
         ELSE /\ rOffsets' = [rOffsets EXCEPT ![index] = @ - 1]
              /\ UNCHANGED rMissing

\* DeSerializePacket returns an error: the packet is of another part, or it is
\* below the highest number and IndexOfMin knows no gap for it.
Refused(p) ==
  \/ p.part # PartId
  \/ Diff(p) < 0 /\ IndexOfMin(p.seq, rMissing) = NotFound

\* The refused packet goes to PacketChan, and it counts as an iteration.
ReadRefused(p) ==
  /\ InLoop
  /\ Refused(p)
  /\ packetChan < PacketChanCap
  /\ packetChan' = packetChan + 1
  /\ reads' = reads + 1
  /\ UNCHANGED <<rpc, recvPackets, data, gapVars, tickVars>>

\* PacketChan is full and nobody receives from it: the send never returns.
ReadBlocks(p) ==
  /\ InLoop
  /\ Refused(p)
  /\ packetChan = PacketChanCap
  /\ rpc' = "blocked"
  /\ UNCHANGED <<reads, recvPackets, data, packetChan, gapVars, tickVars>>

ReadPacket(p) ==
  \/ ReadInOrder(p)
  \/ ReadAhead(p)
  \/ ReadLate(p)
  \/ ReadRefused(p)
  \/ ReadBlocks(p)

\* ReadFromConn fails (deadline passed, connection closed): Read returns the
\* error and leaves requestRetransfers running.
ReadError ==
  /\ InLoop
  /\ rpc' = "failed"
  /\ UNCHANGED <<reads, recvPackets, data, packetChan, gapVars, tickVars>>

\* Mutant: Read finishes one packet early.
SendPartFinishEarly ==
  /\ rpc = "reading"
  /\ reads = NumPackets - 1
  /\ rpc' = "finishing"
  /\ UNCHANGED <<reads, recvPackets, data, packetChan, gapVars, tickVars>>

\* FinishReadpart: sendPartFinish, then the send on stopRetransferPacketsChan.
SendPartFinish ==
  /\ rpc = "reading"
  /\ reads = NumPackets
  /\ rpc' = "finishing"
  /\ UNCHANGED <<reads, recvPackets, data, packetChan, gapVars, tickVars>>

\* That channel is unbuffered: the send completes when requestRetransfers is
\* back at its select; that goroutine ends and Read returns len(b).
StopRetransfers ==
  /\ rpc = "finishing"
  /\ tick = "idle"
  /\ rpc' = "returned"
  /\ tick' = "stopped"
  /\ UNCHANGED <<reads, recvPackets, data, packetChan, gapVars, start>>

\* A Read that comes after the failed one sets its own, fresh PartContext; what
\* the failed one left running does not notice.
ReplaceContext ==
  /\ rpc = "failed"
  /\ rpc' = "replaced"
  /\ reads' = 0
  /\ highest' = 0
  /\ rMissing' = <<>>
  /\ rOffsets' = <<>>
  /\ recvPackets' = 0
  /\ data' = {}
  /\ UNCHANGED <<packetChan, tickVars>>

-----------------------------------------------------------------------------
(* requestRetransfers.                                                     *)

\* min: the end of the slice the next request packet carries.
ChunkEnd == MinInt(start + MissingNumsPerPacket, Len(rMissing))

\* When start is beyond the list the code moves it back to min; the slice is
\* empty either way.
RequestPacket == GapRequest(SubSeq(rMissing, start + 1, ChunkEnd),
                            SubSeq(rOffsets, start + 1, ChunkEnd))

\* Mutant: only an empty chunk ends the loop.
RoundEndsEmpty == ChunkEnd = 0

\* The loop ends: nothing is missing, or start + min is past the list.  It is
\* the list of the context that is current by now.
RoundEnds == ChunkEnd = 0 \/ start + ChunkEnd >= Len(rMissing)

\* One iteration of the loop that sends the request packets of a tick.  A tick
\* before the first packet is passed over; in the loop that is not tested again.
RequestRetransfers ==
  /\ tick \in {"idle", "round"}
  /\ tick = "idle" => highest >= 1
  /\ tick' = IF RoundEnds THEN "idle" ELSE "round"
  /\ start' = IF RoundEnds THEN 0 ELSE start + ChunkEnd
  /\ UNCHANGED <<readVars, gapVars>>

-----------------------------------------------------------------------------
(* The receiver alone, fed by a network that may deliver any packet at any *)
(* time: lost, repeated, reordered, left over from another part.           *)

ReceiverNext ==
  \/ \E p \in Packets : ReadPacket(p)
  \/ ReadError
  \/ ReplaceContext
  \/ SendPartFinish
  \/ StopRetransfers
  \/ RequestRetransfers

ReceiverSpec == ReceiverInit /\ [][ReceiverNext]_recvVars
-----------------------------------------------------------------------------
(* What the receiver guarantees whatever the network delivers.             *)

\* The types of the receiver's state.
ReceiverTypeOK ==
  /\ rpc \in {"reading", "blocked", "finishing", "returned", "failed", "replaced"}
  /\ reads \in 0..NumPackets
  /\ highest \in 0..NumPackets
  /\ rMissing \in Seq(Int)
  /\ rOffsets \in Seq(Int)
  /\ recvPackets \in 0..NumPackets
  /\ data \subseteq 1..NumPackets
  /\ packetChan \in 0..PacketChanCap
  /\ tick \in {"idle", "round", "stopped"}
  /\ start \in Nat

\* The two parallel slices always have the same length.
ListsAligned == Len(rMissing) = Len(rOffsets)

\* Every gap has something missing, starts at a real sequence number and ends
\* before the highest packet received: the newest packet is never in a gap.
GapsBelowHighest ==
  \A i \in 1..Len(rMissing) :
    /\ rMissing[i] >= 1
    /\ rOffsets[i] >= 1
    /\ rMissing[i] + rOffsets[i] <= highest

\* The gaps are in increasing order and a received packet lies between any two
\* of them: the order IndexOfMin's search relies on.
GapsDisjoint ==
  \A j \in 1..Len(rMissing) : \A i \in 1..(j - 1) :
    rMissing[i] + rOffsets[i] < rMissing[j]

\* The gap lists stay well formed under every order, loss and repetition of
\* packets DeSerializePacket can meet (partcontext.go:113).
GapsWellFormed == ListsAligned /\ GapsBelowHighest /\ GapsDisjoint

\* The numbers that IndexOfMin counts against the gap at i: from its first one
\* to the next gap, or to the highest.
GapRegion(i) ==
  rMissing[i]..(IF i = Len(rMissing) THEN highest ELSE rMissing[i + 1] - 1)

\* The numbers below the first gap.
BelowGaps == 1..(IF rMissing = <<>> THEN highest ELSE rMissing[1] - 1)

\* As long as no packet was counted twice, the two lists tell exactly what is
\* missing: every number below the first gap has been received, and each gap
\* owes as many packets as are missing between it and the next one, although a
\* gap is shortened at its upper end whichever of its packets comes
\* (partcontext.go:146).  The condition is needed: of packets 1, 3, 4 and a copy
\* of 3 the copy closes the gap at 2, and nobody asks for 2 again.
GapsOweTheirPackets ==
  recvPackets = Cardinality(data) =>
    /\ BelowGaps \subseteq data
    /\ \A i \in 1..Len(rMissing) :
         rOffsets[i] = Cardinality(GapRegion(i) \ data)

\* The list cannot shrink under a round that has been started: as long as the
\* round's own PartContext is the current one, the branch that logs "start value
\* too small for min, possible race condition occurred" (controlplane.go:408) is
\* not taken.  It is taken in a round that a failed Read left behind, once the
\* next Read has replaced the context (conn.go:111).
RoundStaysInList == rpc # "replaced" => start <= ChunkEnd
=============================================================================
