-------------------------------- MODULE Part --------------------------------
(***************************************************************************)
(* What the two sides of a part's transfer share: how many packets the     *)
(* part has and the messages that travel between them.                     *)
(*                                                                         *)
(* A data packet is its header, the part's id and the packet's sequence    *)
(* number; the payload is a function of the two.  A message the other way  *)
(* is a PartRequestPacket: a finish message, or a list of gaps.  A gap is  *)
(* its first sequence number and, in a parallel list, how many packets are *)
(* missing.  The packet's counters are read by the rate control only and   *)
(* are left to module RateControl.                                         *)
(***************************************************************************)
EXTENDS Utils

CONSTANTS
  NumPackets,  \* packets of the part (PartContext.Prepare)
  PartId,      \* the part's id
  PartIds      \* ids a packet in the receiver's socket can carry

ASSUME PartAssumption ==
  /\ NumPackets \in Nat \ {0}
  /\ PartId \in PartIds

SequenceNumbers == 1..NumPackets

DataPacket(seq) == [part |-> PartId, seq |-> seq]

Packets == [part : PartIds, seq : SequenceNumbers]

GapRequest(nums, offsets) ==
  [PartFinished                 |-> FALSE,
   MissingSequenceNumbers       |-> nums,
   MissingSequenceNumberOffsets |-> offsets]

NoRequest == GapRequest(<<>>, <<>>)

FinishPacket == [NoRequest EXCEPT !.PartFinished = TRUE]
=============================================================================
