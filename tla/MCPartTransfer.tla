--------------------------- MODULE MCPartTransfer ---------------------------
(***************************************************************************)
(* The loss patterns of the runs of PartTransfer.                          *)
(***************************************************************************)
EXTENDS PartTransfer

\* Nothing is lost.
NoLoss == {{}}

\* One burst of any length that leaves the last packet alone, or nothing.
Bursts == {a..b : a \in 1..(NumPackets - 1), b \in 0..(NumPackets - 1)}

\* Two packets that are not neighbours.
TwoGaps == {{2, 4}}

\* The last packet.
LastPacket == {{NumPackets}}

\* Anything.
AnyLoss == SUBSET (1..NumPackets)
=============================================================================
