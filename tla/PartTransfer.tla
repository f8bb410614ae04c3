---------------------------- MODULE PartTransfer ----------------------------
(***************************************************************************)
(* The transfer of one part: Write (module PartSender) and Read (module    *)
(* PartReceiver) on two hosts, joined by UDP sockets.                      *)
(*                                                                         *)
(* A direction of the network is the sequence of packets on their way to   *)
(* or in the buffer of the socket at its end.  A data packet that finds    *)
(* DataBuf packets there is dropped.  The other direction carries at most  *)
(* MaxRequests requests at a time, besides the finish message: a tick of   *)
(* requestRetransfers comes 50 ms after the last one, and waits in the     *)
(* model until there is room.                                              *)
(* What else the network may do is chosen by the constants:                *)
(*                                                                         *)
(*   Losses        which first transmissions are lost: one of these sets   *)
(*   LossyControl  any request, and the finish message, may be lost        *)
(*   Reorder       a packet may overtake others                            *)
(*   ConnErrors    a call on the socket may return an error                *)
(***************************************************************************)
EXTENDS PartReceiver, PartSender

CONSTANTS Losses, LossyControl, Reorder, ConnErrors, DataBuf, MaxRequests

ASSUME NetworkAssumption ==
  /\ Losses \subseteq SUBSET SequenceNumbers
  /\ LossyControl \in BOOLEAN
  /\ Reorder \in BOOLEAN
  /\ ConnErrors \in BOOLEAN
  /\ DataBuf \in Nat \ {0}
  /\ MaxRequests \in Nat \ {0}

VARIABLES
  dataNet,  \* data packets, sender to receiver
  ackNet,   \* PartRequestPackets, receiver to sender
  lost      \* the first transmissions that this run loses

netVars == <<dataNet, ackNet, lost>>
vars    == <<recvVars, sendVars, netVars>>

Init ==
  /\ ReceiverInit
  /\ SenderInit
  /\ dataNet = <<>>
  /\ ackNet = <<>>
  /\ lost \in Losses

-----------------------------------------------------------------------------
(* The network.                                                            *)

Buffered(net, msgs) ==
  SubSeq(net \o msgs, 1, MinInt(DataBuf, Len(net) + Len(msgs)))

SendRequest(m) ==
  \/ ackNet' = Append(ackNet, m)
  \/ LossyControl /\ UNCHANGED ackNet

Deliverable(net) == IF Reorder THEN 1..Len(net) ELSE 1..MinInt(1, Len(net))

Received(net, k) == net' = RemoveFromSliceByIndex(net, k)

-----------------------------------------------------------------------------
(* The steps of the four goroutines.                                       *)

SendPacket ==
  /\ WritePacket
  /\ dataNet' = IF sent + 1 \in lost
                THEN dataNet
                ELSE Buffered(dataNet, <<DataPacket(sent + 1)>>)
  /\ UNCHANGED <<recvVars, ackNet, lost>>

SendGap ==
  /\ RetransferGap
  /\ dataNet' = Buffered(dataNet, GapPackets)
  /\ UNCHANGED <<recvVars, ackNet, lost>>

SendFails ==
  /\ ConnErrors
  /\ WriteError \/ RetransferError
  /\ UNCHANGED <<recvVars, netVars>>

WriteStep ==
  \/ SendPacket
  \/ SendGap
  \/ /\ EnterRetransfer \/ LoopTest \/ RangeSnapshot \/ RangeMismatch
     /\ UNCHANGED <<recvVars, netVars>>

WriteReset == ResetRetransfers /\ UNCHANGED <<recvVars, netVars>>

\* The sender's process has not been ended by log.Fatal or a panic.
ProcessRuns == spc \notin {"panicked", "fatal", "zero"}

ReceiveAck ==
  /\ \E k \in Deliverable(ackNet) : HandleAck(ackNet[k]) /\ Received(ackNet, k)
  /\ UNCHANGED <<recvVars, dataNet, lost>>

HandleStep ==
  /\ ProcessRuns
  /\ \/ ReceiveAck
     \/ /\ SkipGap \/ AppendNum \/ AppendOffset \/ StoreOffset
        /\ UNCHANGED <<recvVars, netVars>>

ReceivePacket ==
  /\ \E k \in Deliverable(dataNet) :
       ReadPacket(dataNet[k]) /\ Received(dataNet, k)
  /\ UNCHANGED <<sendVars, ackNet, lost>>

FinishRead ==
  /\ SendPartFinish
  /\ SendRequest(FinishPacket)
  /\ UNCHANGED <<sendVars, dataNet, lost>>

ReadFails == ConnErrors /\ ReadError /\ UNCHANGED <<sendVars, netVars>>

ReadStop == StopRetransfers /\ UNCHANGED <<sendVars, netVars>>

TickStep ==
  /\ Len(ackNet) < MaxRequests
  /\ RequestRetransfers
  /\ SendRequest(RequestPacket)
  /\ UNCHANGED <<sendVars, dataNet, lost>>

Next ==
  \/ WriteStep \/ WriteReset \/ SendFails
  \/ HandleStep
  \/ ReceivePacket \/ FinishRead \/ ReadStop \/ ReadFails
  \/ TickStep

\* Every goroutine goes on as long as it can, and the ticker ticks.  A step
\* that waits for a mutex or in a select is given its turn when that becomes
\* possible again and again: Go's mutex hands over to the longest waiter, and
\* a select picks among its ready cases at random.  Between two passes
\* RetransferMissingPackets sleeps for 100 ms (spc = "loop"), so what the
\* goroutine that handles requests and the ticker can do again and again during
\* that sleep, they do during the sleep again and again.
Fairness ==
  /\ WF_vars(WriteStep) /\ SF_vars(WriteReset)
  /\ WF_vars(HandleStep)
  /\ \A pc \in {"select", "num", "offset", "store"} :
       SF_vars(HandleStep /\ hpc = pc /\ spc = "loop")
  /\ SF_vars(ReceivePacket) /\ WF_vars(FinishRead) /\ SF_vars(ReadStop)
  /\ WF_vars(TickStep) /\ SF_vars(TickStep /\ spc = "loop")

Spec == Init /\ [][Next]_vars

FairSpec == Spec /\ Fairness
-----------------------------------------------------------------------------
(* Safety.                                                                 *)

\* The types of the state of both sides and of the network.
TypeOK ==
  /\ ReceiverTypeOK
  /\ spc \in {"writing", "loop", "snapshot", "range", "reset", "returned",
              "failed", "panicked", "fatal", "zero"}
  /\ sent \in 0..NumPackets
  /\ dpState \in {"pending", "retransfer"}
  /\ sMissing \in Seq(Int) /\ sOffsets \in Seq(Int)
  /\ rangeLen \in Nat /\ rangeIdx \in Nat
  /\ hpc \in {"select", "num", "offset", "store", "stopping"}
  /\ hpos \in 0..Len(hmsg.MissingSequenceNumbers)
  /\ Len(dataNet) <= DataBuf /\ \A k \in 1..Len(dataNet) : dataNet[k] \in Packets
  /\ Len(ackNet) <= MaxRequests + 1
  /\ lost \in Losses

\* The gaps of the sender's lists whose number and offset are in their slots.
Settled == 1..(IF hpc = "store" THEN Len(sOffsets) - 1 ELSE Len(sOffsets))

\* However requests are delayed, repeated or reordered, the gaps that are in
\* their slots ask the sender only for packets that WritePart has sent already,
\* and never for the newest of them (controlplane.go:322).
OnlySentRequested ==
  \A i \in Settled : sMissing[i] >= 1 /\ sMissing[i] + sOffsets[i] <= sent

\* The gaps that are in their slots do not overlap, although they are merged from
\* requests of different age (controlplane.go:322): one pass of
\* RetransferMissingPackets over them (dataplane.go:163) sends no packet twice.
PassSendsOnce ==
  \A i, j \in Settled :
    i # j => \/ sMissing[i] + sOffsets[i] <= sMissing[j]
             \/ sMissing[j] + sOffsets[j] <= sMissing[i]

\* The sender's two lists differ in length only while handlePartAckPacket is
\* between its two appends (controlplane.go:325): the mismatch that
\* RetransferMissingPackets logs is never left behind for a later pass.
ListsSettle ==
  Len(sMissing) = Len(sOffsets) + (IF hpc = "offset" THEN 1 ELSE 0)

\* RetransferMissingPackets reads the lists without the mutex
\* (dataplane.go:163).  It ends the process, by slicing the data out of bounds
\* or by log.Fatal on a gap numbered 0, only when it reaches the last gap while
\* handlePartAckPacket is still adding it: every gap that is in its slots has
\* its packets inside the part's data.
CrashOnlyMidAppend ==
  [][spc = "range" /\ spc' \in {"panicked", "zero"}
       => hpc \in {"offset", "store"} /\ rangeIdx = Len(sMissing)]_vars

\* Write returns only when Read has left its loop (README: "Both calls block
\* until the data is transferred completely"): none of this part's requests,
\* late or repeated, ends the sender's retransfer loop (dataplane.go:160) early.
\* Messages of earlier parts are met in module Connection.
WriteAfterRead == spc = "returned" => rpc \in {"finishing", "returned"}

-----------------------------------------------------------------------------
(* What README.md promises of the transfer, and liveness.                  *)

RP == INSTANCE ReliablePart WITH
        delivered <- data,
        readDone  <- rpc \in {"finishing", "returned"},
        writeDone <- spc = "returned"

\* The transfer implements ReliablePart: Read finishes with every packet in
\* its buffer, and Write returns after that.
PartIsReliable == RP!Spec

\* Read returns.
ReadReturns == <>(rpc = "returned")

\* Write returns.
WriteReturns == <>(spc = "returned")

\* Once the finish message reaches a sender that is in its retransfer loop,
\* Write returns: no pending gap keeps it there (dataplane.go:160).
FinishEndsRetransfer ==
  (spc \in {"loop", "snapshot", "range", "reset"} /\ dpState = "pending")
    ~> (spc = "returned")
=============================================================================
