----------------------------- MODULE Connection -----------------------------
(***************************************************************************)
(* One connection and the parts it carries one after the other: Dial, then *)
(* Write after Write on one host; Accept, then Read after Read on the      *)
(* other.  What modules PartSender and PartReceiver do for one part is     *)
(* followed across parts, with what each part leaves behind:               *)
(*                                                                         *)
(*   - on the sender, HandleAckPackets and the goroutine in it that reads  *)
(*     the socket for it.  That one never ends.  HandleAckPackets ends in  *)
(*     SetState, where it stays in metrics.Stop with the dataplane's mutex;*)
(*   - on the receiver, requestRetransfers, when ReadPart fails, and the   *)
(*     packets in PacketChan.                                              *)
(*                                                                         *)
(* Parts have one packet (a buffer of PACKET_PAYLOAD_SIZE bytes or a few   *)
(* more), so there are never gaps: requests carry empty lists.  None of    *)
(* the messages to the sender is told apart by its part id there, so they  *)
(* are reduced to their kind.  A failing socket write whose error the code *)
(* ignores is a lost packet.                                               *)
(*                                                                         *)
(* MaxParts bounds the number of Writes, and MaxRequests the messages on   *)
(* their way when a tick sends one more.                                   *)
(***************************************************************************)
EXTENDS Network

CONSTANTS MaxParts, PacketChanCap, MaxRequests

ASSUME ConnectionAssumption ==
  /\ MaxParts \in Nat
  /\ PacketChanCap \in Nat
  /\ MaxRequests \in Nat

\* Dial takes the first id.
PartIds == 2..(MaxParts + 1)

VARIABLES
  wpc,            \* sender: "dial", "idle", "answer", "start", "writing",
                  \*   "written" or "loop"
  currentPartId,  \* ControlPlane.currentPartId of the sender
  dpState,        \* SCIONDataplane.state of the sender
  socketReader,   \* per part, the goroutine inside HandleAckPackets: "none",
                  \*   "reading", or what it wants to hand over
  handler,        \* per part, HandleAckPackets: "none", "select", "locking"
                  \*   (SetState wants the mutex) or "stopping" (it has it)
  returned,       \* parts whose Write returned without an error
  rpc,            \* receiver: "accept", "idle", "reading", "blocked",
                  \*   "finish", "stop" or "crashed"
  readId,         \* PartContext.PartId of the receiver
  highest,        \* PartContext.HighestSequenceNumber
  locked,         \* PartContext is locked
  tickers,        \* requestRetransfers goroutines
  rounds,         \* those of them between Lock and Unlock
  delivered,      \* what the Reads returned: a part, or 0 for none
  packetChan,     \* number of packets in PacketChan of the receiver
  toReceiver, toSender

writeVars   == <<wpc, currentPartId, returned>>
handleVars  == <<dpState, socketReader, handler>>
sendVars    == <<wpc, currentPartId, returned, dpState, socketReader, handler>>
contextVars == <<readId, highest, locked>>
tickVars    == <<tickers, rounds>>
readVars    == <<rpc, delivered, packetChan>>
recvVars    == <<rpc, delivered, packetChan, readId, highest, locked, tickers, rounds>>
vars        == <<sendVars, recvVars, toReceiver, toSender, faultVars>>

HandshakeFor(id) == [kind |-> "handshake", id |-> id]
DataOf(id)       == [kind |-> "data", id |-> id]

Init ==
  /\ wpc = "dial"
  /\ currentPartId = 0
  /\ returned = {}
  /\ dpState = "pending"
  /\ socketReader = [id \in PartIds |-> "none"]
  /\ handler = [id \in PartIds |-> "none"]
  /\ rpc = "accept"
  /\ readId = 0 /\ highest = 0 /\ locked = FALSE
  /\ tickers = 0 /\ rounds = 0
  /\ delivered = <<>>
  /\ packetChan = 0
  /\ toReceiver = <<>> /\ toSender = <<>>
  /\ NetworkInit
-----------------------------------------------------------------------------
(* The sender: Dial and Write.                                             *)

\* InitialHandshake: nobody answers it.
Dial ==
  /\ wpc = "dial"
  /\ wpc' = "idle"
  /\ currentPartId' = 1
  /\ Sent(toReceiver, HandshakeFor(1))
  /\ UNCHANGED <<returned, handleVars, recvVars, toSender, mixups, errors>>

\* Write begins: Handshake takes the next id and sends it.
Handshake ==
  /\ wpc = "idle"
  /\ currentPartId + 1 \in PartIds
  /\ wpc' = "answer"
  /\ currentPartId' = currentPartId + 1
  /\ Sent(toReceiver, HandshakeFor(currentPartId + 1))
  /\ UNCHANGED <<returned, handleVars, recvVars, toSender, mixups, errors>>

\* Handshake takes the next packet for the answer, whatever it is: it goes on
\* with its own message.
TakeAnswer ==
  /\ wpc = "answer"
  /\ wpc' = "start"
  /\ \E k \in 1..Len(toSender) : Received(toSender, k)
  /\ UNCHANGED <<currentPartId, returned, handleVars, recvVars, toReceiver,
                 losses, errors>>

\* The error of that read is ignored.
AnswerFails ==
  /\ wpc = "answer"
  /\ CallFails
  /\ wpc' = "start"
  /\ UNCHANGED <<currentPartId, returned, handleVars, recvVars, toReceiver,
                 toSender, losses, mixups>>

\* StartWritepart: HandleAckPackets and the goroutine in it.
StartWritepart ==
  /\ wpc = "start"
  /\ wpc' = "writing"
  /\ socketReader' = [socketReader EXCEPT ![currentPartId] = "reading"]
  /\ handler' = [handler EXCEPT ![currentPartId] = "select"]
  /\ UNCHANGED <<currentPartId, returned, dpState, recvVars, toReceiver, toSender,
                 faultVars>>

\* WritePart sends the packet ...
WritePart ==
  /\ wpc = "writing"
  /\ wpc' = "written"
  /\ Sent(toReceiver, DataOf(currentPartId))
  /\ UNCHANGED <<currentPartId, returned, handleVars, recvVars, toSender, mixups,
                 errors>>

\* ... or fails, and Write returns the error.
WriteFails ==
  /\ wpc = "writing"
  /\ CallFails
  /\ wpc' = "idle"
  /\ UNCHANGED <<currentPartId, returned, handleVars, recvVars, toReceiver,
                 toSender, losses, mixups>>

\* RetransferMissingPackets sets its state ...
EnterRetransfer ==
  /\ wpc = "written"
  /\ wpc' = "loop"
  /\ dpState' = "retransfer"
  /\ UNCHANGED <<currentPartId, returned, socketReader, handler, recvVars,
                 toReceiver, toSender, faultVars>>

\* Mutant: a pass over the empty list ends the loop.
NothingMissing == TRUE

\* for dp.state == DP_STATE_RETRANSFER
LoopDone == dpState = "pending"

\* ... and passes over empty lists until somebody changes it; Write returns.
\* FinishWritepart does nothing.
LoopEnds ==
  /\ wpc = "loop"
  /\ LoopDone
  /\ wpc' = "idle"
  /\ returned' = returned \cup {currentPartId}
  /\ UNCHANGED <<currentPartId, handleVars, recvVars, toReceiver, toSender, faultVars>>
-----------------------------------------------------------------------------
(* The sender: the goroutines of HandleAckPackets.                         *)

\* The read on the socket returns a packet ...
ReadSocket(id) ==
  /\ socketReader[id] = "reading"
  /\ \E k \in 1..Len(toSender) :
       /\ socketReader' = [socketReader EXCEPT ![id] = toSender[k]]
       /\ Received(toSender, k)
  /\ UNCHANGED <<writeVars, dpState, handler, recvVars, toReceiver, losses, errors>>

\* ... or an error.
ReadSocketFails(id) ==
  /\ socketReader[id] = "reading"
  /\ CallFails
  /\ socketReader' = [socketReader EXCEPT ![id] = "error"]
  /\ UNCHANGED <<writeVars, dpState, handler, recvVars, toReceiver, toSender,
                 losses, mixups>>

\* The channels are unbuffered: it is taken when HandleAckPackets is at its
\* select.  A request has no gaps to add, an answer does not decode as a
\* request, and an error is logged.
HandleAck(id) ==
  /\ handler[id] = "select"
  /\ socketReader[id] \notin {"none", "reading"}
  /\ handler' = [handler EXCEPT ![id] =
                   IF socketReader[id] = "finish" THEN "locking" ELSE "select"]
  /\ socketReader' = [socketReader EXCEPT ![id] = "reading"]
  /\ UNCHANGED <<writeVars, dpState, recvVars, toReceiver, toSender, faultVars>>

\* SetState(DP_STATE_PENDING): one goroutine gets the dataplane's mutex, and
\* keeps it, as nothing receives what metrics.Stop sends.
SetState(id) ==
  /\ handler[id] = "locking"
  /\ \A other \in PartIds : handler[other] # "stopping"
  /\ handler' = [handler EXCEPT ![id] = "stopping"]
  /\ dpState' = "pending"
  /\ UNCHANGED <<writeVars, socketReader, recvVars, toReceiver, toSender, faultVars>>
-----------------------------------------------------------------------------
(* The receiver: Accept and Read.                                          *)

\* The next packet is taken; whether it is a handshake or Accept returns an
\* error, Reads may follow.
Accept ==
  /\ rpc = "accept"
  /\ rpc' = "idle"
  /\ \E k \in 1..Len(toReceiver) : Received(toReceiver, k)
  /\ UNCHANGED <<delivered, packetChan, contextVars, tickVars, sendVars, toSender,
                 losses, errors>>

\* A failing read leaves nothing to decode.
AcceptFails ==
  /\ rpc = "accept"
  /\ CallFails
  /\ rpc' = "idle"
  /\ UNCHANGED <<delivered, packetChan, contextVars, tickVars, sendVars, toReceiver,
                 toSender, losses, mixups>>

\* Mutant: the answer is left out.
NoAnswer == UNCHANGED <<toSender, losses>>

SendAnswer == Sent(toSender, "answer")

\* Read begins: AwaitHandshake gets a handshake, whoever's it is, and answers
\* it; a new PartContext is set and StartReadpart starts requestRetransfers.
AwaitHandshake ==
  /\ rpc = "idle"
  /\ \E k \in 1..Len(toReceiver) :
       /\ toReceiver[k].kind = "handshake"
       /\ readId' = toReceiver[k].id
       /\ Received(toReceiver, k)
  /\ SendAnswer
  /\ highest' = 0 /\ locked' = FALSE
  /\ rpc' = "reading"
  /\ tickers' = tickers + 1
  /\ UNCHANGED <<delivered, packetChan, rounds, sendVars, errors>>

\* A packet that does not decode as a handshake: Read returns the error.
NoHandshake ==
  /\ rpc = "idle"
  /\ \E k \in 1..Len(toReceiver) :
       toReceiver[k].kind # "handshake" /\ Received(toReceiver, k)
  /\ UNCHANGED <<recvVars, sendVars, toSender, losses, errors>>

\* ReadPart gets the part's packet.
ReadPart ==
  /\ rpc = "reading"
  /\ \E k \in 1..Len(toReceiver) :
       toReceiver[k] = DataOf(readId) /\ Received(toReceiver, k)
  /\ highest' = 1
  /\ rpc' = "finish"
  /\ delivered' = Append(delivered, readId)
  /\ UNCHANGED <<packetChan, readId, locked, tickVars, sendVars, toSender, losses,
                 errors>>

\* Mutant: PacketChan always has room.
AlwaysRoom == TRUE

PacketChanHasRoom == packetChan < PacketChanCap

\* Any other packet counts as well, and goes to PacketChan.
ReadRefused ==
  /\ rpc = "reading"
  /\ \E k \in 1..Len(toReceiver) :
       toReceiver[k] # DataOf(readId) /\ Received(toReceiver, k)
  /\ IF PacketChanHasRoom
     THEN /\ rpc' = "finish"
          /\ delivered' = Append(delivered, 0)
          /\ packetChan' = packetChan + 1
     ELSE rpc' = "blocked" /\ UNCHANGED <<delivered, packetChan>>
  /\ UNCHANGED <<contextVars, tickVars, sendVars, toSender, losses, errors>>

\* ReadPart fails: Read returns the error, and requestRetransfers goes on.
ReadFails ==
  /\ rpc = "reading"
  /\ CallFails
  /\ rpc' = "idle"
  /\ UNCHANGED <<delivered, packetChan, contextVars, tickVars, sendVars, toReceiver,
                 toSender, losses, mixups>>

\* FinishReadpart: the finish message is sent ...
SendPartFinish ==
  /\ rpc = "finish"
  /\ rpc' = "stop"
  /\ Sent(toSender, "finish")
  /\ UNCHANGED <<delivered, packetChan, contextVars, tickVars, sendVars, toReceiver,
                 mixups, errors>>

\* Mutants: the goroutine goes on; Read does not wait until it is at its select.
TickerGoesOn == UNCHANGED tickers

TickerEndsLater == tickers' = tickers - 1

\* A requestRetransfers that is at its select gets the stop and ends.
TickerEnds == tickers > rounds /\ tickers' = tickers - 1

\* ... and one requestRetransfers is stopped.
StopRetransfers ==
  /\ rpc = "stop"
  /\ TickerEnds
  /\ rpc' = "idle"
  /\ UNCHANGED <<delivered, packetChan, contextVars, rounds, sendVars, toReceiver,
                 toSender, faultVars>>
-----------------------------------------------------------------------------
(* The receiver: requestRetransfers.                                       *)

\* A tick: a round begins with the PartContext of the current part locked, and
\* its one request is sent.
Tick ==
  /\ rpc # "crashed"
  /\ tickers > rounds
  /\ highest >= 1
  /\ ~locked
  /\ Len(toSender) < MaxRequests
  /\ locked' = TRUE
  /\ rounds' = rounds + 1
  /\ Sent(toSender, "request")
  /\ UNCHANGED <<readVars, readId, highest, tickers, sendVars, toReceiver, mixups,
                 errors>>

\* 1 ms later the round ends and unlocks the PartContext that is current by
\* then.  Unlocking what is not locked ends the process.
RoundEnds ==
  /\ rpc # "crashed"
  /\ rounds > 0
  /\ rounds' = rounds - 1
  /\ locked' = FALSE
  /\ rpc' = IF locked THEN rpc ELSE "crashed"
  /\ UNCHANGED <<delivered, packetChan, readId, highest, tickers, sendVars,
                 toReceiver, toSender, faultVars>>
-----------------------------------------------------------------------------
WriteStep == Dial \/ TakeAnswer \/ StartWritepart \/ WritePart \/ EnterRetransfer \/ LoopEnds

HandlerStep(id) == ReadSocket(id) \/ HandleAck(id) \/ SetState(id)

ReadStep ==
  Accept \/ AwaitHandshake \/ NoHandshake \/ ReadPart \/ ReadRefused \/ SendPartFinish

SocketFails ==
  \/ AnswerFails \/ WriteFails \/ AcceptFails \/ ReadFails
  \/ \E id \in PartIds : ReadSocketFails(id)

Next ==
  \/ WriteStep \/ Handshake
  \/ \E id \in PartIds : HandlerStep(id)
  \/ ReadStep \/ StopRetransfers
  \/ Tick \/ RoundEnds
  \/ SocketFails

Spec == Init /\ [][Next]_vars

\* Calls that have begun go on as long as they can, the peer accepts and reads,
\* and the ticker ticks.
FairSpec ==
  /\ Spec
  /\ WF_vars(WriteStep)
  /\ \A id \in PartIds : WF_vars(HandlerStep(id))
  /\ WF_vars(ReadStep) /\ SF_vars(StopRetransfers)
  /\ WF_vars(Tick) /\ WF_vars(RoundEnds)
-----------------------------------------------------------------------------
\* The network keeps packets in order, once each, and no call fails.  Packets
\* may be lost.
Clean == mixups = 0 /\ errors = 0

\* The types of the state.
TypeOK ==
  /\ wpc \in {"dial", "idle", "answer", "start", "writing", "written", "loop"}
  /\ currentPartId \in 0..(MaxParts + 1)
  /\ returned \subseteq PartIds
  /\ dpState \in {"pending", "retransfer"}
  /\ socketReader \in
       [PartIds -> {"none", "reading", "answer", "request", "finish", "error"}]
  /\ handler \in [PartIds -> {"none", "select", "locking", "stopping"}]
  /\ rpc \in {"accept", "idle", "reading", "blocked", "finish", "stop", "crashed"}
  /\ readId \in 0..(MaxParts + 1)
  /\ highest \in 0..1
  /\ locked \in BOOLEAN
  /\ tickers \in Nat /\ rounds \in Nat
  /\ delivered \in Seq({0} \cup PartIds)
  /\ packetChan \in 0..PacketChanCap
  /\ toReceiver \in Seq([kind : {"handshake", "data"}, id : 1..(MaxParts + 1)])
  /\ toSender \in Seq({"answer", "request", "finish"})
  /\ NetworkTypeOK

\* Between Reads no goroutine asks for retransfers, and during a Read one does;
\* only a call that failed (conn.go:115) can leave another one behind.
TickersStop ==
  tickers <= errors + (IF rpc \in {"accept", "idle"} THEN 0 ELSE 1)

\* A round of requests ends before the PartContext it has locked is replaced by
\* that of the next part (conn.go:111, controlplane.go:442): only after a call that
\* failed can the wrong one be unlocked.
UnlocksItsOwn == rpc = "crashed" => errors > 0

PS == INSTANCE PartStream WITH
        Ids <- PartIds, written <- PartIds \cap (1..currentPartId), got <- delivered

\* As long as the network is clean the connection implements PartStream, even
\* though the sender takes any packet for the handshake's answer
\* (controlplane.go:219) and any finish message for that of its part
\* (controlplane.go:300), the receiver any handshake for the next part's
\* (controlplane.go:247), and goroutines of earlier parts read along.
PartsInOrder == PS!Init /\ [][Clean' => [PS!Next]_(PS!vars)]_vars

\* The first part written arrives, unless the network misbehaves.
FirstPartArrives ==
  (wpc = "answer" /\ currentPartId = 2)
    ~> (delivered # <<>> \/ losses > 0 \/ ~Clean)

\* A second part whose Write has begun arrives and its Write returns, unless the
\* network misbehaves: README.md:7, "To begin a transfer of one or multiple
\* parts".
SecondWriteReturns ==
  (wpc = "answer" /\ currentPartId = 3)
    ~> (3 \in returned \/ losses > 0 \/ ~Clean)
=============================================================================
