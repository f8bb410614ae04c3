-------------------------- MODULE ConnectionProofs --------------------------
(***************************************************************************)
(* A connection that carries any number of parts.                          *)
(*                                                                         *)
(* The first half is about every behaviour of the network and the sockets: *)
(* types, the goroutines that Reads leave behind, and the PartContext that *)
(* a round of requests unlocks.  The second half shows that, while packets *)
(* are at most lost, the connection implements PartStream.                 *)
(***************************************************************************)
EXTENDS Connection, UtilsProofs

PacketsSent == {HandshakeFor(id) : id \in 1..(MaxParts + 1)} \cup {DataOf(id) : id \in PartIds}

Answers == {"answer", "request", "finish"}

\* The sender's state; past the handshake there is a part.
SenderOK ==
  /\ wpc \in {"dial", "idle", "answer", "start", "writing", "written", "loop"}
  /\ currentPartId \in 0..(MaxParts + 1)
  /\ wpc \notin {"dial", "idle"} => currentPartId \in PartIds
  /\ returned \subseteq PartIds
  /\ dpState \in {"pending", "retransfer"}
  /\ socketReader \in [PartIds -> {"none", "reading", "error"} \cup Answers]
  /\ handler \in [PartIds -> {"none", "select", "locking", "stopping"}]

\* The receiver's state; a round of requests belongs to a requestRetransfers.
ReceiverOK ==
  /\ rpc \in {"accept", "idle", "reading", "blocked", "finish", "stop", "crashed"}
  /\ readId \in 0..(MaxParts + 1)
  /\ highest \in 0..1
  /\ locked \in BOOLEAN
  /\ tickers \in Nat /\ rounds \in Nat
  /\ rounds <= tickers
  /\ delivered \in Seq({0} \cup PartIds)
  /\ packetChan \in 0..PacketChanCap

\* The packets under way; data packets are of parts that were handed to Write.
NetOK ==
  /\ toReceiver \in Seq(PacketsSent)
  /\ toSender \in Seq(Answers)
  /\ NetworkTypeOK

\* While no call fails the one round of requests there may be has the
\* PartContext locked, and nobody else has.
RoundHasLock ==
  errors = 0 => /\ rpc # "crashed"
                /\ rounds = IF locked THEN 1 ELSE 0

IInv ==
  /\ SenderOK
  /\ ReceiverOK
  /\ NetOK
  /\ TickersStop
  /\ RoundHasLock

LEMMA InitInv == Init => IInv
<1> SUFFICES ASSUME Init PROVE IInv
  OBVIOUS
<1>1. SenderOK
  BY ConnectionAssumption DEF Init, SenderOK, PartIds
<1>2. ReceiverOK
  <2>1. delivered \in Seq({0} \cup PartIds)
    BY DEF Init
  <2>2. /\ readId \in 0..(MaxParts + 1) /\ highest \in 0..1 /\ packetChan \in 0..PacketChanCap
        /\ tickers \in Nat /\ rounds \in Nat /\ rounds <= tickers
    BY ConnectionAssumption DEF Init
  <2>3. locked \in BOOLEAN /\ rpc = "accept"
    BY Zenon DEF Init
  <2> QED BY <2>1, <2>2, <2>3 DEF ReceiverOK
<1>3. NetOK
  BY NetworkBounds DEF Init, NetOK, NetworkInit, NetworkTypeOK
<1>4. TickersStop /\ RoundHasLock
  BY DEF Init, TickersStop, RoundHasLock, NetworkInit
<1> QED BY <1>1, <1>2, <1>3, <1>4 DEF IInv
-----------------------------------------------------------------------------
(* What the steps of one side leave alone on the other, and the network.   *)

LEMMA SenderFrame ==
  ASSUME SenderOK, UNCHANGED sendVars PROVE SenderOK'
BY DEF SenderOK, sendVars

LEMMA MoreErrors ==
  ASSUME NEW e \in Nat, NEW f \in {e, e + 1}, NEW n \in Nat, NEW c \in Nat, n <= e + c
  PROVE  n <= f + c
OBVIOUS

\* A call that fails only loosens what is said of the receiver.
LEMMA ReceiverFrame ==
  ASSUME IInv, UNCHANGED recvVars, NetOK', errors' \in {errors, errors + 1}
  PROVE  ReceiverOK' /\ TickersStop' /\ RoundHasLock'
<1>1. UNCHANGED <<rpc, delivered, packetChan, readId, highest, locked, tickers, rounds>>
  BY DEF recvVars
<1>2. ReceiverOK'
  BY <1>1 DEF IInv, ReceiverOK
<1>3. errors \in Nat /\ errors' \in Nat /\ tickers \in Nat /\ tickers' = tickers
  BY <1>1, NetworkBounds DEF IInv, ReceiverOK, NetOK, NetworkTypeOK
<1>4. TickersStop'
  <2>1. /\ rpc \in {"accept", "idle"} => tickers <= errors + 0
        /\ rpc \notin {"accept", "idle"} => tickers <= errors + 1
    BY DEF IInv, TickersStop
  <2>2. /\ rpc \in {"accept", "idle"} => tickers <= errors' + 0
        /\ rpc \notin {"accept", "idle"} => tickers <= errors' + 1
    BY <1>3, <2>1, MoreErrors
  <2> QED BY <1>1, <2>2 DEF TickersStop
<1>5. RoundHasLock'
  BY <1>1, <1>3 DEF IInv, RoundHasLock
<1> QED BY <1>2, <1>4, <1>5

LEMMA SentToReceiver ==
  ASSUME NetOK, NEW m \in PacketsSent, Sent(toReceiver, m),
         UNCHANGED <<toSender, mixups, errors>>
  PROVE  NetOK'
<1>1. toReceiver \in Seq(PacketsSent) /\ Append(toReceiver, m) \in Seq(PacketsSent)
  BY AppendProperties, Zenon DEF NetOK
<1>2. toReceiver' \in Seq(PacketsSent)
  BY <1>1, Zenon DEF Sent
<1>3. losses' \in 0..MaxLosses
  BY NetworkBounds DEF Sent, NetOK, NetworkTypeOK
<1> QED BY <1>2, <1>3 DEF NetOK, NetworkTypeOK

LEMMA SentToSender ==
  ASSUME NetOK, NEW m \in Answers, Sent(toSender, m)
  PROVE  toSender' \in Seq(Answers) /\ losses' \in 0..MaxLosses
<1>1. toSender \in Seq(Answers) /\ Append(toSender, m) \in Seq(Answers)
  BY AppendProperties, Zenon DEF NetOK
<1>2. toSender' \in Seq(Answers)
  BY <1>1, Zenon DEF Sent
<1>3. losses' \in 0..MaxLosses
  BY NetworkBounds DEF Sent, NetOK, NetworkTypeOK
<1> QED BY <1>2, <1>3

\* Without a mixup the packet received is the first.
LEMMA TakenFromReceiver ==
  ASSUME NetOK, NEW k \in 1..Len(toReceiver), Received(toReceiver, k)
  PROVE  /\ toReceiver[k] \in PacketsSent
         /\ toReceiver' \in Seq(PacketsSent)
         /\ mixups' \in 0..MaxMixups
         /\ mixups' = 0 => mixups = 0 /\ k = 1 /\ toReceiver' = Tail(toReceiver)
<1>1. toReceiver \in Seq(PacketsSent) /\ mixups \in 0..MaxMixups
  BY DEF NetOK, NetworkTypeOK
<1>2. \/ toReceiver' = toReceiver
      \/ toReceiver' = Tail(toReceiver)
      \/ toReceiver' = RemoveFromSliceByIndex(toReceiver, k)
  BY DEF Received
<1>3. toReceiver[k] \in PacketsSent /\ toReceiver' \in Seq(PacketsSent)
  BY <1>1, <1>2, ElementOfSeq, QueueLeft, Zenon
<1> QED BY <1>1, <1>3, NetworkBounds DEF Received

LEMMA TakenFromSender ==
  ASSUME NetOK, NEW k \in 1..Len(toSender), Received(toSender, k)
  PROVE  /\ toSender[k] \in Answers
         /\ toSender' \in Seq(Answers)
         /\ mixups' \in 0..MaxMixups
         /\ mixups' = 0 => mixups = 0 /\ k = 1 /\ toSender' = Tail(toSender)
<1>1. toSender \in Seq(Answers) /\ mixups \in 0..MaxMixups
  BY DEF NetOK, NetworkTypeOK
<1>2. \/ toSender' = toSender
      \/ toSender' = Tail(toSender)
      \/ toSender' = RemoveFromSliceByIndex(toSender, k)
  BY DEF Received
<1>3. toSender[k] \in Answers /\ toSender' \in Seq(Answers)
  BY <1>1, <1>2, ElementOfSeq, QueueLeft, Zenon
<1> QED BY <1>1, <1>3, NetworkBounds DEF Received

LEMMA NetFrame ==
  ASSUME NetOK, UNCHANGED <<toReceiver, toSender, faultVars>>
  PROVE  NetOK' /\ errors' = errors /\ errors \in Nat
BY NetworkBounds DEF NetOK, NetworkTypeOK, faultVars

LEMMA CallFailed ==
  ASSUME NetOK, CallFails, UNCHANGED <<toReceiver, toSender, losses, mixups>>
  PROVE  /\ NetOK'
         /\ errors \in Nat /\ errors' = errors + 1 /\ errors' \in Nat
BY NetworkBounds DEF NetOK, NetworkTypeOK, CallFails
-----------------------------------------------------------------------------
(* The sender's steps.                                                     *)

LEMMA WriteStepInv ==
  ASSUME IInv, WriteStep \/ Handshake
  PROVE  IInv'
<1>1. CASE Dial
  <2>1. 1 \in 1..(MaxParts + 1) /\ HandshakeFor(1) \in PacketsSent
    BY ConnectionAssumption DEF PacketsSent
  <2>2. NetOK' /\ errors' \in {errors, errors + 1}
    BY <1>1, <2>1, SentToReceiver, NetworkBounds DEF Dial, IInv, NetOK, NetworkTypeOK
  <2>3. SenderOK'
    BY <1>1, ConnectionAssumption DEF Dial, IInv, SenderOK, handleVars
  <2> QED BY <1>1, <2>2, <2>3, ReceiverFrame DEF Dial, IInv
<1>2. CASE Handshake
  <2>1. HandshakeFor(currentPartId + 1) \in PacketsSent /\ currentPartId + 1 \in PartIds
    BY <1>2, ConnectionAssumption DEF Handshake, PacketsSent, PartIds
  <2>2. NetOK' /\ errors' \in {errors, errors + 1}
    BY <1>2, <2>1, SentToReceiver, NetworkBounds DEF Handshake, IInv, NetOK, NetworkTypeOK
  <2>3. SenderOK'
    <3>1. currentPartId + 1 \in 0..(MaxParts + 1)
      BY <2>1, ConnectionAssumption DEF PartIds
    <3> QED BY <1>2, <2>1, <3>1 DEF Handshake, IInv, SenderOK, handleVars
  <2> QED BY <1>2, <2>2, <2>3, ReceiverFrame DEF Handshake, IInv
<1>3. CASE TakeAnswer
  <2>1. PICK k \in 1..Len(toSender) : Received(toSender, k)
    BY <1>3 DEF TakeAnswer
  <2>2. NetOK' /\ errors' \in {errors, errors + 1}
    BY <1>3, <2>1, TakenFromSender, NetworkBounds
    DEF TakeAnswer, IInv, NetOK, NetworkTypeOK
  <2>3. SenderOK'
    BY <1>3 DEF TakeAnswer, IInv, SenderOK, handleVars
  <2> QED BY <1>3, <2>2, <2>3, ReceiverFrame DEF TakeAnswer, IInv
<1>4. CASE StartWritepart
  <2>1. NetOK' /\ errors' \in {errors, errors + 1}
    BY <1>4, NetFrame DEF StartWritepart, IInv
  <2>2. SenderOK'
    BY <1>4 DEF StartWritepart, IInv, SenderOK
  <2> QED BY <1>4, <2>1, <2>2, ReceiverFrame DEF StartWritepart, IInv
<1>5. CASE WritePart
  <2>1. DataOf(currentPartId) \in PacketsSent
    BY <1>5 DEF WritePart, IInv, SenderOK, PacketsSent
  <2>2. NetOK' /\ errors' \in {errors, errors + 1}
    BY <1>5, <2>1, SentToReceiver, NetworkBounds DEF WritePart, IInv, NetOK, NetworkTypeOK
  <2>3. SenderOK'
    BY <1>5 DEF WritePart, IInv, SenderOK, handleVars
  <2> QED BY <1>5, <2>2, <2>3, ReceiverFrame DEF WritePart, IInv
<1>6. CASE EnterRetransfer
  <2>1. NetOK' /\ errors' \in {errors, errors + 1}
    BY <1>6, NetFrame DEF EnterRetransfer, IInv
  <2>2. SenderOK'
    BY <1>6 DEF EnterRetransfer, IInv, SenderOK
  <2> QED BY <1>6, <2>1, <2>2, ReceiverFrame DEF EnterRetransfer, IInv
<1>7. CASE LoopEnds
  <2>1. NetOK' /\ errors' \in {errors, errors + 1}
    BY <1>7, NetFrame DEF LoopEnds, IInv
  <2>2. SenderOK'
    BY <1>7 DEF LoopEnds, IInv, SenderOK, handleVars
  <2> QED BY <1>7, <2>1, <2>2, ReceiverFrame DEF LoopEnds, IInv
<1> QED BY <1>1, <1>2, <1>3, <1>4, <1>5, <1>6, <1>7 DEF WriteStep

LEMMA HandlerStepInv ==
  ASSUME IInv, NEW id \in PartIds, HandlerStep(id)
  PROVE  IInv'
<1>1. CASE ReadSocket(id)
  <2>1. PICK k \in 1..Len(toSender) :
          /\ socketReader' = [socketReader EXCEPT ![id] = toSender[k]]
          /\ Received(toSender, k)
    BY <1>1 DEF ReadSocket
  <2>2. toSender[k] \in Answers /\ toSender' \in Seq(Answers) /\ mixups' \in 0..MaxMixups
    BY <2>1, TakenFromSender DEF IInv
  <2>3. NetOK' /\ errors' \in {errors, errors + 1}
    BY <1>1, <2>2, NetworkBounds DEF ReadSocket, IInv, NetOK, NetworkTypeOK
  <2>4. SenderOK'
    BY <1>1, <2>1, <2>2 DEF ReadSocket, IInv, SenderOK, writeVars
  <2> QED BY <1>1, <2>3, <2>4, ReceiverFrame DEF ReadSocket, IInv
<1>2. CASE HandleAck(id)
  <2>1. NetOK' /\ errors' \in {errors, errors + 1}
    BY <1>2, NetFrame DEF HandleAck, IInv
  <2>2. SenderOK'
    BY <1>2 DEF HandleAck, IInv, SenderOK, writeVars
  <2> QED BY <1>2, <2>1, <2>2, ReceiverFrame DEF HandleAck, IInv
<1>3. CASE SetState(id)
  <2>1. NetOK' /\ errors' \in {errors, errors + 1}
    BY <1>3, NetFrame DEF SetState, IInv
  <2>2. SenderOK'
    BY <1>3 DEF SetState, IInv, SenderOK, writeVars
  <2> QED BY <1>3, <2>1, <2>2, ReceiverFrame DEF SetState, IInv
<1> QED BY <1>1, <1>2, <1>3 DEF HandlerStep
-----------------------------------------------------------------------------
(* The receiver's steps.                                                   *)

LEMMA ReadStepInv ==
  ASSUME IInv, ReadStep
  PROVE  IInv'
<1>0. errors \in Nat /\ tickers \in Nat /\ rounds \in Nat /\ rounds <= tickers
  BY NetworkBounds DEF IInv, ReceiverOK, NetOK, NetworkTypeOK
<1>1. CASE Accept
  <2>1. PICK k \in 1..Len(toReceiver) : Received(toReceiver, k)
    BY <1>1 DEF Accept
  <2>2. NetOK'
    BY <1>1, <2>1, TakenFromReceiver DEF Accept, IInv, NetOK, NetworkTypeOK
  <2>3. /\ UNCHANGED <<delivered, packetChan, readId, highest, locked, tickers, rounds, errors>>
        /\ rpc = "accept" /\ rpc' = "idle" /\ UNCHANGED sendVars
    BY <1>1 DEF Accept, contextVars, tickVars
  <2>4. ReceiverOK' /\ TickersStop' /\ RoundHasLock'
    BY <2>3 DEF IInv, ReceiverOK, TickersStop, RoundHasLock
  <2> QED BY <2>2, <2>3, <2>4, SenderFrame DEF IInv
<1>2. CASE AwaitHandshake
  <2>1. PICK k \in 1..Len(toReceiver) :
          /\ toReceiver[k].kind = "handshake"
          /\ readId' = toReceiver[k].id
          /\ Received(toReceiver, k)
    BY <1>2 DEF AwaitHandshake
  <2>2. /\ toReceiver[k] \in PacketsSent
        /\ toReceiver' \in Seq(PacketsSent) /\ mixups' \in 0..MaxMixups
    BY <2>1, TakenFromReceiver DEF IInv
  <2>3. toSender' \in Seq(Answers) /\ losses' \in 0..MaxLosses
    BY <1>2, SentToSender DEF AwaitHandshake, SendAnswer, IInv, Answers
  <2>4. /\ UNCHANGED <<delivered, packetChan, rounds, errors>>
        /\ rpc = "idle" /\ rpc' = "reading"
        /\ highest' = 0 /\ locked' = FALSE /\ tickers' = tickers + 1
        /\ UNCHANGED sendVars
    BY <1>2 DEF AwaitHandshake
  <2>5. NetOK'
    BY <2>2, <2>3, <2>4 DEF IInv, NetOK, NetworkTypeOK
  <2>6. readId' \in 0..(MaxParts + 1)
    BY <2>1, <2>2, ConnectionAssumption DEF PacketsSent, HandshakeFor, DataOf, PartIds
  <2>7. ReceiverOK' /\ TickersStop'
    <3>1. TickersStop'
      BY <1>0, <2>4 DEF IInv, TickersStop
    <3>2. tickers' \in Nat /\ rounds' \in Nat /\ rounds' <= tickers' /\ highest' \in 0..1
      BY <1>0, <2>4
    <3>3. locked' \in BOOLEAN
      BY <2>4, Zenon
    <3> QED BY <2>4, <2>6, <3>1, <3>2, <3>3 DEF IInv, ReceiverOK
  <2>8. RoundHasLock'
    <3>1. errors = 0 => tickers = 0
      BY <1>0, <2>4 DEF IInv, TickersStop
    <3> QED BY <1>0, <2>4, <3>1 DEF RoundHasLock
  <2> QED BY <2>4, <2>5, <2>7, <2>8, SenderFrame DEF IInv
<1>3. CASE NoHandshake
  <2>1. PICK k \in 1..Len(toReceiver) : Received(toReceiver, k)
    BY <1>3 DEF NoHandshake
  <2>2. NetOK' /\ errors' \in {errors, errors + 1}
    BY <1>0, <1>3, <2>1, TakenFromReceiver DEF NoHandshake, IInv, NetOK, NetworkTypeOK
  <2> QED BY <1>3, <2>2, SenderFrame, ReceiverFrame DEF NoHandshake, IInv
<1>4. CASE ReadPart
  <2>1. PICK k \in 1..Len(toReceiver) :
          toReceiver[k] = DataOf(readId) /\ Received(toReceiver, k)
    BY <1>4 DEF ReadPart
  <2>2. toReceiver[k] \in PacketsSent
    BY <2>1, TakenFromReceiver DEF IInv
  <2>3. NetOK'
    BY <1>4, <2>1, TakenFromReceiver DEF ReadPart, IInv, NetOK, NetworkTypeOK
  <2>4. readId \in PartIds
    <3>1. DataOf(readId).kind = "data" /\ DataOf(readId).id = readId
      BY DEF DataOf
    <3>2. \A id : HandshakeFor(id).kind = "handshake" /\ DataOf(id).id = id
      BY DEF HandshakeFor, DataOf
    <3> QED BY <2>1, <2>2, <3>1, <3>2 DEF PacketsSent
  <2>5. /\ UNCHANGED <<packetChan, readId, locked, tickers, rounds, errors>>
        /\ rpc = "reading" /\ rpc' = "finish" /\ highest' = 1
        /\ delivered' = Append(delivered, readId) /\ UNCHANGED sendVars
    BY <1>4 DEF ReadPart, tickVars
  <2>6. delivered' \in Seq({0} \cup PartIds)
    <3>1. delivered \in Seq({0} \cup PartIds) /\ readId \in {0} \cup PartIds
      BY <2>4 DEF IInv, ReceiverOK
    <3>2. Append(delivered, readId) \in Seq({0} \cup PartIds)
      BY <3>1, AppendProperties, Zenon
    <3> QED BY <2>5, <3>2
  <2>7. ReceiverOK' /\ TickersStop' /\ RoundHasLock'
    BY <2>5, <2>6 DEF IInv, ReceiverOK, TickersStop, RoundHasLock
  <2> QED BY <2>3, <2>5, <2>7, SenderFrame DEF IInv
<1>5. CASE ReadRefused
  <2>1. PICK k \in 1..Len(toReceiver) : Received(toReceiver, k)
    BY <1>5 DEF ReadRefused
  <2>2. NetOK'
    BY <1>5, <2>1, TakenFromReceiver DEF ReadRefused, IInv, NetOK, NetworkTypeOK
  <2>3. /\ UNCHANGED <<readId, highest, locked, tickers, rounds, errors>>
        /\ rpc = "reading" /\ rpc' \in {"finish", "blocked"} /\ UNCHANGED sendVars
    BY <1>5 DEF ReadRefused, contextVars, tickVars
  <2>4. delivered' \in Seq({0} \cup PartIds) /\ packetChan' \in 0..PacketChanCap
    <3>1. delivered \in Seq({0} \cup PartIds) /\ packetChan \in 0..PacketChanCap
      BY DEF IInv, ReceiverOK
    <3>2. Append(delivered, 0) \in Seq({0} \cup PartIds)
      BY <3>1, AppendProperties, Zenon
    <3>3. CASE PacketChanHasRoom
      <4>1. delivered' = Append(delivered, 0) /\ packetChan' = packetChan + 1
        BY <1>5, <3>3 DEF ReadRefused
      <4>2. packetChan' \in 0..PacketChanCap
        BY <3>1, <3>3, <4>1, ConnectionAssumption DEF PacketChanHasRoom
      <4> QED BY <3>2, <4>1, <4>2
    <3>4. CASE ~PacketChanHasRoom
      BY <1>5, <3>1, <3>4 DEF ReadRefused
    <3> QED BY <3>3, <3>4
  <2>5. ReceiverOK' /\ TickersStop' /\ RoundHasLock'
    BY <2>3, <2>4 DEF IInv, ReceiverOK, TickersStop, RoundHasLock
  <2> QED BY <2>2, <2>3, <2>5, SenderFrame DEF IInv
<1>6. CASE SendPartFinish
  <2>1. NetOK'
    BY <1>6, SentToSender DEF SendPartFinish, IInv, NetOK, NetworkTypeOK, Answers
  <2>2. /\ UNCHANGED <<delivered, packetChan, readId, highest, locked, tickers, rounds, errors>>
        /\ rpc = "finish" /\ rpc' = "stop" /\ UNCHANGED sendVars
    BY <1>6 DEF SendPartFinish, contextVars, tickVars
  <2>3. ReceiverOK' /\ TickersStop' /\ RoundHasLock'
    BY <2>2 DEF IInv, ReceiverOK, TickersStop, RoundHasLock
  <2> QED BY <2>1, <2>2, <2>3, SenderFrame DEF IInv
<1> QED BY <1>1, <1>2, <1>3, <1>4, <1>5, <1>6 DEF ReadStep

LEMMA StopInv ==
  ASSUME IInv, StopRetransfers
  PROVE  IInv'
<1>1. NetOK' /\ errors' = errors /\ errors \in Nat
  BY NetFrame DEF StopRetransfers, IInv
<1>2. /\ UNCHANGED <<delivered, packetChan, readId, highest, locked, rounds, sendVars>>
      /\ rpc = "stop" /\ rpc' = "idle" /\ tickers > rounds /\ tickers' = tickers - 1
  BY DEF StopRetransfers, TickerEnds, contextVars
<1>3. ReceiverOK' /\ TickersStop' /\ RoundHasLock'
  BY <1>1, <1>2 DEF IInv, ReceiverOK, TickersStop, RoundHasLock
<1> QED BY <1>1, <1>2, <1>3, SenderFrame DEF IInv

LEMMA RoundInv ==
  ASSUME IInv, Tick \/ RoundEnds
  PROVE  IInv'
<1>0. errors \in Nat /\ tickers \in Nat /\ rounds \in Nat /\ rounds <= tickers
      /\ locked \in BOOLEAN
  BY NetworkBounds DEF IInv, ReceiverOK, NetOK, NetworkTypeOK
<1>1. CASE Tick
  <2>1. NetOK'
    BY <1>1, SentToSender DEF Tick, IInv, NetOK, NetworkTypeOK, Answers
  <2>2. /\ UNCHANGED <<rpc, delivered, packetChan, readId, highest, tickers, errors, sendVars>>
        /\ tickers > rounds /\ ~locked /\ locked' = TRUE /\ rounds' = rounds + 1
    BY <1>1 DEF Tick, readVars
  <2>3. ReceiverOK' /\ TickersStop' /\ RoundHasLock'
    BY <1>0, <2>2 DEF IInv, ReceiverOK, TickersStop, RoundHasLock
  <2> QED BY <2>1, <2>2, <2>3, SenderFrame DEF IInv
<1>2. CASE RoundEnds
  <2>1. NetOK' /\ errors' = errors
    BY <1>2, NetFrame DEF RoundEnds, IInv
  <2>2. /\ UNCHANGED <<delivered, packetChan, readId, highest, tickers, sendVars>>
        /\ rounds > 0 /\ rounds' = rounds - 1 /\ locked' = FALSE
        /\ rpc' = IF locked THEN rpc ELSE "crashed"
    BY <1>2 DEF RoundEnds
  <2>3. ReceiverOK'
    <3>1. tickers' \in Nat /\ rounds' \in Nat /\ rounds' <= tickers'
      BY <1>0, <2>2
    <3>2. locked' \in BOOLEAN
      BY <2>2, Zenon
    <3> QED BY <2>2, <3>1, <3>2 DEF IInv, ReceiverOK
  <2>4. TickersStop'
    BY <1>0, <2>1, <2>2 DEF IInv, TickersStop
  <2>5. RoundHasLock'
    BY <1>0, <2>1, <2>2 DEF IInv, RoundHasLock
  <2> QED BY <2>1, <2>2, <2>3, <2>4, <2>5, SenderFrame DEF IInv
<1> QED BY <1>1, <1>2

LEMMA SocketFailsInv ==
  ASSUME IInv, SocketFails
  PROVE  IInv'
<1>1. CASE AnswerFails
  <2>1. NetOK' /\ errors' \in {errors, errors + 1}
    BY <1>1, CallFailed DEF AnswerFails, IInv
  <2>2. SenderOK'
    BY <1>1 DEF AnswerFails, IInv, SenderOK, handleVars
  <2> QED BY <1>1, <2>1, <2>2, ReceiverFrame DEF AnswerFails, IInv
<1>2. CASE WriteFails
  <2>1. NetOK' /\ errors' \in {errors, errors + 1}
    BY <1>2, CallFailed DEF WriteFails, IInv
  <2>2. SenderOK'
    BY <1>2 DEF WriteFails, IInv, SenderOK, handleVars
  <2> QED BY <1>2, <2>1, <2>2, ReceiverFrame DEF WriteFails, IInv
<1>3. CASE AcceptFails \/ ReadFails
  <2>1. /\ NetOK'
        /\ errors \in Nat /\ errors' = errors + 1 /\ errors' \in Nat
    BY <1>3, CallFailed DEF AcceptFails, ReadFails, IInv
  <2>2. /\ UNCHANGED <<delivered, packetChan, readId, highest, locked, tickers, rounds, sendVars>>
        /\ rpc \in {"accept", "reading"} /\ rpc' = "idle"
    BY <1>3 DEF AcceptFails, ReadFails, contextVars, tickVars
  <2>3. ReceiverOK' /\ TickersStop' /\ RoundHasLock'
    BY <2>1, <2>2 DEF IInv, ReceiverOK, TickersStop, RoundHasLock
  <2> QED BY <2>1, <2>2, <2>3, SenderFrame DEF IInv
<1>4. CASE \E id \in PartIds : ReadSocketFails(id)
  <2>1. PICK id \in PartIds : ReadSocketFails(id)
    BY <1>4
  <2>2. NetOK' /\ errors' \in {errors, errors + 1}
    BY <2>1, CallFailed DEF ReadSocketFails, IInv
  <2>3. SenderOK'
    BY <2>1 DEF ReadSocketFails, IInv, SenderOK, writeVars
  <2> QED BY <2>1, <2>2, <2>3, ReceiverFrame DEF ReadSocketFails, IInv
<1> QED BY <1>1, <1>2, <1>3, <1>4 DEF SocketFails

LEMMA NextInv == IInv /\ [Next]_vars => IInv'
<1> SUFFICES ASSUME IInv, [Next]_vars PROVE IInv'
  OBVIOUS
<1>1. CASE UNCHANGED vars
  <2>1. UNCHANGED sendVars /\ UNCHANGED recvVars /\ UNCHANGED <<toReceiver, toSender, faultVars>>
    BY <1>1 DEF vars
  <2> QED BY <2>1, SenderFrame, ReceiverFrame, NetFrame DEF IInv
<1> QED
  BY <1>1, WriteStepInv, HandlerStepInv, ReadStepInv, StopInv, RoundInv, SocketFailsInv
  DEF Next

\* The invariant holds in every state of every behaviour.
LEMMA Invariant == Spec => []IInv
BY InitInv, NextInv, PTL DEF Spec

\* The connection's state keeps its types.
THEOREM TypeCorrect == Spec => []TypeOK
<1>1. IInv => TypeOK
  <2> SUFFICES ASSUME IInv PROVE TypeOK
    OBVIOUS
  <2> DEFINE Sendable == [kind : {"handshake", "data"}, id : 1..(MaxParts + 1)]
  <2>1. PacketsSent \subseteq Sendable
    BY ConnectionAssumption DEF PacketsSent, HandshakeFor, DataOf, PartIds
  <2>2. toReceiver \in Seq(PacketsSent)
    BY DEF IInv, NetOK
  <2> HIDE DEF Sendable
  <2>3. toReceiver \in Seq(Sendable)
    BY <2>1, <2>2
  <2> QED BY <2>3 DEF IInv, SenderOK, ReceiverOK, NetOK, TypeOK, Sendable, Answers
<1> QED BY <1>1, Invariant, PTL

\* FinishReadpart ends the requestRetransfers of its part (conn.go:115): there
\* is at most one more of them than calls that failed, and between Reads none
\* more.
THEOREM TickersAreStopped == Spec => []TickersStop
BY Invariant, PTL DEF IInv

\* Unlocking a PartContext that is not locked, which ends the process, takes a
\* call that failed (controlplane.go:442).
THEOREM UnlocksOnlyItsOwn == Spec => []UnlocksItsOwn
<1>1. IInv => UnlocksItsOwn
  BY NetworkBounds DEF IInv, NetOK, NetworkTypeOK, RoundHasLock, UnlocksItsOwn
<1> QED BY <1>1, Invariant, PTL
-----------------------------------------------------------------------------
(* While the network is clean.                                             *)
(*                                                                         *)
(* SetState keeps the dataplane's mutex for good, so at most one Write     *)
(* returns and a connection never gets past its second part, 3.  What can  *)
(* be on its way to the receiver, and where both sides then are, is given  *)
(* phase by phase.                                                         *)

\* A goroutine has the dataplane's mutex, for good.
Stopped == \E id \in PartIds : handler[id] = "stopping"

\* A finish message is under way or has been handled.
FinishSeen ==
  \/ \E k \in 1..Len(toSender) : toSender[k] = "finish"
  \/ \E id \in PartIds : socketReader[id] = "finish" \/ handler[id] \in {"locking", "stopping"}

\* The sender waits for the answer to its handshake or goes on without having
\* sent its packet yet; it has sent the packet.
BeforePacket == wpc \in {"answer", "start", "writing"}
AfterPacket  == wpc \in {"written", "loop"}

H1 == HandshakeFor(1)
H2 == HandshakeFor(2)
D2 == DataOf(2)
H3 == HandshakeFor(3)
D3 == DataOf(3)

\* Accept is waiting.
AtAccept ==
  /\ rpc = "accept" /\ delivered = <<>> /\ toSender = <<>>
  /\ \/ wpc = "dial" /\ toReceiver = <<>>
     \/ wpc = "idle" /\ currentPartId = 1 /\ toReceiver \in {<<>>, <<H1>>}
     \/ wpc = "answer" /\ currentPartId = 2
        /\ toReceiver \in {<<>>, <<H1>>, <<H2>>, <<H1, H2>>}

\* The first Read waits for its handshake.
AtFirstHandshake ==
  /\ rpc = "idle" /\ delivered = <<>> /\ toSender = <<>>
  /\ \/ wpc = "idle" /\ currentPartId = 1 /\ toReceiver = <<>>
     \/ wpc = "answer" /\ currentPartId = 2 /\ toReceiver \in {<<>>, <<H2>>}

\* The first Read waits for its packet.
AtFirstPacket ==
  /\ rpc = "reading" /\ delivered = <<>> /\ readId = 2 /\ currentPartId = 2
  /\ \/ BeforePacket /\ toReceiver = <<>>
     \/ AfterPacket /\ toReceiver \in {<<>>, <<D2>>}

\* The first Read has its packet, and the second may wait for its handshake.
AtSecondHandshake ==
  /\ rpc \in {"finish", "stop", "idle"} /\ delivered = <<2>>
  /\ \/ currentPartId = 2 /\ wpc \in {"written", "loop", "idle"} /\ toReceiver = <<>>
     \/ /\ currentPartId = 3 /\ rpc # "finish"
        /\ \/ BeforePacket /\ toReceiver \in {<<>>, <<H3>>}
           \/ AfterPacket /\ toReceiver \in {<<>>, <<H3>>, <<D3>>, <<H3, D3>>}

\* The second Read waits for its packet.
AtSecondPacket ==
  /\ rpc = "reading" /\ delivered = <<2>> /\ readId = 3 /\ currentPartId = 3
  /\ \/ BeforePacket /\ toReceiver = <<>>
     \/ AfterPacket /\ toReceiver \in {<<>>, <<D3>>}

\* The second Read has its packet.
AtEnd ==
  /\ rpc \in {"finish", "stop", "idle"} /\ delivered = <<2, 3>>
  /\ currentPartId = 3 /\ AfterPacket /\ toReceiver = <<>>

Phase ==
  \/ AtAccept \/ AtFirstHandshake \/ AtFirstPacket
  \/ AtSecondHandshake \/ AtSecondPacket \/ AtEnd

\* The Writes that have returned, and what made them.
WritesReturned ==
  /\ wpc = "dial" => currentPartId = 0
  /\ returned = IF currentPartId = 3 \/ (currentPartId = 2 /\ wpc = "idle") THEN {2} ELSE {}
  /\ returned # {} => Stopped
  /\ wpc = "loop" /\ dpState = "pending" => Stopped /\ currentPartId = 2

\* A finish message takes a Read that has its packet.
FinishAfterRead ==
  FinishSeen => \/ delivered = <<2, 3>>
                \/ delivered = <<2>> /\ rpc # "finish"

\* HandleAckPackets is started once per part, after the handshake.
NotStarted ==
  \A id \in PartIds :
    id > currentPartId \/ (id = currentPartId /\ wpc \in {"answer", "start"})
      => handler[id] = "none"

CleanInv == Phase /\ WritesReturned /\ FinishAfterRead /\ NotStarted

PInv == IInv /\ (Clean => CleanInv)

\* Handshakes and data packets are told apart.
LEMMA Kinds ==
  /\ H1.kind = "handshake" /\ H2.kind = "handshake" /\ H3.kind = "handshake"
  /\ H2.id = 2 /\ H3.id = 3
  /\ D3.kind # "handshake"
BY DEF H1, H2, H3, D3, HandshakeFor, DataOf

LEMMA InitClean == Init => CleanInv
<1> SUFFICES ASSUME Init PROVE CleanInv
  OBVIOUS
<1>1. Phase
  BY DEF Init, Phase, AtAccept
<1>2. WritesReturned /\ FinishAfterRead /\ NotStarted
  BY DEF Init, WritesReturned, FinishAfterRead, FinishSeen, NotStarted
<1> QED BY <1>1, <1>2 DEF CleanInv

-----------------------------------------------------------------------------
(* Every clean step keeps CleanInv and is a step of PartStream, or none.   *)

StreamStep == [PS!Next]_(PS!vars)

\* A step that PartStream does not see.
LEMMA Unseen ==
  ASSUME UNCHANGED <<currentPartId, delivered, returned>>
  PROVE  StreamStep
BY DEF StreamStep, PS!vars

LEMMA DialClean ==
  ASSUME IInv, Clean => CleanInv, Dial, Clean'
  PROVE  CleanInv' /\ StreamStep
<1>1. /\ UNCHANGED <<returned, dpState, socketReader, handler, rpc, delivered, readId, toSender>>
      /\ CleanInv /\ wpc = "dial" /\ wpc' = "idle" /\ currentPartId' = 1
      /\ toReceiver' \in {toReceiver, Append(toReceiver, H1)}
  BY DEF Dial, Clean, handleVars, recvVars, Sent, H1
<1>2. /\ rpc = "accept" /\ delivered = <<>> /\ toSender = <<>> /\ toReceiver = <<>>
      /\ currentPartId = 0
  BY <1>1 DEF CleanInv, Phase, AtAccept, AtFirstHandshake, AtFirstPacket,
              AtSecondHandshake, AtSecondPacket, AtEnd, BeforePacket, AfterPacket,
              WritesReturned
<1>3. toReceiver' \in {<<>>, <<H1>>}
  BY <1>1, <1>2, ShortSeqs
<1>4. Phase'
  BY <1>1, <1>2, <1>3 DEF Phase, AtAccept
<1>5. WritesReturned' /\ FinishAfterRead'
  BY <1>1, <1>2 DEF CleanInv, WritesReturned, FinishAfterRead, FinishSeen, Stopped
<1>6. NotStarted'
  BY <1>1, <1>2 DEF CleanInv, NotStarted, PartIds
<1>7. StreamStep
  <2>1. PartIds \cap (1..0) = PartIds \cap (1..1)
    BY DEF PartIds
  <2> QED BY <1>1, <1>2, <2>1 DEF StreamStep, PS!vars
<1> QED BY <1>4, <1>5, <1>6, <1>7 DEF CleanInv

LEMMA HandshakeClean ==
  ASSUME IInv, Clean => CleanInv, Handshake, Clean'
  PROVE  CleanInv' /\ StreamStep
<1>1. /\ UNCHANGED <<returned, dpState, socketReader, handler, rpc, delivered, readId, toSender>>
      /\ CleanInv /\ wpc = "idle" /\ wpc' = "answer" /\ currentPartId' = currentPartId + 1
      /\ currentPartId + 1 \in PartIds
      /\ toReceiver' \in {toReceiver, Append(toReceiver, HandshakeFor(currentPartId + 1))}
  BY DEF Handshake, Clean, handleVars, recvVars, Sent
<1>0. NotStarted'
  BY <1>1 DEF CleanInv, NotStarted, PartIds, IInv, SenderOK
<1>2. CASE currentPartId = 1
  <2>1. /\ \/ AtAccept /\ toReceiver \in {<<>>, <<H1>>}
           \/ AtFirstHandshake /\ toReceiver = <<>>
        /\ returned = {}
    BY <1>1, <1>2 DEF CleanInv, Phase, AtAccept, AtFirstHandshake, AtFirstPacket,
              AtSecondHandshake, AtSecondPacket, AtEnd, BeforePacket, AfterPacket,
              WritesReturned
  <2>2. toReceiver' \in {toReceiver, Append(toReceiver, H2)} /\ currentPartId' = 2
    BY <1>1, <1>2 DEF H2
  <2>3. AtAccept' \/ AtFirstHandshake'
    BY <1>1, <2>1, <2>2, ShortSeqs DEF AtAccept, AtFirstHandshake
  <2>4. WritesReturned' /\ FinishAfterRead'
    BY <1>1, <2>1, <2>2 DEF CleanInv, WritesReturned, FinishAfterRead, FinishSeen, Stopped
  <2>5. StreamStep
    <3>1. PartIds \cap (1..1) = {} /\ PartIds \cap (1..2) = {2} /\ 2 \in PartIds
      BY <1>1, <1>2, ConnectionAssumption DEF PartIds
    <3>2. PS!BeginWrite(2)
      BY <1>1, <1>2, <2>1, <2>2, <3>1 DEF PS!BeginWrite
    <3> QED BY <3>1, <3>2 DEF StreamStep, PS!Next
  <2> QED BY <1>0, <2>3, <2>4, <2>5 DEF CleanInv, Phase
<1>3. CASE currentPartId # 1
  <2>1. /\ AtSecondHandshake /\ toReceiver = <<>> /\ currentPartId = 2
        /\ returned = {2} /\ Stopped
    BY <1>1, <1>3 DEF CleanInv, Phase, AtAccept, AtFirstHandshake, AtFirstPacket,
              AtSecondHandshake, AtSecondPacket, AtEnd, BeforePacket, AfterPacket,
              WritesReturned
  <2>2. toReceiver' \in {<<>>, <<H3>>} /\ currentPartId' = 3
    BY <1>1, <2>1, ShortSeqs DEF H3
  <2>3. rpc # "finish" /\ rpc \in {"stop", "idle"}
    BY <1>1, <2>1, ShortSeqs DEF CleanInv, FinishAfterRead, FinishSeen, Stopped, AtSecondHandshake
  <2>4. AtSecondHandshake'
    BY <1>1, <2>1, <2>2, <2>3 DEF AtSecondHandshake, BeforePacket
  <2>5. WritesReturned' /\ FinishAfterRead'
    BY <1>1, <2>1, <2>2 DEF CleanInv, WritesReturned, FinishAfterRead, FinishSeen, Stopped
  <2>6. StreamStep
    <3>1. PartIds \cap (1..2) = {2} /\ PartIds \cap (1..3) = {2, 3} /\ 3 \in PartIds
      BY <1>1, <2>1, ConnectionAssumption DEF PartIds
    <3>2. PS!BeginWrite(3)
      BY <1>1, <2>1, <2>2, <3>1 DEF PS!BeginWrite
    <3> QED BY <3>1, <3>2 DEF StreamStep, PS!Next
  <2> QED BY <1>0, <2>4, <2>5, <2>6 DEF CleanInv, Phase
<1> QED BY <1>2, <1>3

LEMMA TakeAnswerClean ==
  ASSUME IInv, Clean => CleanInv, TakeAnswer, Clean'
  PROVE  CleanInv' /\ StreamStep
<1>1. PICK k \in 1..Len(toSender) : Received(toSender, k)
  BY DEF TakeAnswer
<1>2. mixups = 0 /\ k = 1 /\ toSender' = Tail(toSender) /\ toSender \in Seq(Answers)
  BY <1>1, TakenFromSender DEF IInv, Clean, NetOK
<1>3. /\ UNCHANGED <<currentPartId, returned, dpState, socketReader, handler, rpc,
                     delivered, readId, toReceiver>>
      /\ CleanInv /\ wpc = "answer" /\ wpc' = "start" /\ toSender # <<>>
  BY <1>1, <1>2 DEF TakeAnswer, Clean, handleVars, recvVars
<1>4. Phase'
  BY <1>3 DEF CleanInv, Phase, AtAccept, AtFirstHandshake, AtFirstPacket, AtSecondHandshake,
              AtSecondPacket, AtEnd, BeforePacket, AfterPacket
<1>5. WritesReturned' /\ NotStarted'
  BY <1>3 DEF CleanInv, WritesReturned, Stopped, NotStarted
<1>6. FinishAfterRead'
  <2>1. FinishSeen' => FinishSeen
    BY <1>2, <1>3 DEF FinishSeen
  <2> QED BY <1>3, <2>1 DEF CleanInv, FinishAfterRead
<1> QED BY <1>3, <1>4, <1>5, <1>6, Unseen DEF CleanInv

LEMMA StartWritepartClean ==
  ASSUME IInv, Clean => CleanInv, StartWritepart, Clean'
  PROVE  CleanInv' /\ StreamStep
<1>1. /\ UNCHANGED <<currentPartId, returned, dpState, rpc, delivered, readId, toReceiver,
                     toSender>>
      /\ CleanInv /\ wpc = "start" /\ wpc' = "writing" /\ currentPartId \in PartIds
      /\ socketReader' = [socketReader EXCEPT ![currentPartId] = "reading"]
      /\ handler' = [handler EXCEPT ![currentPartId] = "select"]
      /\ socketReader \in [PartIds -> {"none", "reading", "error"} \cup Answers]
      /\ handler \in [PartIds -> {"none", "select", "locking", "stopping"}]
  BY DEF StartWritepart, Clean, recvVars, faultVars, IInv, SenderOK
<1>2. Phase'
  BY <1>1 DEF CleanInv, Phase, AtAccept, AtFirstHandshake, AtFirstPacket, AtSecondHandshake,
              AtSecondPacket, AtEnd, BeforePacket, AfterPacket
<1>3. handler[currentPartId] = "none"
  BY <1>1 DEF CleanInv, NotStarted
<1>4. /\ Stopped => Stopped'
      /\ FinishSeen' => FinishSeen
  <2>1. \A id \in PartIds : /\ handler'[id] \in {handler[id], "select"}
                            /\ handler[id] # "none" => handler'[id] = handler[id]
                            /\ socketReader'[id] \in {socketReader[id], "reading"}
    BY <1>1, <1>3
  <2> QED BY <1>1, <2>1 DEF Stopped, FinishSeen
<1>5. WritesReturned' /\ FinishAfterRead'
  BY <1>1, <1>4 DEF CleanInv, WritesReturned, FinishAfterRead
<1>6. NotStarted'
  BY <1>1, ConnectionAssumption DEF CleanInv, NotStarted, PartIds
<1> QED BY <1>1, <1>2, <1>5, <1>6, Unseen DEF CleanInv

LEMMA WritePartClean ==
  ASSUME IInv, Clean => CleanInv, WritePart, Clean'
  PROVE  CleanInv' /\ StreamStep
<1>1. /\ UNCHANGED <<currentPartId, returned, dpState, socketReader, handler, rpc,
                     delivered, readId, toSender>>
      /\ CleanInv /\ wpc = "writing" /\ wpc' = "written"
      /\ toReceiver' \in {toReceiver, Append(toReceiver, DataOf(currentPartId))}
  BY DEF WritePart, Clean, handleVars, recvVars, Sent
<1>2. ASSUME AtFirstPacket PROVE AtFirstPacket'
  <2>1. toReceiver' \in {<<>>, <<D2>>}
    BY <1>1, <1>2, ShortSeqs DEF AtFirstPacket, BeforePacket, AfterPacket, D2
  <2> QED BY <1>1, <1>2, <2>1 DEF AtFirstPacket, AfterPacket
<1>3. ASSUME AtSecondHandshake PROVE AtSecondHandshake'
  <2>1. currentPartId = 3 /\ rpc # "finish" /\ toReceiver \in {<<>>, <<H3>>}
    BY <1>1, <1>3 DEF AtSecondHandshake, BeforePacket, AfterPacket
  <2>2. toReceiver' \in {toReceiver, Append(toReceiver, D3)}
    BY <1>1, <2>1 DEF D3
  <2>3. toReceiver' \in {<<>>, <<H3>>, <<D3>>, <<H3, D3>>}
    BY <2>1, <2>2, ShortSeqs
  <2> QED BY <1>1, <1>3, <2>1, <2>3 DEF AtSecondHandshake, AfterPacket
<1>4. ASSUME AtSecondPacket PROVE AtSecondPacket'
  <2>1. toReceiver' \in {<<>>, <<D3>>}
    BY <1>1, <1>4, ShortSeqs DEF AtSecondPacket, BeforePacket, AfterPacket, D3
  <2> QED BY <1>1, <1>4, <2>1 DEF AtSecondPacket, AfterPacket
<1>5. Phase'
  BY <1>1, <1>2, <1>3, <1>4
  DEF CleanInv, Phase, AtAccept, AtFirstHandshake, AtEnd, AfterPacket
<1>6. WritesReturned' /\ FinishAfterRead' /\ NotStarted'
  BY <1>1 DEF CleanInv, WritesReturned, FinishAfterRead, FinishSeen, Stopped, NotStarted
<1> QED BY <1>1, <1>5, <1>6, Unseen DEF CleanInv

LEMMA EnterRetransferClean ==
  ASSUME IInv, Clean => CleanInv, EnterRetransfer, Clean'
  PROVE  CleanInv' /\ StreamStep
<1>1. /\ UNCHANGED <<currentPartId, returned, socketReader, handler, rpc, delivered, readId,
                     toReceiver, toSender>>
      /\ CleanInv /\ wpc = "written" /\ wpc' = "loop" /\ dpState' = "retransfer"
  BY DEF EnterRetransfer, Clean, recvVars, faultVars
<1>2. Phase'
  BY <1>1 DEF CleanInv, Phase, AtAccept, AtFirstHandshake, AtFirstPacket, AtSecondHandshake,
              AtSecondPacket, AtEnd, BeforePacket, AfterPacket
<1>3. WritesReturned' /\ FinishAfterRead' /\ NotStarted'
  BY <1>1 DEF CleanInv, WritesReturned, FinishAfterRead, FinishSeen, Stopped, NotStarted
<1> QED BY <1>1, <1>2, <1>3, Unseen DEF CleanInv

\* The Write that returns is that of part 2, which has been read.
LEMMA LoopEndsClean ==
  ASSUME IInv, Clean => CleanInv, LoopEnds, Clean'
  PROVE  CleanInv' /\ StreamStep
<1>1. /\ UNCHANGED <<currentPartId, dpState, socketReader, handler, rpc, delivered, readId,
                     toReceiver, toSender>>
      /\ CleanInv /\ wpc = "loop" /\ dpState = "pending" /\ wpc' = "idle"
      /\ returned' = returned \cup {currentPartId} /\ currentPartId \in PartIds
  BY DEF LoopEnds, LoopDone, Clean, recvVars, handleVars, faultVars, IInv, SenderOK
<1>2. Stopped /\ currentPartId = 2 /\ returned = {} /\ FinishSeen
  BY <1>1 DEF CleanInv, WritesReturned, Stopped, FinishSeen
<1>3. AtSecondHandshake /\ delivered = <<2>> /\ toReceiver = <<>>
  BY <1>1, <1>2, ShortSeqs DEF CleanInv, FinishAfterRead, Phase, AtAccept, AtFirstHandshake, AtFirstPacket, AtSecondHandshake,
              AtSecondPacket, AtEnd, BeforePacket, AfterPacket
<1>4. AtSecondHandshake'
  BY <1>1, <1>2, <1>3 DEF AtSecondHandshake
<1>5. WritesReturned' /\ FinishAfterRead' /\ NotStarted'
  BY <1>1, <1>2 DEF CleanInv, WritesReturned, FinishAfterRead, FinishSeen, Stopped, NotStarted
<1>6. StreamStep
  <2>1. 2 \in PartIds \cap (1..2) /\ 2 \in PS!Read
    BY <1>1, <1>2, <1>3, ShortSeqs DEF PS!Read
  <2>2. PS!ReturnWrite(2)
    BY <1>1, <1>2, <2>1 DEF PS!ReturnWrite
  <2> QED BY <2>1, <2>2 DEF StreamStep, PS!Next
<1> QED BY <1>4, <1>5, <1>6 DEF CleanInv, Phase

LEMMA HandlerClean ==
  ASSUME IInv, Clean => CleanInv, NEW id \in PartIds, HandlerStep(id), Clean'
  PROVE  CleanInv' /\ StreamStep
<1>0. /\ socketReader \in [PartIds -> {"none", "reading", "error"} \cup Answers]
      /\ handler \in [PartIds -> {"none", "select", "locking", "stopping"}]
  BY DEF IInv, SenderOK
<1>1. CASE ReadSocket(id)
  <2>1. PICK k \in 1..Len(toSender) :
          /\ socketReader' = [socketReader EXCEPT ![id] = toSender[k]]
          /\ Received(toSender, k)
    BY <1>1 DEF ReadSocket
  <2>2. mixups = 0 /\ k = 1 /\ toSender' = Tail(toSender) /\ toSender \in Seq(Answers)
    BY <2>1, TakenFromSender DEF IInv, Clean, NetOK
  <2>3. /\ UNCHANGED <<wpc, currentPartId, returned, dpState, handler, rpc, delivered,
                       readId, toReceiver>>
        /\ CleanInv /\ toSender # <<>>
    BY <1>1, <2>1, <2>2 DEF ReadSocket, Clean, writeVars, recvVars
  <2>4. Phase'
    BY <2>3 DEF CleanInv, Phase, AtAccept, AtFirstHandshake, AtFirstPacket, AtSecondHandshake,
              AtSecondPacket, AtEnd, BeforePacket, AfterPacket
  <2>5. WritesReturned' /\ NotStarted'
    BY <2>3 DEF CleanInv, WritesReturned, Stopped, NotStarted
  <2>6. FinishSeen' => FinishSeen
    <3>1. \A i \in PartIds : socketReader'[i] \in {socketReader[i], toSender[1]}
      BY <1>0, <2>1, <2>2
    <3>2. 1 \in 1..Len(toSender) /\ \A i \in 1..Len(toSender') : toSender'[i] = toSender[i + 1]
          /\ i + 1 \in 1..Len(toSender)
      BY <2>2, <2>3
    <3> QED BY <2>3, <3>1, <3>2 DEF FinishSeen
  <2>7. FinishAfterRead'
    BY <2>3, <2>6 DEF CleanInv, FinishAfterRead
  <2> QED BY <2>3, <2>4, <2>5, <2>7, Unseen DEF CleanInv
<1>2. CASE HandleAck(id)
  <2>1. /\ UNCHANGED <<wpc, currentPartId, returned, dpState, rpc, delivered, readId,
                       toReceiver, toSender>>
        /\ CleanInv /\ handler[id] = "select"
        /\ handler' = [handler EXCEPT ![id] =
                         IF socketReader[id] = "finish" THEN "locking" ELSE "select"]
        /\ socketReader' = [socketReader EXCEPT ![id] = "reading"]
    BY <1>2 DEF HandleAck, Clean, writeVars, recvVars, faultVars
  <2>2. Phase'
    BY <2>1 DEF CleanInv, Phase, AtAccept, AtFirstHandshake, AtFirstPacket, AtSecondHandshake,
              AtSecondPacket, AtEnd, BeforePacket, AfterPacket
  <2>3. \A i \in PartIds :
          /\ i # id => handler'[i] = handler[i] /\ socketReader'[i] = socketReader[i]
          /\ handler'[id] = IF socketReader[id] = "finish" THEN "locking" ELSE "select"
          /\ socketReader'[id] = "reading"
    BY <1>0, <2>1
  <2>4. (FinishSeen' => FinishSeen) /\ (Stopped => Stopped')
    BY <2>1, <2>3 DEF FinishSeen, Stopped
  <2>5. WritesReturned' /\ FinishAfterRead'
    BY <2>1, <2>4 DEF CleanInv, WritesReturned, FinishAfterRead
  <2>6. NotStarted'
    BY <2>1, <2>3 DEF CleanInv, NotStarted
  <2> QED BY <2>1, <2>2, <2>5, <2>6, Unseen DEF CleanInv
<1>3. CASE SetState(id)
  <2>1. /\ UNCHANGED <<wpc, currentPartId, returned, socketReader, rpc, delivered, readId,
                       toReceiver, toSender>>
        /\ CleanInv /\ handler[id] = "locking" /\ ~Stopped
        /\ handler' = [handler EXCEPT ![id] = "stopping"]
        /\ dpState' = "pending"
    BY <1>3 DEF SetState, Clean, writeVars, recvVars, faultVars, Stopped
  <2>2. Phase'
    BY <2>1 DEF CleanInv, Phase, AtAccept, AtFirstHandshake, AtFirstPacket, AtSecondHandshake,
              AtSecondPacket, AtEnd, BeforePacket, AfterPacket
  <2>3. handler'[id] = "stopping" /\ \A i \in PartIds : i # id => handler'[i] = handler[i]
    BY <1>0, <2>1
  <2>4. FinishSeen /\ Stopped'
    BY <2>1, <2>3 DEF FinishSeen, Stopped
  <2>5. returned = {} /\ currentPartId # 3
    BY <2>1 DEF CleanInv, WritesReturned
  <2>6. wpc = "loop" => currentPartId = 2
    BY <2>1, <2>5 DEF CleanInv, Phase, AtAccept, AtFirstHandshake, AtFirstPacket, AtSecondHandshake,
              AtSecondPacket, AtEnd, BeforePacket, AfterPacket
  <2>7. WritesReturned' /\ FinishAfterRead'
    BY <2>1, <2>4, <2>5, <2>6 DEF CleanInv, WritesReturned, FinishAfterRead
  <2>8. NotStarted'
    BY <2>1, <2>3 DEF CleanInv, NotStarted
  <2> QED BY <2>1, <2>2, <2>7, <2>8, Unseen DEF CleanInv
<1> QED BY <1>1, <1>2, <1>3 DEF HandlerStep

\* The steps of the receiver leave alone what WritesReturned and NotStarted say.
LEMMA SenderUntouched ==
  ASSUME CleanInv, UNCHANGED sendVars
  PROVE  WritesReturned' /\ NotStarted' /\ UNCHANGED <<wpc, currentPartId, returned>>
BY DEF CleanInv, WritesReturned, NotStarted, Stopped, sendVars

\* A message other than the finish message brings none.
LEMMA NoFinishSent ==
  ASSUME IInv, NEW m \in {"answer", "request"}, UNCHANGED sendVars, Sent(toSender, m), FinishSeen'
  PROVE  FinishSeen
<1>1. UNCHANGED <<socketReader, handler>> /\ toSender' \in {toSender, Append(toSender, m)}
      /\ toSender \in Seq(Answers) /\ m \in Answers
  BY DEF sendVars, Sent, IInv, NetOK, Answers
<1>2. /\ Append(toSender, m) \in Seq(Answers)
      /\ Len(Append(toSender, m)) = Len(toSender) + 1
      /\ \A i \in 1..Len(toSender) : Append(toSender, m)[i] = toSender[i]
      /\ Append(toSender, m)[Len(toSender) + 1] = m
  BY <1>1, AppendProperties
<1>3. ASSUME NEW k \in 1..Len(toSender'), toSender'[k] = "finish"
      PROVE  \E i \in 1..Len(toSender) : toSender[i] = "finish"
  BY <1>1, <1>2, <1>3
<1> QED BY <1>1, <1>3 DEF FinishSeen

LEMMA AcceptClean ==
  ASSUME IInv, Clean => CleanInv, Accept, Clean'
  PROVE  CleanInv' /\ StreamStep
<1>1. PICK k \in 1..Len(toReceiver) : Received(toReceiver, k)
  BY DEF Accept
<1>2. /\ mixups = 0 /\ k = 1 /\ toReceiver' = Tail(toReceiver) /\ toReceiver # <<>>
  BY <1>1, TakenFromReceiver DEF IInv, Clean, NetOK
<1>3. /\ UNCHANGED <<delivered, readId, toSender, socketReader, handler>> /\ UNCHANGED sendVars
      /\ CleanInv /\ rpc = "accept" /\ rpc' = "idle"
  BY <1>2 DEF Accept, Clean, contextVars, sendVars
<1>4. WritesReturned' /\ NotStarted' /\ UNCHANGED <<wpc, currentPartId, returned>>
  BY <1>3, SenderUntouched
<1>5. AtAccept
  BY <1>3 DEF CleanInv, Phase, AtAccept, AtFirstHandshake, AtFirstPacket, AtSecondHandshake,
              AtSecondPacket, AtEnd, BeforePacket, AfterPacket
<1>6. AtFirstHandshake'
  <2>1. \/ wpc = "idle" /\ currentPartId = 1 /\ toReceiver = <<H1>>
        \/ wpc = "answer" /\ currentPartId = 2 /\ toReceiver \in {<<H1>>, <<H2>>, <<H1, H2>>}
    BY <1>2, <1>5 DEF AtAccept
  <2>2. Tail(<<H1>>) = <<>> /\ Tail(<<H2>>) = <<>> /\ Tail(<<H1, H2>>) = <<H2>>
    BY ShortSeqs
  <2>3. \/ wpc = "idle" /\ currentPartId = 1 /\ toReceiver' = <<>>
        \/ wpc = "answer" /\ currentPartId = 2 /\ toReceiver' \in {<<>>, <<H2>>}
    BY <1>2, <2>1, <2>2
  <2> QED BY <1>3, <1>4, <1>5, <2>3 DEF AtAccept, AtFirstHandshake
<1>7. FinishAfterRead'
  BY <1>3, <1>5, ShortSeqs DEF CleanInv, FinishAfterRead, FinishSeen, AtAccept
<1> QED BY <1>3, <1>4, <1>6, <1>7, Unseen DEF CleanInv, Phase

LEMMA AwaitHandshakeClean ==
  ASSUME IInv, Clean => CleanInv, AwaitHandshake, Clean'
  PROVE  CleanInv' /\ StreamStep
<1>1. PICK k \in 1..Len(toReceiver) :
        /\ toReceiver[k].kind = "handshake"
        /\ readId' = toReceiver[k].id
        /\ Received(toReceiver, k)
  BY DEF AwaitHandshake
<1>2. /\ mixups = 0 /\ k = 1 /\ toReceiver' = Tail(toReceiver) /\ toReceiver # <<>>
      /\ readId' = toReceiver[1].id /\ toReceiver[1].kind = "handshake"
  BY <1>1, TakenFromReceiver DEF IInv, Clean, NetOK
<1>3. /\ UNCHANGED <<delivered, socketReader, handler>> /\ UNCHANGED sendVars
      /\ CleanInv /\ rpc = "idle" /\ rpc' = "reading" /\ Sent(toSender, "answer")
  BY <1>2 DEF AwaitHandshake, SendAnswer, Clean, sendVars
<1>4. WritesReturned' /\ NotStarted' /\ UNCHANGED <<wpc, currentPartId, returned>>
  BY <1>3, SenderUntouched
<1>5. FinishAfterRead'
  <2>1. FinishSeen' => FinishSeen
    BY <1>3, NoFinishSent
  <2> QED BY <1>3, <2>1 DEF CleanInv, FinishAfterRead
<1>6. AtFirstHandshake \/ (AtSecondHandshake /\ currentPartId = 3)
  BY <1>2, <1>3 DEF CleanInv, Phase, AtAccept, AtFirstHandshake, AtFirstPacket, AtSecondHandshake,
              AtSecondPacket, AtEnd, BeforePacket, AfterPacket
<1>7. CASE AtFirstHandshake
  <2>1. toReceiver = <<H2>> /\ wpc = "answer" /\ currentPartId = 2 /\ delivered = <<>>
    BY <1>2, <1>3, <1>7 DEF AtFirstHandshake
  <2>2. toReceiver' = <<>> /\ readId' = 2
    BY <1>2, <2>1, ShortSeqs, Kinds
  <2>3. AtFirstPacket'
    BY <1>3, <1>4, <2>1, <2>2 DEF AtFirstPacket, BeforePacket
  <2> QED BY <1>3, <1>4, <1>5, <2>3, Unseen DEF CleanInv, Phase
<1>8. CASE AtSecondHandshake /\ currentPartId = 3
  <2>1. /\ delivered = <<2>>
        /\ \/ BeforePacket /\ toReceiver = <<H3>>
           \/ AfterPacket /\ toReceiver \in {<<H3>>, <<D3>>, <<H3, D3>>}
    BY <1>2, <1>8 DEF AtSecondHandshake
  <2>2. toReceiver # <<D3>>
    BY <1>2, ShortSeqs, Kinds
  <2>3. /\ readId' = 3
        /\ \/ BeforePacket /\ toReceiver' = <<>>
           \/ AfterPacket /\ toReceiver' \in {<<>>, <<D3>>}
    <3>1. /\ Tail(<<H3>>) = <<>> /\ Tail(<<H3, D3>>) = <<D3>>
          /\ <<H3>>[1].id = 3 /\ <<H3, D3>>[1].id = 3
      BY ShortSeqs, Kinds
    <3> QED BY <1>2, <2>1, <2>2, <3>1
  <2>4. AtSecondPacket'
    BY <1>3, <1>4, <1>8, <2>1, <2>3 DEF AtSecondPacket, BeforePacket, AfterPacket
  <2> QED BY <1>3, <1>4, <1>5, <2>4, Unseen DEF CleanInv, Phase
<1> QED BY <1>6, <1>7, <1>8

LEMMA NoHandshakeClean ==
  ASSUME IInv, Clean => CleanInv, NoHandshake, Clean'
  PROVE  CleanInv' /\ StreamStep
<1>1. PICK k \in 1..Len(toReceiver) :
        toReceiver[k].kind # "handshake" /\ Received(toReceiver, k)
  BY DEF NoHandshake
<1>2. /\ mixups = 0 /\ k = 1 /\ toReceiver' = Tail(toReceiver) /\ toReceiver # <<>>
      /\ toReceiver[1].kind # "handshake"
  BY <1>1, TakenFromReceiver DEF IInv, Clean, NetOK
<1>3. /\ UNCHANGED <<rpc, delivered, readId, toSender, socketReader, handler>>
      /\ UNCHANGED sendVars /\ CleanInv /\ rpc = "idle"
  BY <1>2 DEF NoHandshake, Clean, recvVars, sendVars
<1>4. WritesReturned' /\ NotStarted' /\ UNCHANGED <<wpc, currentPartId, returned>>
  BY <1>3, SenderUntouched
<1>5. /\ AtSecondHandshake /\ currentPartId = 3
      /\ AfterPacket /\ toReceiver = <<D3>>
  BY <1>2, <1>3, ShortSeqs, Kinds DEF CleanInv, Phase, AtAccept, AtFirstHandshake, AtFirstPacket, AtSecondHandshake,
              AtSecondPacket, AtEnd, BeforePacket, AfterPacket
<1>6. toReceiver' = <<>>
  BY <1>2, <1>5, ShortSeqs
<1>7. AtSecondHandshake'
  BY <1>3, <1>4, <1>5, <1>6 DEF AtSecondHandshake, AfterPacket
<1>8. FinishAfterRead'
  BY <1>3 DEF CleanInv, FinishAfterRead, FinishSeen
<1> QED BY <1>3, <1>4, <1>7, <1>8, Unseen DEF CleanInv, Phase

\* The part read is the next one, and it was not read before.
LEMMA ReadPartClean ==
  ASSUME IInv, Clean => CleanInv, ReadPart, Clean'
  PROVE  CleanInv' /\ StreamStep
<1>1. PICK k \in 1..Len(toReceiver) :
        toReceiver[k] = DataOf(readId) /\ Received(toReceiver, k)
  BY DEF ReadPart
<1>2. /\ mixups = 0 /\ k = 1 /\ toReceiver' = Tail(toReceiver) /\ toReceiver # <<>>
  BY <1>1, TakenFromReceiver DEF IInv, Clean, NetOK
<1>3. /\ UNCHANGED <<readId, toSender, socketReader, handler>> /\ UNCHANGED sendVars
      /\ CleanInv /\ rpc = "reading" /\ rpc' = "finish"
      /\ delivered' = Append(delivered, readId)
  BY <1>2 DEF ReadPart, Clean, sendVars
<1>4. WritesReturned' /\ NotStarted' /\ UNCHANGED <<wpc, currentPartId, returned>>
  BY <1>3, SenderUntouched
<1>5. AtFirstPacket \/ AtSecondPacket
  BY <1>3 DEF CleanInv, Phase, AtAccept, AtFirstHandshake, AtFirstPacket, AtSecondHandshake,
              AtSecondPacket, AtEnd, BeforePacket, AfterPacket
<1>6. currentPartId \in PartIds
  BY <1>5 DEF AtFirstPacket, AtSecondPacket, BeforePacket, AfterPacket, IInv, SenderOK
<1>7. CASE AtFirstPacket
  <2>1. AfterPacket /\ toReceiver = <<D2>> /\ delivered = <<>> /\ readId = 2 /\ currentPartId = 2
    BY <1>2, <1>7 DEF AtFirstPacket
  <2>2. toReceiver' = <<>> /\ delivered' = <<2>>
    BY <1>2, <1>3, <2>1, ShortSeqs
  <2>3. AtSecondHandshake'
    BY <1>3, <1>4, <2>1, <2>2 DEF AtSecondHandshake, AfterPacket
  <2>4. ~FinishSeen
    BY <1>3, <2>1, ShortSeqs DEF CleanInv, FinishAfterRead
  <2>5. FinishAfterRead'
    BY <1>3, <2>4 DEF FinishAfterRead, FinishSeen
  <2>6. StreamStep
    <3>1. 2 \in PartIds \cap (1..2) /\ 2 \notin PS!Read
      BY <1>6, <2>1, ShortSeqs DEF PS!Read
    <3>2. PS!ReadNext(2)
      BY <1>3, <1>4, <2>1, <3>1 DEF PS!ReadNext
    <3> QED BY <3>1, <3>2 DEF StreamStep, PS!Next
  <2> QED BY <1>4, <2>3, <2>5, <2>6 DEF CleanInv, Phase
<1>8. CASE AtSecondPacket
  <2>1. AfterPacket /\ toReceiver = <<D3>> /\ delivered = <<2>> /\ readId = 3 /\ currentPartId = 3
    BY <1>2, <1>8 DEF AtSecondPacket
  <2>2. toReceiver' = <<>> /\ delivered' = <<2, 3>>
    BY <1>2, <1>3, <2>1, ShortSeqs
  <2>3. AtEnd'
    BY <1>3, <1>4, <2>1, <2>2 DEF AtEnd, AfterPacket
  <2>4. FinishAfterRead'
    BY <2>2 DEF FinishAfterRead
  <2>5. StreamStep
    <3>1. 3 \in PartIds \cap (1..3) /\ 3 \notin PS!Read
      BY <1>6, <2>1, ShortSeqs DEF PS!Read
    <3>2. PS!ReadNext(3)
      BY <1>3, <1>4, <2>1, <3>1 DEF PS!ReadNext
    <3> QED BY <3>1, <3>2 DEF StreamStep, PS!Next
  <2> QED BY <1>4, <2>3, <2>4, <2>5 DEF CleanInv, Phase
<1> QED BY <1>5, <1>7, <1>8

\* No packet that Read finds while it waits for its packet is another one.
LEMMA ReadRefusedClean ==
  ASSUME IInv, Clean => CleanInv, ReadRefused, Clean'
  PROVE  FALSE
<1>1. PICK k \in 1..Len(toReceiver) :
        toReceiver[k] # DataOf(readId) /\ Received(toReceiver, k)
  BY DEF ReadRefused
<1>2. /\ mixups = 0 /\ k = 1 /\ toReceiver # <<>> /\ toReceiver[1] # DataOf(readId)
  BY <1>1, TakenFromReceiver DEF IInv, Clean, NetOK
<1>3. CleanInv /\ rpc = "reading"
  BY <1>2 DEF ReadRefused, Clean
<1>4. \/ readId = 2 /\ toReceiver = <<D2>>
      \/ readId = 3 /\ toReceiver = <<D3>>
  BY <1>2, <1>3 DEF CleanInv, Phase, AtAccept, AtFirstHandshake, AtFirstPacket, AtSecondHandshake,
              AtSecondPacket, AtEnd, BeforePacket, AfterPacket
<1> QED BY <1>2, <1>4, ShortSeqs DEF D2, D3

LEMMA SendPartFinishClean ==
  ASSUME IInv, Clean => CleanInv, SendPartFinish, Clean'
  PROVE  CleanInv' /\ StreamStep
<1>1. /\ UNCHANGED <<delivered, readId, toReceiver>> /\ UNCHANGED sendVars
      /\ CleanInv /\ rpc = "finish" /\ rpc' = "stop"
  BY DEF SendPartFinish, Clean, contextVars
<1>2. WritesReturned' /\ NotStarted' /\ UNCHANGED <<wpc, currentPartId, returned>>
  BY <1>1, SenderUntouched
<1>3. Phase' /\ delivered \in {<<2>>, <<2, 3>>}
  BY <1>1, <1>2 DEF CleanInv, Phase, AtAccept, AtFirstHandshake, AtFirstPacket, AtSecondHandshake,
              AtSecondPacket, AtEnd, BeforePacket, AfterPacket
<1>4. FinishAfterRead'
  BY <1>1, <1>3 DEF FinishAfterRead
<1> QED BY <1>1, <1>2, <1>3, <1>4, Unseen DEF CleanInv

LEMMA StopClean ==
  ASSUME IInv, Clean => CleanInv, StopRetransfers, Clean'
  PROVE  CleanInv' /\ StreamStep
<1>1. /\ UNCHANGED <<delivered, readId, toReceiver, toSender, socketReader, handler>>
      /\ UNCHANGED sendVars
      /\ CleanInv /\ rpc = "stop" /\ rpc' = "idle"
  BY DEF StopRetransfers, Clean, contextVars, faultVars, sendVars
<1>2. WritesReturned' /\ NotStarted' /\ UNCHANGED <<wpc, currentPartId, returned>>
  BY <1>1, SenderUntouched
<1>3. Phase'
  BY <1>1, <1>2 DEF CleanInv, Phase, AtAccept, AtFirstHandshake, AtFirstPacket, AtSecondHandshake,
              AtSecondPacket, AtEnd, BeforePacket, AfterPacket
<1>4. FinishAfterRead'
  BY <1>1 DEF CleanInv, FinishAfterRead, FinishSeen
<1> QED BY <1>1, <1>2, <1>3, <1>4, Unseen DEF CleanInv

\* Before the first handshake there is no requestRetransfers to send requests.
LEMMA TickClean ==
  ASSUME IInv, Clean => CleanInv, Tick, Clean'
  PROVE  CleanInv' /\ StreamStep
<1>1. /\ UNCHANGED <<rpc, delivered, readId, toReceiver, socketReader, handler>>
      /\ UNCHANGED sendVars
      /\ CleanInv /\ errors = 0 /\ tickers > rounds /\ Sent(toSender, "request")
  BY DEF Tick, Clean, readVars, sendVars
<1>2. WritesReturned' /\ NotStarted' /\ UNCHANGED <<wpc, currentPartId, returned>>
  BY <1>1, SenderUntouched
<1>3. rpc \notin {"accept", "idle"}
  BY <1>1 DEF IInv, TickersStop, ReceiverOK
<1>4. Phase'
  BY <1>1, <1>2, <1>3 DEF CleanInv, Phase, AtAccept, AtFirstHandshake, AtFirstPacket, AtSecondHandshake,
              AtSecondPacket, AtEnd, BeforePacket, AfterPacket
<1>5. FinishAfterRead'
  <2>1. FinishSeen' => FinishSeen
    BY <1>1, NoFinishSent
  <2> QED BY <1>1, <2>1 DEF CleanInv, FinishAfterRead
<1> QED BY <1>1, <1>2, <1>4, <1>5, Unseen DEF CleanInv

LEMMA RoundEndsClean ==
  ASSUME IInv, Clean => CleanInv, RoundEnds, Clean'
  PROVE  CleanInv' /\ StreamStep
<1>1. /\ UNCHANGED <<delivered, readId, toReceiver, toSender, socketReader, handler>>
      /\ UNCHANGED sendVars
      /\ CleanInv /\ errors = 0 /\ rounds > 0 /\ rpc' = IF locked THEN rpc ELSE "crashed"
  BY DEF RoundEnds, Clean, faultVars, sendVars
<1>2. rpc' = rpc
  BY <1>1 DEF IInv, RoundHasLock, ReceiverOK
<1>3. WritesReturned' /\ NotStarted' /\ UNCHANGED <<wpc, currentPartId, returned>>
  BY <1>1, SenderUntouched
<1>4. Phase'
  BY <1>1, <1>2, <1>3 DEF CleanInv, Phase, AtAccept, AtFirstHandshake, AtFirstPacket, AtSecondHandshake,
              AtSecondPacket, AtEnd, BeforePacket, AfterPacket
<1>5. FinishAfterRead'
  BY <1>1, <1>2 DEF CleanInv, FinishAfterRead, FinishSeen
<1> QED BY <1>1, <1>3, <1>4, <1>5, Unseen DEF CleanInv

\* A call that fails is not clean.
LEMMA FailsUnclean ==
  ASSUME IInv, SocketFails
  PROVE  ~Clean'
<1>1. CallFails /\ errors \in Nat
  BY NetworkBounds
  DEF SocketFails, AnswerFails, WriteFails, AcceptFails, ReadFails, ReadSocketFails,
      IInv, NetOK, NetworkTypeOK
<1> QED BY <1>1 DEF CallFails, Clean

LEMMA NextClean ==
  ASSUME IInv, Clean => CleanInv, [Next]_vars, Clean'
  PROVE  CleanInv' /\ StreamStep
<1>1. CASE UNCHANGED vars
  <2>1. /\ UNCHANGED <<rpc, delivered, readId, toReceiver, toSender, socketReader, handler>>
        /\ UNCHANGED sendVars /\ CleanInv
    BY <1>1 DEF vars, recvVars, sendVars, Clean, faultVars
  <2>2. WritesReturned' /\ NotStarted' /\ UNCHANGED <<wpc, currentPartId, returned>>
    BY <2>1, SenderUntouched
  <2>3. Phase'
    BY <2>1, <2>2 DEF CleanInv, Phase, AtAccept, AtFirstHandshake, AtFirstPacket, AtSecondHandshake,
              AtSecondPacket, AtEnd, BeforePacket, AfterPacket
  <2>4. FinishAfterRead'
    BY <2>1 DEF CleanInv, FinishAfterRead, FinishSeen
  <2> QED BY <2>1, <2>2, <2>3, <2>4, Unseen DEF CleanInv
<1>2. CASE WriteStep \/ Handshake
  BY <1>2, DialClean, HandshakeClean, TakeAnswerClean, StartWritepartClean, WritePartClean,
     EnterRetransferClean, LoopEndsClean
  DEF WriteStep
<1>3. CASE \E id \in PartIds : HandlerStep(id)
  BY <1>3, HandlerClean
<1>4. CASE ReadStep \/ StopRetransfers
  BY <1>4, AcceptClean, AwaitHandshakeClean, NoHandshakeClean, ReadPartClean,
     ReadRefusedClean, SendPartFinishClean, StopClean
  DEF ReadStep
<1>5. CASE Tick \/ RoundEnds
  BY <1>5, TickClean, RoundEndsClean
<1>6. CASE SocketFails
  BY <1>6, FailsUnclean
<1> QED BY <1>1, <1>2, <1>3, <1>4, <1>5, <1>6 DEF Next

\* What the connection promises while it is clean, in every behaviour.
LEMMA CleanInvariant == Spec => []PInv
<1>1. Init => PInv
  BY InitInv, InitClean DEF PInv
<1>2. PInv /\ [Next]_vars => PInv'
  BY NextInv, NextClean DEF PInv
<1> QED BY <1>1, <1>2, PTL DEF Spec

\* While packets are at most lost, the connection implements PartStream: parts
\* are read in the order of their Writes, each once, and a Write returns after
\* its part was read, although neither side looks whose handshake, answer or
\* finish message it has (controlplane.go:219, controlplane.go:247,
\* controlplane.go:300).
THEOREM StreamRefined == Spec => PartsInOrder
<1>1. Init => PS!Init
  BY DEF Init, PS!Init, PartIds
<1>2. PInv /\ [Next]_vars => [Clean' => [PS!Next]_(PS!vars)]_vars
  BY NextClean DEF PInv, StreamStep
<1> QED BY <1>1, <1>2, CleanInvariant, PTL DEF Spec, PartsInOrder

\* At most one Write of a connection returns while the network is clean.
OneWriteReturns == Clean => returned \subseteq {2}

\* No second Write returns, however many parts there are and however long they
\* take: SetState keeps the mutex while metrics.Stop waits (dataplane.go:102).
THEOREM SecondWriteNeverReturns == Spec => []OneWriteReturns
<1>1. PInv => OneWriteReturns
  BY DEF PInv, CleanInv, WritesReturned, OneWriteReturns
<1> QED BY <1>1, CleanInvariant, PTL
=============================================================================
