------------------------- MODULE SinglePacketProofs -------------------------
(***************************************************************************)
(* A single-packet Write that returned was read, whatever the network and  *)
(* the sockets do; and as long as they do nothing but lose packets each    *)
(* packet is read once.  For every number of Writes, losses, mixups and    *)
(* errors.                                                                 *)
(***************************************************************************)
EXTENDS SinglePacket, UtilsProofs

\* A Write under way has taken a part id.
HasId == wpc \in {"send", "await"} => currentPartId >= 1

\* Only ids that were read come back.
AnswersWereRead == toWriter \in Seq(IdsRead)

\* Without mixups and errors at most one packet is under way, that of the Write
\* that awaits its answer, on its way there, until it is read, or back.
OneUnderWay ==
  /\ \A i \in 1..Len(readIds) : readIds[i] <= currentPartId
  /\ wpc # "failed"
  /\ wpc \in {"idle", "send"} => toReader = <<>> /\ toWriter = <<>>
  /\ wpc = "send" => currentPartId \notin IdsRead
  /\ wpc = "await" =>
       \/ toReader = <<>> /\ toWriter \in {<<>>, <<currentPartId>>}
       \/ /\ toReader = <<currentPartId>> /\ toWriter = <<>>
          /\ currentPartId \notin IdsRead

\* What is proved inductive.
IInv ==
  /\ TypeOK
  /\ HasId
  /\ AnswersWereRead
  /\ WrittenIsRead
  /\ mixups = 0 /\ errors = 0 => OneUnderWay
  /\ ReadOnce

LEMMA InitInv == Init => IInv
<1> SUFFICES ASSUME Init PROVE IInv
  OBVIOUS
<1>1. TypeOK
  BY SinglePacketAssumption, NetworkBounds DEF Init, NetworkInit, TypeOK, NetworkTypeOK
<1>2. AnswersWereRead /\ HasId /\ WrittenIsRead /\ OneUnderWay /\ ReadOnce
  BY DEF Init, AnswersWereRead, HasId, WrittenIsRead, OneUnderWay, ReadOnce
<1> QED BY <1>1, <1>2 DEF IInv

\* Reading one more packet.
LEMMA ReadAdds ==
  ASSUME TypeOK, NEW id \in 1..MaxWrites, readIds' = Append(readIds, id)
  PROVE  /\ readIds' \in Seq(1..MaxWrites)
         /\ Len(readIds') = Len(readIds) + 1
         /\ \A i \in 1..Len(readIds) : readIds'[i] = readIds[i]
         /\ readIds'[Len(readIds) + 1] = id
         /\ IdsRead' = IdsRead \cup {id}
<1>1. /\ readIds \in Seq(1..MaxWrites) /\ Len(readIds) \in Nat
      /\ readIds' \in Seq(1..MaxWrites)
      /\ Len(readIds') = Len(readIds) + 1
      /\ \A i \in 1..Len(readIds) : readIds'[i] = readIds[i]
      /\ readIds'[Len(readIds) + 1] = id
  BY AppendProperties DEF TypeOK
<1>2. 1..Len(readIds') = (1..Len(readIds)) \cup {Len(readIds) + 1}
  BY <1>1
<1> QED BY <1>1, <1>2 DEF IdsRead

\* An answer is received: the other packets stay as they were, and without a
\* mixup it is the first.
LEMMA AnswerTaken ==
  ASSUME IInv, NEW k \in 1..Len(toWriter), Received(toWriter, k)
  PROVE  /\ toWriter[k] \in 1..MaxWrites /\ toWriter[k] \in IdsRead
         /\ toWriter' \in Seq(1..MaxWrites) /\ toWriter' \in Seq(IdsRead)
         /\ mixups' \in 0..MaxMixups
         /\ mixups' = 0 => mixups = 0 /\ k = 1 /\ toWriter' = Tail(toWriter)
<1>1. /\ toWriter \in Seq(1..MaxWrites) /\ toWriter \in Seq(IdsRead)
      /\ mixups \in 0..MaxMixups
  BY DEF IInv, TypeOK, NetworkTypeOK, AnswersWereRead
<1>2. \/ toWriter' = toWriter
      \/ toWriter' = Tail(toWriter)
      \/ toWriter' = RemoveFromSliceByIndex(toWriter, k)
  BY DEF Received
<1>3. toWriter' \in Seq(1..MaxWrites) /\ toWriter' \in Seq(IdsRead)
  BY <1>1, <1>2, QueueLeft, Zenon
<1>4. /\ mixups' \in 0..MaxMixups
      /\ mixups' = 0 => mixups = 0 /\ k = 1 /\ toWriter' = Tail(toWriter)
  BY <1>1, NetworkBounds DEF Received
<1>5. toWriter[k] \in 1..MaxWrites /\ toWriter[k] \in IdsRead
  BY <1>1, ElementOfSeq, Zenon
<1> QED BY <1>3, <1>4, <1>5

\* The same for a packet received by the reader.
LEMMA PacketTaken ==
  ASSUME TypeOK, NEW k \in 1..Len(toReader), Received(toReader, k)
  PROVE  /\ toReader[k] \in 1..MaxWrites
         /\ toReader' \in Seq(1..MaxWrites)
         /\ mixups' \in 0..MaxMixups
         /\ mixups' = 0 => mixups = 0 /\ k = 1 /\ toReader' = Tail(toReader)
<1>1. toReader \in Seq(1..MaxWrites) /\ mixups \in 0..MaxMixups
  BY DEF TypeOK, NetworkTypeOK
<1>2. \/ toReader' = toReader
      \/ toReader' = Tail(toReader)
      \/ toReader' = RemoveFromSliceByIndex(toReader, k)
  BY DEF Received
<1>3. toReader' \in Seq(1..MaxWrites)
  BY <1>1, <1>2, QueueLeft, Zenon
<1>4. /\ mixups' \in 0..MaxMixups
      /\ mixups' = 0 => mixups = 0 /\ k = 1 /\ toReader' = Tail(toReader)
  BY <1>1, NetworkBounds DEF Received
<1>5. toReader[k] \in 1..MaxWrites
  BY <1>1, ElementOfSeq, Zenon
<1> QED BY <1>3, <1>4, <1>5
-----------------------------------------------------------------------------
LEMMA WriteInv == IInv /\ Write => IInv'
<1> SUFFICES ASSUME IInv, Write PROVE IInv'
  OBVIOUS
<1>1. TypeOK'
  BY SinglePacketAssumption DEF IInv, TypeOK, NetworkTypeOK, Write, faultVars
<1>2. UNCHANGED <<readIds, toReader, toWriter, mixups, errors>> /\ IdsRead' = IdsRead
  BY DEF Write, faultVars, IdsRead
<1>3. HasId' /\ AnswersWereRead' /\ WrittenIsRead' /\ ReadOnce'
  BY <1>1, <1>2 DEF IInv, TypeOK, Write, HasId, AnswersWereRead, WrittenIsRead, ReadOnce
<1>4. ASSUME mixups = 0, errors = 0 PROVE OneUnderWay'
  <2>1. OneUnderWay /\ readIds \in Seq(1..MaxWrites) /\ currentPartId \in Nat
    BY <1>4, SinglePacketAssumption DEF IInv, TypeOK
  <2>2. /\ \A i \in 1..Len(readIds) : readIds[i] <= currentPartId
        /\ toReader = <<>> /\ toWriter = <<>>
    BY <2>1 DEF OneUnderWay, Write
  <2>3. \A i \in 1..Len(readIds) : readIds[i] \in Int /\ readIds[i] < currentPartId + 1
    BY <2>1, <2>2, SinglePacketAssumption
  <2>4. currentPartId + 1 \notin IdsRead
    BY <2>1, <2>3 DEF IdsRead
  <2>5. currentPartId' = currentPartId + 1 /\ wpc' = "send"
    BY DEF Write
  <2> QED BY <1>2, <2>1, <2>2, <2>3, <2>4, <2>5 DEF OneUnderWay
<1> QED BY <1>1, <1>2, <1>3, <1>4 DEF IInv

LEMMA SendInv == IInv /\ SendSingle => IInv'
<1> SUFFICES ASSUME IInv, SendSingle PROVE IInv'
  OBVIOUS
<1>1. /\ currentPartId \in 1..MaxWrites
      /\ \/ toReader' = Append(toReader, currentPartId) /\ losses' = losses
         \/ toReader' = toReader /\ losses' \in 0..MaxLosses
  BY NetworkBounds, SinglePacketAssumption
  DEF IInv, TypeOK, HasId, SendSingle, Sent, NetworkTypeOK
<1>2. TypeOK'
  <2>1. toReader' \in Seq(1..MaxWrites)
    <3>1. toReader \in Seq(1..MaxWrites)
      BY DEF IInv, TypeOK
    <3>2. Append(toReader, currentPartId) \in Seq(1..MaxWrites)
      BY <1>1, <3>1, AppendProperties, Zenon
    <3> QED BY <1>1, <3>1, <3>2
  <2> QED BY <1>1, <2>1 DEF IInv, TypeOK, NetworkTypeOK, SendSingle
<1>3. /\ UNCHANGED <<currentPartId, readIds, toWriter, mixups, errors>>
      /\ IdsRead' = IdsRead /\ wpc = "send" /\ wpc' = "await"
  BY DEF SendSingle, IdsRead
<1>4. HasId' /\ AnswersWereRead' /\ WrittenIsRead' /\ ReadOnce'
  BY <1>1, <1>3 DEF IInv, HasId, AnswersWereRead, WrittenIsRead, ReadOnce
<1>5. ASSUME mixups = 0, errors = 0 PROVE OneUnderWay'
  <2>1. /\ OneUnderWay
        /\ toReader = <<>> /\ toWriter = <<>> /\ currentPartId \notin IdsRead
    BY <1>3, <1>5 DEF IInv, OneUnderWay
  <2>2. toReader' = <<currentPartId>> \/ toReader' = <<>>
    BY <1>1, <2>1
  <2> QED BY <1>3, <2>1, <2>2 DEF OneUnderWay
<1> QED BY <1>2, <1>3, <1>4, <1>5 DEF IInv

LEMMA AnswerInv == IInv /\ ReceiveAnswer => IInv'
<1> SUFFICES ASSUME IInv, ReceiveAnswer PROVE IInv'
  OBVIOUS
<1>1. PICK k \in 1..Len(toWriter) :
        wpc' = Answered(toWriter[k]) /\ Received(toWriter, k)
  BY DEF ReceiveAnswer
<1>2. /\ toWriter[k] \in 1..MaxWrites /\ toWriter[k] \in IdsRead
      /\ toWriter' \in Seq(1..MaxWrites) /\ toWriter' \in Seq(IdsRead)
      /\ mixups' \in 0..MaxMixups
      /\ mixups' = 0 => mixups = 0 /\ k = 1 /\ toWriter' = Tail(toWriter)
  BY <1>1, AnswerTaken
<1>3. /\ UNCHANGED <<currentPartId, readIds, toReader, losses, errors>>
      /\ IdsRead' = IdsRead /\ wpc = "await"
      /\ wpc' = IF toWriter[k] = currentPartId THEN "idle" ELSE "send"
  BY <1>1 DEF ReceiveAnswer, IdsRead, Answered
<1>4. TypeOK'
  BY <1>2, <1>3 DEF IInv, TypeOK, NetworkTypeOK
<1>5. HasId' /\ AnswersWereRead' /\ WrittenIsRead'
  BY <1>2, <1>3 DEF IInv, HasId, AnswersWereRead, WrittenIsRead
<1>6. ASSUME mixups' = 0, errors' = 0 PROVE OneUnderWay' /\ ReadOnce'
  <2>1. OneUnderWay /\ ReadOnce /\ mixups = 0 /\ errors = 0
    BY <1>2, <1>3, <1>6 DEF IInv
  <2>2. toReader = <<>> /\ toWriter = <<currentPartId>> /\ k = 1 /\ toWriter' = Tail(toWriter)
    BY <1>2, <1>3, <1>6, <2>1 DEF OneUnderWay
  <2>3. toWriter' = <<>> /\ wpc' = "idle"
    BY <1>3, <2>2
  <2> QED BY <1>3, <2>1, <2>2, <2>3 DEF OneUnderWay, ReadOnce
<1> QED BY <1>4, <1>5, <1>6 DEF IInv, ReadOnce

LEMMA WriteFailsInv == IInv /\ WriteFails => IInv'
<1> SUFFICES ASSUME IInv, WriteFails PROVE IInv'
  OBVIOUS
<1>1. errors' \in 0..MaxErrors /\ errors' # 0
  BY NetworkBounds DEF IInv, TypeOK, NetworkTypeOK, WriteFails, CallFails
<1> QED
  BY <1>1 DEF IInv, TypeOK, NetworkTypeOK, WriteFails, HasId, AnswersWereRead, IdsRead,
              WrittenIsRead, ReadOnce

LEMMA ReadInv == IInv /\ ReadSingle => IInv'
<1> SUFFICES ASSUME IInv, ReadSingle PROVE IInv'
  OBVIOUS
<1>1. PICK k \in 1..Len(toReader) :
        /\ readIds' = Append(readIds, toReader[k])
        /\ Received(toReader, k)
        /\ Sent(toWriter, toReader[k])
  BY DEF ReadSingle
<1> DEFINE id == toReader[k]
<1>2. /\ id \in 1..MaxWrites
      /\ toReader' \in Seq(1..MaxWrites)
      /\ mixups' \in 0..MaxMixups
      /\ mixups' = 0 => mixups = 0 /\ k = 1 /\ toReader' = Tail(toReader)
  BY <1>1, PacketTaken DEF IInv
<1> HIDE DEF id
<1>3. /\ readIds' \in Seq(1..MaxWrites)
      /\ Len(readIds') = Len(readIds) + 1
      /\ \A i \in 1..Len(readIds) : readIds'[i] = readIds[i]
      /\ readIds'[Len(readIds) + 1] = id
      /\ IdsRead' = IdsRead \cup {id}
  BY <1>1, <1>2, ReadAdds DEF IInv, id
<1>4. \/ toWriter' = Append(toWriter, id) /\ losses' = losses
      \/ toWriter' = toWriter /\ losses' \in 0..MaxLosses
  BY <1>1, NetworkBounds DEF Sent, IInv, TypeOK, NetworkTypeOK, id
<1>5. UNCHANGED <<wpc, currentPartId, errors>>
  BY DEF ReadSingle
<1>6. toWriter' \in Seq(1..MaxWrites) /\ toWriter' \in Seq(IdsRead')
  <2>1. toWriter \in Seq(1..MaxWrites) /\ toWriter \in Seq(IdsRead')
    <3>1. toWriter \in Seq(1..MaxWrites) /\ toWriter \in Seq(IdsRead) /\ IdsRead \subseteq IdsRead'
      BY <1>3 DEF IInv, TypeOK, AnswersWereRead
    <3> QED BY <3>1
  <2>2. id \in IdsRead'
    BY <1>3
  <2>3. Append(toWriter, id) \in Seq(1..MaxWrites) /\ Append(toWriter, id) \in Seq(IdsRead')
    BY <1>2, <2>1, <2>2, AppendProperties, Zenon
  <2> QED BY <1>4, <2>1, <2>3
<1>7. TypeOK'
  BY <1>2, <1>3, <1>4, <1>5, <1>6 DEF IInv, TypeOK, NetworkTypeOK
<1>8. HasId' /\ AnswersWereRead' /\ WrittenIsRead'
  BY <1>3, <1>5, <1>6 DEF IInv, HasId, AnswersWereRead, WrittenIsRead
<1>9. ASSUME mixups' = 0, errors' = 0 PROVE OneUnderWay' /\ ReadOnce'
  <2>1. OneUnderWay /\ ReadOnce /\ mixups = 0 /\ errors = 0
    BY <1>2, <1>5, <1>9 DEF IInv
  <2>2. /\ toReader # <<>> /\ k = 1 /\ toReader' = Tail(toReader)
        /\ wpc \in {"idle", "send", "await", "failed"} /\ readIds \in Seq(1..MaxWrites)
    BY <1>2, <1>9 DEF IInv, TypeOK
  <2>3. /\ wpc = "await" /\ toReader = <<currentPartId>> /\ toWriter = <<>>
        /\ currentPartId \notin IdsRead /\ id = currentPartId
    BY <2>1, <2>2 DEF OneUnderWay, id
  <2>4. toReader' = <<>> /\ toWriter' \in {<<>>, <<currentPartId>>}
    BY <1>4, <2>2, <2>3
  <2>5. \A i \in 1..Len(readIds') : readIds'[i] <= currentPartId
    <3> SUFFICES ASSUME NEW i \in 1..Len(readIds') PROVE readIds'[i] <= currentPartId
      OBVIOUS
    <3>1. currentPartId \in Int
      BY <1>2, <2>3
    <3>2. CASE i \in 1..Len(readIds)
      BY <1>3, <2>1, <3>2 DEF OneUnderWay
    <3>3. CASE i = Len(readIds) + 1
      BY <1>3, <2>3, <3>1, <3>3
    <3> QED BY <1>3, <2>2, <3>2, <3>3
  <2>6. OneUnderWay'
    BY <1>5, <2>3, <2>4, <2>5 DEF OneUnderWay
  <2>7. \A i \in 1..Len(readIds) : readIds[i] # id
    BY <2>3 DEF IdsRead
  <2>8. ReadOnce'
    <3> SUFFICES ASSUME NEW i \in 1..Len(readIds'), NEW j \in 1..Len(readIds'),
                        readIds'[i] = readIds'[j]
                 PROVE  i = j
      BY DEF ReadOnce
    <3>1. \A a, b \in 1..Len(readIds) : readIds[a] = readIds[b] => a = b
      BY <2>1 DEF ReadOnce
    <3>2. /\ i \in 1..Len(readIds) \/ i = Len(readIds) + 1
          /\ j \in 1..Len(readIds) \/ j = Len(readIds) + 1
      BY <1>3, <2>2
    <3> QED BY <1>3, <2>7, <3>1, <3>2
  <2> QED BY <2>6, <2>8
<1> QED BY <1>7, <1>8, <1>9 DEF IInv, ReadOnce

LEMMA ReadFailsInv == IInv /\ ReadFails => IInv'
<1> SUFFICES ASSUME IInv, ReadFails PROVE IInv'
  OBVIOUS
<1>1. PICK k \in 1..Len(toReader) : Received(toReader, k)
  BY DEF ReadFails
<1>2. toReader' \in Seq(1..MaxWrites) /\ mixups' \in 0..MaxMixups
  BY <1>1, PacketTaken DEF IInv
<1>3. errors' \in 0..MaxErrors /\ errors' # 0
  BY NetworkBounds DEF IInv, TypeOK, NetworkTypeOK, ReadFails, CallFails
<1> QED
  BY <1>2, <1>3 DEF IInv, TypeOK, NetworkTypeOK, ReadFails, HasId, AnswersWereRead,
                    IdsRead, WrittenIsRead, ReadOnce

LEMMA NextInv == IInv /\ [Next]_vars => IInv'
<1>1. IInv /\ UNCHANGED vars => IInv'
  BY DEF vars, faultVars, IInv, TypeOK, NetworkTypeOK, HasId, AnswersWereRead, IdsRead,
         WrittenIsRead, OneUnderWay, ReadOnce
<1> QED
  BY <1>1, WriteInv, SendInv, AnswerInv, WriteFailsInv, ReadInv, ReadFailsInv DEF Next

\* The invariant holds in every state of every behaviour.
LEMMA Invariant == Spec => []IInv
BY InitInv, NextInv, PTL DEF Spec

\* The state of the single-packet transfer keeps its types.
THEOREM TypeCorrect == Spec => []TypeOK
BY Invariant, PTL DEF IInv

\* WriteSingle returns without an error only for a packet that was read: the
\* comparison of ids at dataplane.go:289 is enough, whatever answers earlier
\* Writes have left in the socket.
THEOREM ReturnedIsRead == Spec => []WrittenIsRead
BY Invariant, PTL DEF IInv

\* While packets are at most lost, each one is read once although ReadSingle
\* compares nothing (dataplane.go:231).
THEOREM EachReadOnce == Spec => []ReadOnce
BY Invariant, PTL DEF IInv
=============================================================================
