---------------------------- MODULE SinglePacket ----------------------------
(***************************************************************************)
(* Reads and writes that fit in one packet: dataplane.WriteSingle and      *)
(* ReadSingle.                                                             *)
(*                                                                         *)
(* A Write takes the next part id, sends the packet and waits for the id   *)
(* to come back; any other id makes it send the packet again.  A Read      *)
(* returns the next packet, whatever it is, and sends it back.  The peer   *)
(* calls Read again and again.  A packet is its part id: the payload is a  *)
(* function of it.                                                         *)
(*                                                                         *)
(* MaxWrites bounds the number of Writes.                                  *)
(***************************************************************************)
EXTENDS Network

CONSTANT MaxWrites

ASSUME SinglePacketAssumption == MaxWrites \in Nat

VARIABLES
  wpc,            \* "idle", "send", "await" or "failed" (error returned)
  currentPartId,  \* ControlPlane.currentPartId
  readIds,        \* part ids of the packets Read returned, in order
  toReader,       \* packets on their way to the reader
  toWriter        \* ids on their way back

vars == <<wpc, currentPartId, readIds, toReader, toWriter, faultVars>>

Init ==
  /\ wpc = "idle"
  /\ currentPartId = 0
  /\ readIds = <<>>
  /\ toReader = <<>>
  /\ toWriter = <<>>
  /\ NetworkInit

-----------------------------------------------------------------------------
\* Write with a buffer of one packet: NextPartId, then WriteSingle.
Write ==
  /\ wpc \in {"idle", "failed"}
  /\ currentPartId < MaxWrites
  /\ currentPartId' = currentPartId + 1
  /\ wpc' = "send"
  /\ UNCHANGED <<readIds, toReader, toWriter, faultVars>>

\* Mutant: every attempt takes a new part id.
SendSingleNewId ==
  /\ wpc = "send"
  /\ wpc' = "await"
  /\ currentPartId' = currentPartId + 1
  /\ Sent(toReader, currentPartId + 1)
  /\ UNCHANGED <<readIds, toWriter, mixups, errors>>

SendSingle ==
  /\ wpc = "send"
  /\ wpc' = "await"
  /\ Sent(toReader, currentPartId)
  /\ UNCHANGED <<currentPartId, readIds, toWriter, mixups, errors>>

\* Mutants: any id will do; the packet is sent once more; a wrong id is an
\* error.
AnyAnswer(id) == "idle"

AnswerOfLast(id) == IF id = currentPartId - 1 THEN "idle" ELSE "send"

WrongAnswerFails(id) == IF id = currentPartId THEN "idle" ELSE "failed"

\* What the loop of WriteSingle does with the id that came back.
Answered(id) == IF id = currentPartId THEN "idle" ELSE "send"

ReceiveAnswer ==
  /\ wpc = "await"
  /\ \E k \in 1..Len(toWriter) :
       wpc' = Answered(toWriter[k]) /\ Received(toWriter, k)
  /\ UNCHANGED <<currentPartId, readIds, toReader, losses, errors>>

\* Conn.Write or Conn.Read fails: WriteSingle, and so Write, returns the error.
WriteFails ==
  /\ wpc \in {"send", "await"}
  /\ CallFails
  /\ wpc' = "failed"
  /\ UNCHANGED <<currentPartId, readIds, toReader, toWriter, losses, mixups>>

\* ReadSingle: the packet is returned and sent back.
ReadSingle ==
  /\ \E k \in 1..Len(toReader) :
       /\ readIds' = Append(readIds, toReader[k])
       /\ Received(toReader, k)
       /\ Sent(toWriter, toReader[k])
  /\ UNCHANGED <<wpc, currentPartId, errors>>

\* The packet cannot be sent back: Read has taken it and returns the error.
ReadFails ==
  /\ CallFails
  /\ \E k \in 1..Len(toReader) : Received(toReader, k)
  /\ UNCHANGED <<wpc, currentPartId, readIds, toWriter, losses>>

Next == Write \/ SendSingle \/ ReceiveAnswer \/ WriteFails \/ ReadSingle \/ ReadFails

Spec == Init /\ [][Next]_vars

\* A call that has begun goes on as long as it can, and the peer keeps reading.
FairSpec ==
  Spec /\ WF_vars(SendSingle) /\ WF_vars(ReceiveAnswer) /\ WF_vars(ReadSingle)
-----------------------------------------------------------------------------
IdsRead == {readIds[i] : i \in 1..Len(readIds)}

\* The types of the state.
TypeOK ==
  /\ wpc \in {"idle", "send", "await", "failed"}
  /\ currentPartId \in 0..MaxWrites
  /\ readIds \in Seq(1..MaxWrites)
  /\ toReader \in Seq(1..MaxWrites)
  /\ toWriter \in Seq(1..MaxWrites)
  /\ NetworkTypeOK

\* A Write that returned without an error was read: an answer left over from
\* an earlier Write, repeated or late, never ends a later one
\* (dataplane.go:289).
WrittenIsRead == wpc = "idle" /\ currentPartId > 0 => currentPartId \in IdsRead

\* A Write that has begun returns, unless a packet is lost or a call fails: the
\* ids that repeated packets leave behind for later Writes run out
\* (dataplane.go:289).
SingleWriteReturns ==
  wpc = "send" ~> (wpc = "idle" \/ losses > 0 \/ errors > 0)

\* Each packet is read once as long as the network keeps packets in order and
\* no call fails: WriteSingle then never sends one again, and ReadSingle, which
\* takes any packet for the next message (dataplane.go:231), is right to.
ReadOnce ==
  mixups = 0 /\ errors = 0 =>
    \A i, j \in 1..Len(readIds) : readIds[i] = readIds[j] => i = j
=============================================================================
