---------------------------- MODULE ReliablePart ----------------------------
(***************************************************************************)
(* What the README promises of the transfer of one part: "Parts is a       *)
(* reliable transport protocol", and of Read and Write "Both calls block   *)
(* until the data is transferred completely".  Packets reach the reader's  *)
(* buffer in any order; Read returns when all of them have, and Write only *)
(* after the reader has them.                                              *)
(***************************************************************************)
EXTENDS Integers

CONSTANT NumPackets

VARIABLES
  delivered,  \* packets in the reader's buffer
  readDone,   \* Read has everything it will get
  writeDone   \* Write has returned

vars == <<delivered, readDone, writeDone>>

Init ==
  /\ delivered = {}
  /\ readDone = FALSE
  /\ writeDone = FALSE

Deliver(s) ==
  /\ ~readDone
  /\ delivered' = delivered \cup {s}
  /\ UNCHANGED <<readDone, writeDone>>

ReadReturns ==
  /\ ~readDone
  /\ delivered = 1..NumPackets
  /\ readDone' = TRUE
  /\ UNCHANGED <<delivered, writeDone>>

WriteReturns ==
  /\ readDone
  /\ ~writeDone
  /\ writeDone' = TRUE
  /\ UNCHANGED <<delivered, readDone>>

Next ==
  \/ \E s \in 1..NumPackets : Deliver(s)
  \/ ReadReturns
  \/ WriteReturns

Spec == Init /\ [][Next]_vars
=============================================================================
