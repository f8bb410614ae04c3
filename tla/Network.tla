------------------------------ MODULE Network ------------------------------
(***************************************************************************)
(* UDP sockets as the connections use them.  A direction of the network is *)
(* the sequence of packets on their way to, or in the buffer of, the       *)
(* socket at its end.  How often it may misbehave is bounded: MaxLosses    *)
(* packets are lost, MaxMixups are received once more or before an earlier *)
(* one, and MaxErrors calls on a socket return an error.                   *)
(***************************************************************************)
EXTENDS Utils

CONSTANTS MaxLosses, MaxMixups, MaxErrors

ASSUME NetworkBounds == MaxLosses \in Nat /\ MaxMixups \in Nat /\ MaxErrors \in Nat

VARIABLES losses, mixups, errors

faultVars == <<losses, mixups, errors>>

NetworkInit == losses = 0 /\ mixups = 0 /\ errors = 0

NetworkTypeOK ==
  /\ losses \in 0..MaxLosses
  /\ mixups \in 0..MaxMixups
  /\ errors \in 0..MaxErrors

\* m is put on its way, unless it is lost.
Sent(net, m) ==
  \/ net' = Append(net, m) /\ UNCHANGED losses
  \/ losses < MaxLosses /\ losses' = losses + 1 /\ UNCHANGED net

\* The packet at k is received from net.  Out of turn, or staying there to be
\* received once more, it is a mixup.
Received(net, k) ==
  \/ /\ k = 1
     /\ net' = Tail(net)
     /\ UNCHANGED mixups
  \/ /\ mixups < MaxMixups
     /\ mixups' = mixups + 1
     /\ \/ k > 1 /\ net' = RemoveFromSliceByIndex(net, k)
        \/ UNCHANGED net

\* A call on a socket returns an error.
CallFails == errors < MaxErrors /\ errors' = errors + 1
=============================================================================
