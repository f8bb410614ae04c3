----------------------------- MODULE Multipath -----------------------------
(***************************************************************************)
(* The multipath socket: NumConns connections opened by ListenMP and       *)
(* DialMP and accepted by AcceptMP, and Writes and Reads that split their  *)
(* buffer over them, one goroutine per connection.                         *)
(*                                                                         *)
(* A connection is what PartsConn is by modules SinglePacket, PartTransfer *)
(* and Connection.  Single packets, and the first part after them, reach   *)
(* the Read of the same call, and the Write that sent them may return      *)
(* after that (that of a part need not).  What follows the first part may  *)
(* hang or go astray, and the Write of a second part never returns.  A     *)
(* call may also fail, and packets may be lost; from then on anything on   *)
(* a connection may go astray.                                             *)
(*                                                                         *)
(* A slice is the range of its positions in the buffer; got holds the      *)
(* positions of the current Read's buffer that have their byte.  The n-th  *)
(* Read has a buffer as long as the n-th Write's.                          *)
(*                                                                         *)
(* MaxCalls bounds the Writes, MaxFailures the calls that fail and the     *)
(* losses.                                                                 *)
(***************************************************************************)
EXTENDS Utils

CONSTANTS
  NumConns,     \* MPOptions.NumConns
  PayloadSize,  \* PACKET_PAYLOAD_SIZE; 1200 in the code
  Lengths,      \* lengths of buffers
  MaxCalls, MaxFailures

ASSUME MultipathAssumption ==
  /\ NumConns \in Nat \ {0}
  /\ PayloadSize \in Nat
  /\ Lengths \subseteq Nat \ {0}
  /\ MaxCalls \in Nat
  /\ MaxFailures \in Nat

Conns == 0..(NumConns - 1)
Sides == {"listen", "dial"}

VARIABLES
  socket,    \* per side, ListenMP or DialMP: "opening", "open" or "failed"
  conns,     \* per side, len(PartsSocket.conns)
  apc,       \* AcceptMP: "none", "waiting", "returned" or "failed"
  acceptor,  \* its goroutines: "none", "accepting", "ok" or "error" (sending
             \*   that to errChan), then "accepted" or "refused"
  taken,     \* loop variable of AcceptMP
  lengths,   \* the length of the buffer of each call
  wpc, rpc,        \* Write and Read: "idle", "waiting" (for wg) or "panicked"
  wcall, rcall,    \* the call each is in, or was in
  writer, reader,  \* their goroutines: "none", "calling", "sent" or "done"
  link,      \* per connection, slices written and not read yet
  got,       \* positions of the Read's buffer that have their byte
  failures

openVars   == <<socket, conns>>
acceptVars == <<apc, acceptor, taken>>
writeVars  == <<wpc, wcall, writer>>
readVars   == <<rpc, rcall, reader, got>>
vars       == <<openVars, acceptVars, writeVars, readVars, lengths, link, failures>>

Init ==
  /\ socket = [s \in Sides |-> "opening"]
  /\ conns = [s \in Sides |-> 0]
  /\ apc = "none"
  /\ acceptor = [i \in Conns |-> "none"]
  /\ taken = 0
  /\ lengths \in [1..MaxCalls -> Lengths]
  /\ wpc = "idle" /\ rpc = "idle"
  /\ wcall = 0 /\ rcall = 0
  /\ writer = [i \in Conns |-> "none"]
  /\ reader = [i \in Conns |-> "none"]
  /\ link = [i \in Conns |-> <<>>]
  /\ got = {}
  /\ failures = 0

\* Listen, Dial, Accept, Read or Write of a connection returns an error, or a
\* packet it needs is lost.
Fails == failures < MaxFailures /\ failures' = failures + 1
-----------------------------------------------------------------------------
(* ListenMP and DialMP.                                                    *)

\* Mutant: one connection too many.
LastOneLater(s) == conns[s] = NumConns

\* The loop is at its last iteration.
LastOne(s) == conns[s] + 1 = NumConns

\* One iteration: Listen or Dial on the next port.
OpenConn(s) ==
  /\ socket[s] = "opening"
  /\ conns' = [conns EXCEPT ![s] = @ + 1]
  /\ socket' = [socket EXCEPT ![s] = IF LastOne(s) THEN "open" ELSE @]
  /\ UNCHANGED <<acceptVars, writeVars, readVars, lengths, link, failures>>

\* The error is returned; the connections opened before stay open.
OpenFails(s) ==
  /\ socket[s] = "opening"
  /\ Fails
  /\ socket' = [socket EXCEPT ![s] = "failed"]
  /\ UNCHANGED <<conns, acceptVars, writeVars, readVars, lengths, link>>
-----------------------------------------------------------------------------
(* AcceptMP.                                                               *)

AcceptMP ==
  /\ socket["listen"] = "open"
  /\ apc = "none"
  /\ apc' = "waiting"
  /\ acceptor' = [i \in Conns |-> "accepting"]
  /\ UNCHANGED <<taken, openVars, writeVars, readVars, lengths, link, failures>>

\* Accept on connection i gets the handshake of the connection that dialed it.
Accept(i) ==
  /\ acceptor[i] = "accepting"
  /\ conns["dial"] > i
  /\ acceptor' = [acceptor EXCEPT ![i] = "ok"]
  /\ UNCHANGED <<apc, taken, openVars, writeVars, readVars, lengths, link, failures>>

AcceptFails(i) ==
  /\ acceptor[i] = "accepting"
  /\ Fails
  /\ acceptor' = [acceptor EXCEPT ![i] = "error"]
  /\ UNCHANGED <<apc, taken, openVars, writeVars, readVars, lengths, link>>

\* Mutant: an error counts like any result.
AfterAny(i) == IF taken + 1 = NumConns THEN "returned" ELSE "waiting"

\* What AcceptMP does with the result of goroutine i: the first error is
\* returned.
After(i) ==
  IF acceptor[i] = "error" THEN "failed"
  ELSE IF taken + 1 = NumConns THEN "returned"
  ELSE "waiting"

\* errChan is unbuffered: goroutine i gets rid of its result while AcceptMP
\* waits for one.
TakeResult(i) ==
  /\ apc = "waiting"
  /\ acceptor[i] \in {"ok", "error"}
  /\ acceptor' = [acceptor EXCEPT ![i] = IF @ = "ok" THEN "accepted" ELSE "refused"]
  /\ taken' = taken + 1
  /\ apc' = After(i)
  /\ UNCHANGED <<openVars, writeVars, readVars, lengths, link, failures>>
-----------------------------------------------------------------------------
(* How a buffer is split.                                                  *)

PartLen(len) == CeilForceInt(len, NumConns)

\* Mutant: indexes counted from one.
StartFromOne(len, i) == PartLen(len) * (i + 1)

Start(len, i) == PartLen(len) * i

End(len, i) == MinInt(Start(len, i) + PartLen(len), len)

\* b[start:end] does not panic.
InBounds(len, i) == Start(len, i) <= End(len, i)

SliceOf(len, i) == Start(len, i)..(End(len, i) - 1)

\* The connections a Write uses, and the positions each of them is given.
WriteConns(len) == IF len <= PayloadSize THEN {0} ELSE Conns

WriteSlice(len, i) == IF len <= PayloadSize THEN 0..(len - 1) ELSE SliceOf(len, i)

\* Mutant: the limit as PartsConn.Read has it.
ReadConnsBelow(len) == IF len < PayloadSize THEN {0} ELSE Conns

\* The same for a Read.
ReadConns(len) == IF len <= PayloadSize THEN {0} ELSE Conns

ReadSlice(len, i) == IF len <= PayloadSize THEN 0..(len - 1) ELSE SliceOf(len, i)
-----------------------------------------------------------------------------
(* What a connection does with its slices.                                 *)

SliceLen(len, i) == IF len <= PayloadSize THEN len ELSE End(len, i) - Start(len, i)

\* The slice is sent as a part, with a handshake, and not as a single packet.
IsPart(len, i) == SliceLen(len, i) >= PayloadSize

\* Connection i has been used for a part before call c: goroutines of it are left.
Carried(i, c) ==
  \E d \in 1..(c - 1) : i \in WriteConns(lengths[d]) /\ IsPart(lengths[d], i)

\* Nothing is left on connection i that could disturb call c.
Undisturbed(i, c) == failures = 0 /\ ~Carried(i, c)
-----------------------------------------------------------------------------
(* Write.                                                                  *)

Write ==
  /\ socket["dial"] = "open"
  /\ wpc = "idle"
  /\ wcall < MaxCalls
  /\ wcall' = wcall + 1
  /\ wpc' = "waiting"
  /\ writer' = [i \in Conns |->
                  IF i \in WriteConns(lengths[wcall + 1]) THEN "calling" ELSE "none"]
  /\ UNCHANGED <<openVars, acceptVars, readVars, lengths, link, failures>>

WriteConn(i) ==
  LET len == lengths[wcall]
  IN  /\ wpc = "waiting"
      /\ writer[i] = "calling"
      /\ IF len > PayloadSize /\ ~InBounds(len, i)
         THEN wpc' = "panicked" /\ UNCHANGED <<writer, link>>
         ELSE /\ writer' = [writer EXCEPT ![i] = "sent"]
              /\ link' = [link EXCEPT ![i] =
                            Append(@, [call |-> wcall, slice |-> WriteSlice(len, i)])]
              /\ UNCHANGED wpc
      /\ UNCHANGED <<wcall, openVars, acceptVars, readVars, lengths, failures>>

\* A Write returns after its Read.  That of a second part waits for SetState, which
\* waits for the mutex that metrics.Stop keeps since the first; only when the first
\* Write failed can it return, by whatever finish message comes.
WriteConnReturns(i) ==
  /\ wpc = "waiting"
  /\ writer[i] = "sent"
  /\ IF IsPart(lengths[wcall], i) /\ Carried(i, wcall)
     THEN failures > 0
     ELSE link[i] = <<>>
  /\ writer' = [writer EXCEPT ![i] = "done"]
  /\ UNCHANGED <<wpc, wcall, openVars, acceptVars, readVars, lengths, link, failures>>

\* The error is ignored, whether the slice was sent or not.
WriteConnFails(i) ==
  /\ wpc = "waiting"
  /\ writer[i] \in {"calling", "sent"}
  /\ Fails
  /\ writer' = [writer EXCEPT ![i] = "done"]
  /\ UNCHANGED <<wpc, wcall, openVars, acceptVars, readVars, lengths, link>>

WriteReturns ==
  /\ wpc = "waiting"
  /\ \A i \in Conns : writer[i] \in {"none", "done"}
  /\ wpc' = "idle"
  /\ UNCHANGED <<wcall, writer, openVars, acceptVars, readVars, lengths, link, failures>>
-----------------------------------------------------------------------------
(* Read.                                                                   *)

Read ==
  /\ apc = "returned"
  /\ rpc = "idle"
  /\ rcall < MaxCalls
  /\ rcall' = rcall + 1
  /\ rpc' = "waiting"
  /\ reader' = [i \in Conns |->
                  IF i \in ReadConns(lengths[rcall + 1]) THEN "calling" ELSE "none"]
  /\ got' = {}
  /\ UNCHANGED <<openVars, acceptVars, writeVars, lengths, link, failures>>

\* The slice goes where the Read's own split puts it.
ReadConn(i) ==
  LET len == lengths[rcall]
      mine == [call |-> rcall, slice |-> ReadSlice(len, i)]
  IN  /\ rpc = "waiting"
      /\ reader[i] = "calling"
      /\ IF len > PayloadSize /\ ~InBounds(len, i)
         THEN rpc' = "panicked" /\ UNCHANGED <<reader, got, link>>
         ELSE /\ link[i] # <<>>
              /\ link' = [link EXCEPT ![i] = Tail(@)]
              /\ reader' = [reader EXCEPT ![i] = "done"]
              /\ got' = got \cup (IF Head(link[i]) = mine THEN mine.slice ELSE {})
              /\ UNCHANGED rpc
      /\ UNCHANGED <<rcall, openVars, acceptVars, writeVars, lengths, failures>>

\* The Read of connection i returns without its slice and without an error: it took
\* other packets for it, or counted copies.
ReadConnAstray(i) ==
  /\ rpc = "waiting"
  /\ reader[i] = "calling"
  /\ lengths[rcall] <= PayloadSize \/ InBounds(lengths[rcall], i)
  /\ ~Undisturbed(i, rcall)
  /\ \/ UNCHANGED link
     \/ link[i] # <<>> /\ link' = [link EXCEPT ![i] = Tail(@)]
  /\ reader' = [reader EXCEPT ![i] = "done"]
  /\ UNCHANGED <<rpc, rcall, got, openVars, acceptVars, writeVars, lengths, failures>>

\* The error is ignored.
ReadConnFails(i) ==
  /\ rpc = "waiting"
  /\ reader[i] = "calling"
  /\ Fails
  /\ reader' = [reader EXCEPT ![i] = "done"]
  /\ UNCHANGED <<rpc, rcall, got, openVars, acceptVars, writeVars, lengths, link>>

ReadReturns ==
  /\ rpc = "waiting"
  /\ \A i \in Conns : reader[i] \in {"none", "done"}
  /\ rpc' = "idle"
  /\ UNCHANGED <<rcall, reader, got, openVars, acceptVars, writeVars, lengths, link,
                 failures>>
-----------------------------------------------------------------------------
\* Nobody notices, and calls may hang from now on.
PacketLost ==
  /\ Fails
  /\ UNCHANGED <<openVars, acceptVars, writeVars, readVars, lengths, link>>

ConnStep(i) ==
  \/ Accept(i) \/ TakeResult(i)
  \/ WriteConn(i) \/ WriteConnReturns(i)
  \/ ReadConn(i) \/ ReadConnAstray(i)

SocketFails ==
  \/ \E s \in Sides : OpenFails(s)
  \/ \E i \in Conns : AcceptFails(i) \/ WriteConnFails(i) \/ ReadConnFails(i)
  \/ PacketLost

Next ==
  \/ \E s \in Sides : OpenConn(s)
  \/ AcceptMP \/ Write \/ WriteReturns \/ Read \/ ReadReturns
  \/ \E i \in Conns : ConnStep(i)
  \/ SocketFails

Spec == Init /\ [][Next]_vars

\* The goroutines of a call that has begun run while nothing disturbs their
\* connection, and Read returns when they have.  When to call is the application's
\* choice, and no Write need return.
FairSpec ==
  /\ Spec
  /\ \A i \in Conns : /\ WF_vars(Undisturbed(i, wcall) /\ WriteConn(i))
                      /\ WF_vars(Undisturbed(i, rcall) /\ ReadConn(i))
  /\ WF_vars(ReadReturns)
-----------------------------------------------------------------------------
\* The types of the state.
TypeOK ==
  /\ socket \in [Sides -> {"opening", "open", "failed"}]
  /\ conns \in [Sides -> 0..NumConns]
  /\ apc \in {"none", "waiting", "returned", "failed"}
  /\ acceptor \in [Conns -> {"none", "accepting", "ok", "error", "accepted", "refused"}]
  /\ taken \in Nat
  /\ lengths \in [1..MaxCalls -> Lengths]
  /\ wpc \in {"idle", "waiting", "panicked"}
  /\ rpc \in {"idle", "waiting", "panicked"}
  /\ wcall \in 0..MaxCalls /\ rcall \in 0..MaxCalls
  /\ writer \in [Conns -> {"none", "calling", "sent", "done"}]
  /\ reader \in [Conns -> {"none", "calling", "done"}]
  /\ failures \in 0..MaxFailures

Short(len) == len < (NumConns - 1) * (NumConns - 1)

\* Slicing the buffer panics (mp.go:86) only when it is shorter than
\* (NumConns - 1)^2 bytes: no slice of a longer one starts behind its end.  With
\* 35 connections or fewer every buffer that is split is long enough.
PanicsOnlyWhenShort ==
  /\ wpc = "panicked" => Short(lengths[wcall])
  /\ rpc = "panicked" => Short(lengths[rcall])

\* No connection has been used for a part before the current Read, and no call has
\* failed.
Sound == \A i \in Conns : Undisturbed(i, rcall)

\* A Read that returned has every byte of its buffer, each from the connection
\* that was given it (mp.go:111), until a connection has carried a part, whose
\* goroutines disturb the next call, or has failed, whose error Write and Read
\* drop (mp.go:88).
ReadFillsBuffer ==
  rpc = "idle" /\ rcall > 0 /\ Sound => got = 0..(lengths[rcall] - 1)

\* AcceptMP returns without an error only when every connection is accepted and
\* no goroutine is left waiting at errChan (mp.go:68).
AcceptsAll == apc = "returned" => \A i \in Conns : acceptor[i] = "accepted"

\* A Read that has its Write returns, unless its connections have carried a part
\* before, something fails or a slice is out of bounds: both sides split the buffer
\* over the same connections (mp.go:75, mp.go:99), and parts and single packets in
\* the same way.
ReadHasItsWrite ==
  (rpc = "waiting" /\ wcall >= rcall /\ Sound)
    ~> (rpc = "idle" \/ failures > 0 \/ wpc = "panicked" \/ rpc = "panicked")
=============================================================================
